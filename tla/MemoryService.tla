--------------------------- MODULE MemoryService ---------------------------
(***************************************************************************)
(* The background work of memory/service.py and its end: the query of a    *)
(* stream and the recalls of its frames, in threads of the default         *)
(* executor; teach requests with their embeddings, in an executor of one   *)
(* thread behind a semaphore; identify requests, whose job outlives their  *)
(* timeout; and close(), which waits for some of them and then closes the  *)
(* store.  A step of the event loop is what runs between two awaits.       *)
(***************************************************************************)
EXTENDS Integers, Sequences, FiniteSets, FiniteSetsExt, SequencesExt

CONSTANTS
    Teachers, Identifiers,   \* the requests, each made once
    MaxQueries,              \* bound: background queries started
    QueueSize,               \* queue_size
    Slots,                   \* 1 + teach_queue_size
    Yields,                  \* how many events a query may have
    TwoCrops                 \* the requests with two crops to try for a face

ASSUME ServiceAssumption ==
    /\ MaxQueries \in Nat /\ {QueueSize, Slots} \subseteq Nat \ {0}
    /\ Yields \subseteq 0..2
    /\ Teachers \cap Identifiers = {} /\ TwoCrops \subseteq Teachers
    /\ IsFiniteSet(Teachers) /\ IsFiniteSet(Identifiers)

Requests == Teachers \cup Identifiers
Queries == 1..MaxQueries
\* A query makes at most one event of a person and one of the scene.
Events == Queries \X {1, 2}

VARIABLES
    job,        \* the queries: not started, running, or done with its events
    pending,    \* _pending_queries_by_stream of the one stream; 0: no entry
    completed,  \* _completed_by_stream
    request,    \* what each request is doing, and the query it waits for
    identify,   \* the executor job of each identify request
    embedding,  \* the embedding job of each teach request
    slots,      \* the semaphore: free, and releases on their way to the loop
    recall,     \* the event recall of the latest frame
    closing,    \* how far close() is, and the query it waits for
    store,      \* "open" or "closed"
    told,       \* history: the events put into an answer, lost answers included
    copies      \* history: how often each query's events were enqueued

vars == <<job, pending, completed, request, identify, embedding, slots, recall, closing,
          store, told, copies>>

NotStarted == [state |-> "none", events |-> 0]
Init ==
    /\ job = [k \in Queries |-> NotStarted]
    /\ pending = 0 /\ completed = <<>>
    /\ request = [r \in Requests |-> [pc |-> "new", on |-> 0, crops |-> IF r \in TwoCrops THEN 2 ELSE 1]]
    /\ identify = [i \in Identifiers |-> "none"]
    /\ embedding = [t \in Teachers |-> "none"]
    /\ slots = [free |-> Slots, releases |-> 0]
    /\ recall = "none"
    /\ closing = [stage |-> "open", query |-> 0]
    /\ store = "open"
    /\ told = {} /\ copies = [k \in Queries |-> 0]

Closed == closing.stage # "open"
Running(k) == job[k].state = "running"
Done(k) == job[k].state = "done"

-----------------------------------------------------------------------------
(* Queries of the stream and their events *)

EventsOf(k) == [i \in 1..job[k].events |-> <<k, i>>]

\* deque(maxlen): an event too many pushes out the oldest.
Newest(events) ==
    IF Len(events) <= QueueSize THEN events
    ELSE SubSeq(events, Len(events) - QueueSize + 1, Len(events))

PopsAnyway(k) == 0       \* mutant
\* The entry of the stream is removed only while it is still this query's.
EntryAfter(k) == IF pending = k THEN 0 ELSE pending

\* _collect_completed_query, by whoever finds query k done, as often as somebody does.
Collects(k) ==
    /\ completed' = Newest(completed \o EventsOf(k))
    /\ copies' = [copies EXCEPT ![k] = @ + 1]
    /\ pending' = EntryAfter(k)
CollectsNothing == UNCHANGED <<completed, copies, pending>>

NextQuery == Min({k \in Queries : job[k].state = "none"} \cup {MaxQueries + 1})

MayQuery == pending \notin {k \in Queries : Running(k)}

\* A frame: observe_visual_state, drain_completed_events and the event recalls, with no
\* await in which anything else could run.  What is drained goes into the answer.
Frame(due, recalls) ==
    LET k      == NextQuery
        found  == IF pending # 0 /\ Done(pending) THEN EventsOf(pending) ELSE <<>>
        starts == due /\ ~ Closed /\ MayQuery
    IN /\ starts => k \in Queries
       /\ job' = IF starts THEN [job EXCEPT ![k].state = "running"] ELSE job
       /\ pending' = IF starts THEN k
                   ELSE IF pending # 0 /\ Done(pending) THEN EntryAfter(pending) ELSE pending
       /\ copies' = [q \in Queries |-> IF q = pending /\ Done(q) THEN copies[q] + 1 ELSE copies[q]]
       /\ told' = told \cup ToSet(Newest(completed \o found))
       /\ completed' = <<>>
       /\ recall' = IF recalls /\ recall = "none" /\ ~ starts /\ MayQuery THEN "running" ELSE recall
       /\ UNCHANGED <<request, identify, embedding, slots, closing, store>>

\* A timing assumption: a query that finds something (it searches the store) takes longer
\* than the loop takes to wake those who waited for the query before.
QueryDone(k, events) ==
    /\ Running(k)
    /\ events > 0 => \A r \in Requests : request[r].pc = "waiting" => request[r].on = k
    /\ job' = [job EXCEPT ![k] = [state |-> "done", events |-> events]]
    /\ UNCHANGED <<pending, completed, request, identify, embedding, slots, recall, closing,
                   store, told, copies>>

RecallDone ==
    /\ recall # "none"
    /\ recall' = "none"
    /\ UNCHANGED <<job, pending, completed, request, identify, embedding, slots, closing,
                   store, told, copies>>

-----------------------------------------------------------------------------
(* Requests *)

Goto(r, pc) == [request EXCEPT ![r].pc = pc]
Ends(r) == [request EXCEPT ![r].pc = "ended", ![r].crops = 0]

\* What follows once the stream's query was waited for: an error, or the next await.
Proceeds(r) ==
    \/ /\ request' = Ends(r) /\ UNCHANGED identify
    \/ /\ r \in Teachers /\ request' = Goto(r, "acquire") /\ UNCHANGED identify
    \/ /\ r \in Identifiers /\ request' = Goto(r, "identify")
       /\ identify' = [identify EXCEPT ![r] = "running"]

\* _enter_teach_request refuses when closed; identify_current does not ask.
Enter(r) ==
    /\ request[r].pc = "new"
    /\ \/ /\ r \in Teachers /\ Closed
          /\ request' = Ends(r)
          /\ CollectsNothing /\ UNCHANGED identify
       \/ /\ r \in Identifiers \/ ~ Closed
          /\ IF pending # 0 /\ Running(pending)
             THEN /\ request' = [request EXCEPT ![r].pc = "waiting", ![r].on = pending]
                  /\ CollectsNothing /\ UNCHANGED identify
             ELSE /\ IF pending = 0 THEN CollectsNothing ELSE Collects(pending)
                  /\ Proceeds(r)
    /\ UNCHANGED <<job, embedding, slots, recall, closing, store, told>>

\* The query waited for is done: its events are collected, if need be once more.
Wake(r) ==
    /\ request[r].pc = "waiting" /\ Done(request[r].on)
    /\ Collects(request[r].on)
    /\ Proceeds(r)
    /\ UNCHANGED <<job, embedding, slots, recall, closing, store, told>>

\* An identify request gives up waiting, for the query or for its own job.
IdentifyTimeout(i) ==
    /\ request[i].pc \in {"waiting", "identify"}
    /\ request' = Ends(i)
    /\ UNCHANGED <<job, pending, completed, identify, embedding, slots, recall, closing,
                   store, told, copies>>

IdentifyJobDone(i) ==
    /\ identify[i] = "running"
    /\ identify' = [identify EXCEPT ![i] = "none"]
    /\ request' = IF request[i].pc = "identify" THEN Ends(i) ELSE request
    /\ UNCHANGED <<job, pending, completed, embedding, slots, recall, closing, store, told,
                   copies>>

-----------------------------------------------------------------------------
(* Teach embeddings *)

ExecutorShut == closing.stage \in {"embeddings", "closed"}

\* A slot is acquired and the job submitted, or the queue stays full for too long.
AcquireSlot(t) ==
    /\ request[t].pc = "acquire"
    /\ \/ /\ slots.free > 0 /\ ~ ExecutorShut
          /\ slots' = [slots EXCEPT !.free = @ - 1]
          /\ embedding' = [embedding EXCEPT ![t] = "queued"]
          /\ request' = Goto(t, "embedding")
       \/ request' = Ends(t) /\ UNCHANGED <<slots, embedding>>
    /\ UNCHANGED <<job, pending, completed, identify, recall, closing, store, told, copies>>

Embed(t) ==
    /\ embedding[t] = "queued"
    /\ \A u \in Teachers : embedding[u] # "running"
    /\ embedding' = [embedding EXCEPT ![t] = "running"]
    /\ UNCHANGED <<job, pending, completed, request, identify, slots, recall, closing, store,
                   told, copies>>

\* on_done: the slot comes back through call_soon_threadsafe.
EmbeddingDone(t) ==
    /\ embedding[t] = "running"
    /\ embedding' = [embedding EXCEPT ![t] = IF request[t].pc = "embedding" THEN "done" ELSE "none"]
    /\ slots' = [slots EXCEPT !.releases = @ + 1]
    /\ UNCHANGED <<job, pending, completed, request, identify, recall, closing, store, told,
                   copies>>

ReleaseSlot ==
    /\ slots.releases > 0
    /\ slots' = [free |-> slots.free + 1, releases |-> slots.releases - 1]
    /\ UNCHANGED <<job, pending, completed, request, identify, embedding, recall, closing,
                   store, told, copies>>

\* No usable face: the next crop is tried.  Otherwise the rest of the request runs, with
\* the store, to its end.
AfterEmbedding(t) ==
    /\ request[t].pc = "embedding" /\ embedding[t] = "done"
    /\ \/ /\ request[t].crops > 1
          /\ request' = [request EXCEPT ![t].pc = "acquire", ![t].crops = @ - 1]
       \/ request' = Ends(t)
    /\ embedding' = [embedding EXCEPT ![t] = "none"]
    /\ UNCHANGED <<job, pending, completed, identify, slots, recall, closing,
                   store, told, copies>>

ReleasesAtOnce(t) ==  \* mutant
    slots' = IF embedding[t] \in {"queued", "running"}
             THEN [slots EXCEPT !.releases = @ + 1] ELSE slots
\* Only a job that had not begun is cancelled with its request, and gives back its slot.
GivesBackSlot(t) ==
    slots' = IF embedding[t] = "queued" THEN [slots EXCEPT !.releases = @ + 1] ELSE slots

\* A teach request is cancelled where it waits.
CancelTeach(t) ==
    /\ request[t].pc \in {"waiting", "acquire", "embedding"}
    /\ request' = Ends(t)
    /\ embedding' = [embedding EXCEPT ![t] = IF @ = "running" THEN @ ELSE "none"]
    /\ GivesBackSlot(t)
    /\ UNCHANGED <<job, pending, completed, identify, recall, closing, store, told, copies>>

-----------------------------------------------------------------------------
(* close() *)

TeachActive == {t \in Teachers : request[t].pc \in {"waiting", "acquire", "embedding"}}

BeginClose ==
    /\ closing.stage = "open"
    /\ closing' = [closing EXCEPT !.stage = "teach"]
    /\ UNCHANGED <<job, pending, completed, request, identify, embedding, slots, recall,
                   store, told, copies>>

WaitsForNobody == TRUE  \* mutant
TeachEnded == TeachActive = {}

\* The last teach request ends: the queries to wait for are listed.
ListQueries ==
    /\ closing.stage = "teach" /\ TeachEnded
    /\ closing' = [closing EXCEPT !.stage = "queries", !.query = pending]
    /\ UNCHANGED <<job, pending, completed, request, identify, embedding, slots, recall,
                   store, told, copies>>

EntryGone == pending = 0  \* mutant
QueriesEnded == closing.query \notin {k \in Queries : Running(k)}

\* The listed queries end: the entries are cleared and the recalls are listed.
ListRecalls ==
    /\ closing.stage = "queries" /\ QueriesEnded
    /\ closing' = [closing EXCEPT !.stage = "recalls"]
    /\ recall' = IF recall = "none" THEN "none" ELSE "listed"
    /\ pending' = 0
    /\ UNCHANGED <<job, completed, request, identify, embedding, slots, store, told, copies>>

\* The listed recalls end: the embedding executor is shut down, which cancels what is queued.
ShutExecutor ==
    /\ closing.stage = "recalls" /\ recall # "listed"
    /\ closing' = [closing EXCEPT !.stage = "embeddings"]
    /\ UNCHANGED <<job, pending, completed, request, identify, embedding, slots, recall,
                   store, told, copies>>

CloseStore ==
    /\ closing.stage = "embeddings"
    /\ \A t \in Teachers : embedding[t] # "running"
    /\ closing' = [closing EXCEPT !.stage = "closed"]
    /\ store' = "closed"
    /\ UNCHANGED <<job, pending, completed, request, identify, embedding, slots, recall,
                   told, copies>>

-----------------------------------------------------------------------------
Close == ListQueries \/ ListRecalls \/ ShutExecutor \/ CloseStore

Next ==
    \/ \E due, recalls \in BOOLEAN : Frame(due, recalls)
    \/ \E k \in Queries, n \in Yields : QueryDone(k, n)
    \/ RecallDone
    \/ \E r \in Requests : Enter(r) \/ Wake(r)
    \/ \E i \in Identifiers : IdentifyTimeout(i) \/ IdentifyJobDone(i)
    \/ \E t \in Teachers : \/ AcquireSlot(t) \/ Embed(t) \/ EmbeddingDone(t)
                           \/ AfterEmbedding(t) \/ CancelTeach(t)
    \/ ReleaseSlot
    \/ BeginClose \/ Close

\* Threads end what they began, the loop runs what is ready and timers go off; nothing
\* is assumed of frames, of new requests or of when close is called.
Fairness ==
    /\ \A k \in Queries : WF_vars(\E n \in Yields : QueryDone(k, n))
    /\ WF_vars(RecallDone) /\ WF_vars(ReleaseSlot) /\ WF_vars(Close)
    /\ \A r \in Requests : WF_vars(Wake(r))
    /\ \A i \in Identifiers : WF_vars(IdentifyJobDone(i))
    /\ \A t \in Teachers :
         /\ WF_vars(AcquireSlot(t)) /\ WF_vars(Embed(t)) /\ WF_vars(EmbeddingDone(t))
         /\ WF_vars(AfterEmbedding(t))

Spec == Init /\ [][Next]_vars /\ Fairness

-----------------------------------------------------------------------------
\* Every part is what it should be, and queue and semaphore keep to their limits.
TypeOK ==
    /\ \A k \in Queries : job[k].state \in {"none", "running", "done"} /\ job[k].events \in 0..2
    /\ pending \in 0..MaxQueries /\ (pending # 0 => job[pending].state # "none")
    /\ completed \in BoundedSeq(Events, QueueSize)
    /\ \A r \in Requests : request[r].pc = "waiting" => request[r].on \in Queries
    /\ slots.free \in 0..Slots /\ slots.releases \in 0..Slots

\* A running query has the stream's entry, whoever takes away the entry of an earlier
\* one: so no second query runs, and close() knows whom to wait for.
OneQueryAtATime == \A k \in Queries : Running(k) => pending = k

\* A queue with room for one query's events loses none of them to copies or later
\* ones: whatever was collected was told or is still waiting to be.
NothingPushedOut ==
    \A k \in Queries : copies[k] > 0 => ToSet(EventsOf(k)) \subseteq told \cup ToSet(completed)

\* An event is collected once, and once more for each request that waited for its query.
CopiesHaveAWaiter ==
    \A k \in Queries : copies[k] <= 1 + Cardinality({r \in Requests : request[r].on = k})

\* The events of a query reach the stream, once or once for each who waited for it.
EventsKept == OneQueryAtATime /\ NothingPushedOut /\ CopiesHaveAWaiter

\* Every slot of the teach queue is free, on its way back, or held by a job, through
\* timeouts, cancelled requests and close.
SlotsConserved ==
    slots.free + slots.releases
      + Cardinality({t \in Teachers : embedding[t] \in {"queued", "running"}}) = Slots

\* Queue, semaphore and pending entry keep to their limits.
Bounded == TypeOK /\ SlotsConserved

\* close() waits for all it promises to: no query, no teach request, no embedding and no
\* recall it listed is left when the store is closed.  Identify jobs and recalls that
\* began later may still meet the closed store.
StoreOutlives ==
    /\ ExecutorShut => /\ \A k \in Queries : ~ Running(k)
                       /\ TeachActive = {} /\ recall # "listed"
    /\ store = "closed" => \A t \in Teachers : embedding[t] \notin {"queued", "running"}

\* close() ends: no order of requests, timeouts and jobs leaves it waiting.
CloseEnds == closing.stage = "teach" ~> store = "closed"
=============================================================================
