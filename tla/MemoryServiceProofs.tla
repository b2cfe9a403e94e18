-------------------------- MODULE MemoryServiceProofs --------------------------
(***************************************************************************)
(* Safety of MemoryService for every number of queries and requests, every *)
(* queue size and every number of slots.                                   *)
(***************************************************************************)
EXTENDS MemoryService, SequenceTheorems, FiniteSetTheorems, TLAPS

Started(k) == job[k].state # "none"
ClosingFrom(stages) == closing.stage \in stages

RequestState == [pc : {"new", "waiting", "acquire", "embedding", "identify", "ended"},
                 on : 0..MaxQueries, crops : 0..2]

Shapes ==
    /\ job \in [Queries -> [state : {"none", "running", "done"}, events : 0..2]]
    /\ pending \in 0..MaxQueries
    /\ completed \in Seq(Events) /\ Len(completed) <= QueueSize
    /\ request \in [Requests -> RequestState]
    /\ identify \in [Identifiers -> {"none", "running"}]
    /\ embedding \in [Teachers -> {"none", "queued", "running", "done"}]
    /\ slots \in [free : Nat, releases : Nat]
    /\ recall \in {"none", "running", "listed"}
    /\ closing \in [stage : {"open", "teach", "queries", "recalls", "embeddings", "closed"},
                    query : 0..MaxQueries]
    /\ store \in {"open", "closed"}
    /\ copies \in [Queries -> Nat]

(* Queries start one after the other, the stream's entry is the latest of  *)
(* them or gone, and close() knows the one still running.                  *)
InSequence ==
    /\ \E n \in 0..MaxQueries : \A k \in Queries : Started(k) <=> k <= n
    /\ pending # 0 => /\ Started(pending)
                      /\ \A k \in Queries : Started(k) => k <= pending
    /\ OneQueryAtATime
    /\ ClosingFrom({"queries"}) => \A k \in Queries : Running(k) => closing.query = k
    /\ ClosingFrom({"recalls", "embeddings", "closed"}) => \A k \in Queries : ~ Running(k)

(* Who waits, waits for a query; who has ended waiting has collected it.   *)
Collected == [k \in Queries |-> {r \in Requests : request[r].on = k /\ request[r].pc # "waiting"}]

Counted ==
    /\ \A r \in Requests : /\ request[r].pc = "new" => request[r].on = 0
                           /\ request[r].pc = "waiting" => request[r].on \in Queries
    /\ \A k \in Queries :
           copies[k] + (IF pending = k THEN 1 ELSE 0) <= 1 + Cardinality(Collected[k])
    /\ \A k \in Queries : ~ Started(k) => copies[k] = 0

(* A teach request and its job are where each can be with the other there. *)
JobsMatch ==
    \A t \in Teachers :
        /\ request[t].pc \in {"new", "waiting", "acquire", "identify"} => embedding[t] = "none"
        /\ request[t].pc = "embedding" => embedding[t] # "none"
        /\ request[t].pc = "ended" => embedding[t] \in {"none", "running"}

CloseWaits ==
    /\ ClosingFrom({"queries", "recalls", "embeddings", "closed"}) => TeachActive = {}
    /\ ExecutorShut => recall # "listed"
    /\ store = "closed" => closing.stage = "closed"
    /\ closing.stage = "closed" => \A t \in Teachers : embedding[t] # "running"

IInv == Shapes /\ InSequence /\ Counted /\ JobsMatch /\ SlotsConserved /\ CloseWaits

-----------------------------------------------------------------------------
(* The queue has room for the events of one query.                         *)
RoomForOne == Yields \subseteq 0..QueueSize

(* What an earlier query found has been told before the next one started;  *)
(* so only the events of the latest are at stake, and nobody is left who   *)
(* could put older ones on top of them.                                    *)
Kept ==
    /\ \A k \in Queries : job[k].events <= QueueSize
    /\ \A k \in Queries : ~ Done(k) => job[k].events = 0 /\ copies[k] = 0
    /\ \A k \in Queries : Done(k) /\ copies[k] = 0
           => pending = k \/ ClosingFrom({"recalls", "embeddings", "closed"})
    /\ \A k, l \in Queries : k < l /\ Started(l) => ToSet(EventsOf(k)) \subseteq told
    /\ \A r \in Requests, l \in Queries :
           request[r].pc = "waiting" /\ job[l].events > 0 => l <= request[r].on
    /\ NothingPushedOut

-----------------------------------------------------------------------------
(* The helpers of the model                                                *)

LEMMA NextIsNext ==
  ASSUME NEW n \in 0..MaxQueries, \A k \in Queries : Started(k) <=> k <= n
  PROVE  NextQuery = n + 1
<1> DEFINE S == {k \in Queries : job[k].state = "none"} \cup {MaxQueries + 1}
<1>1. n + 1 \in S /\ \A x \in S : x \in Int /\ n + 1 <= x
  BY ServiceAssumption DEF Queries, Started
<1>2. Min(S) \in S /\ \A x \in S : Min(S) <= x
  BY <1>1 DEF Min
<1> HIDE DEF S
<1>3. Min(S) = n + 1
  BY <1>1, <1>2
<1> QED
  BY <1>3 DEF NextQuery, S

LEMMA EventsOfIsSeq ==
  ASSUME NEW k \in Queries, NEW e \in 0..2, job[k].events = e
  PROVE  /\ EventsOf(k) \in Seq(Events) /\ Len(EventsOf(k)) = e
         /\ \A i \in 1..e : EventsOf(k)[i] = <<k, i>>
<1>1. \A i \in 1..e : <<k, i>> \in Events
  BY DEF Events
<1> QED
  BY <1>1 DEF EventsOf

(* deque(maxlen) keeps to its length and keeps what came last.             *)
LEMMA NewestIsLast ==
  ASSUME NEW s \in Seq(Events)
  PROVE  /\ Newest(s) \in Seq(Events) /\ Len(Newest(s)) <= QueueSize
         /\ Len(s) <= QueueSize => Newest(s) = s
         /\ Len(s) > QueueSize
                => /\ DOMAIN Newest(s) = 1..QueueSize
                   /\ \A i \in 1..QueueSize : Newest(s)[i] = s[Len(s) - QueueSize + i]
<1>1. QueueSize \in Nat /\ QueueSize > 0 /\ Len(s) \in Nat /\ DOMAIN s = 1..Len(s)
  BY ServiceAssumption
<1>2. CASE Len(s) <= QueueSize
  <2>1. Newest(s) = s
    BY <1>2 DEF Newest
  <2>2. ~ (Len(s) > QueueSize)
    BY <1>1, <1>2
  <2> QED
    BY <1>2, <2>1, <2>2
<1>3. CASE Len(s) > QueueSize
  <2> DEFINE d == Len(s) - QueueSize
             t == SubSeq(s, d + 1, Len(s))
  <2>1. /\ d \in Nat /\ d + 1 \in Int /\ d + 1 <= Len(s) /\ Len(s) \in Int
        /\ \A i \in (d + 1)..Len(s) : s[i] \in Events
    BY <1>1, <1>3
  <2>2. /\ t \in Seq(Events)
        /\ Len(t) = IF d + 1 <= Len(s) THEN Len(s) - (d + 1) + 1 ELSE 0
        /\ \A i \in 1..(Len(s) - (d + 1) + 1) : t[i] = s[(d + 1) + i - 1]
    BY <2>1, SubSeqProperties
  <2> HIDE DEF t
  <2>3. Len(s) - (d + 1) + 1 = QueueSize /\ \A i \in 1..QueueSize : (d + 1) + i - 1 = d + i
    BY <1>1, <2>1
  <2>4. /\ t \in Seq(Events) /\ Len(t) = QueueSize /\ DOMAIN t = 1..QueueSize
        /\ \A i \in 1..QueueSize : t[i] = s[d + i]
    BY <1>1, <2>1, <2>2, <2>3
  <2>5. Newest(s) = t
    BY <1>1, <1>3 DEF Newest, t
  <2> QED
    BY <1>1, <1>3, <2>4, <2>5
<1> QED
  BY <1>1, <1>2, <1>3

LEMMA NewestKeeps ==
  ASSUME NEW c \in Seq(Events), NEW e \in Seq(Events), Len(e) <= QueueSize
  PROVE  ToSet(e) \subseteq ToSet(Newest(c \o e))
<1>1. /\ QueueSize \in Nat /\ Len(c) \in Nat /\ Len(e) \in Nat
      /\ DOMAIN c = 1..Len(c) /\ DOMAIN e = 1..Len(e)
  BY ServiceAssumption
<1>2. /\ c \o e \in Seq(Events) /\ Len(c \o e) = Len(c) + Len(e)
      /\ DOMAIN (c \o e) = 1..(Len(c) + Len(e))
      /\ \A i \in 1..Len(e) : (c \o e)[Len(c) + i] = e[i]
  BY <1>1, ConcatProperties
<1>3. \A i \in DOMAIN e : \E k \in DOMAIN Newest(c \o e) : Newest(c \o e)[k] = e[i]
  <2> SUFFICES ASSUME NEW i \in DOMAIN e
               PROVE  \E k \in DOMAIN Newest(c \o e) : Newest(c \o e)[k] = e[i]
    OBVIOUS
  <2>1. CASE Len(c \o e) <= QueueSize
    <3>1. Len(c) + i \in DOMAIN (c \o e)
      BY <1>1, <1>2
    <3> QED
      BY <1>1, <1>2, <2>1, <3>1, NewestIsLast
  <2>2. CASE Len(c \o e) > QueueSize
    <3> DEFINE d == Len(c \o e) - QueueSize
    <3>1. Len(c) + i - d \in 1..QueueSize /\ d + (Len(c) + i - d) = Len(c) + i
      BY <1>1, <1>2, <2>2
    <3>2. \A m \in 1..QueueSize : Newest(c \o e)[m] = (c \o e)[d + m]
      BY <1>2, <2>2, NewestIsLast
    <3>3. Newest(c \o e)[Len(c) + i - d] = (c \o e)[Len(c) + i]
      BY <3>1, <3>2
    <3> QED
      BY <1>1, <1>2, <2>2, <3>1, <3>3, NewestIsLast
  <2> QED
    BY <1>1, <1>2, <2>1, <2>2
<1> QED
  BY <1>3 DEF ToSet

-----------------------------------------------------------------------------
(* Initial states                                                          *)

LEMMA InitIInv == Init => IInv
<1> SUFFICES ASSUME Init PROVE IInv
  OBVIOUS
<1> USE ServiceAssumption DEF Init
<1>1. Shapes
  BY DEF Shapes, NotStarted, RequestState
<1>2. InSequence
  <2>1. \A k \in Queries : ~ Started(k) /\ ~ Running(k)
    BY DEF NotStarted, Started, Running
  <2>2. 0 \in 0..MaxQueries /\ \A k \in Queries : Started(k) <=> k <= 0
    BY <2>1 DEF Queries
  <2> QED
    BY <2>1, <2>2 DEF InSequence, OneQueryAtATime, ClosingFrom
<1>3. Counted
  <2>1. \A k \in Queries : Cardinality(Collected[k]) \in Nat
    BY FS_Subset, FS_Union, FS_CardinalityType DEF Collected, Requests
  <2> QED
    BY <2>1 DEF Counted, Queries
<1>4. JobsMatch
  BY DEF JobsMatch, Requests
<1>5. SlotsConserved
  <2>1. {t \in Teachers : embedding[t] \in {"queued", "running"}} = {}
    OBVIOUS
  <2>2. Cardinality({t \in Teachers : embedding[t] \in {"queued", "running"}}) = 0
    BY <2>1, FS_EmptySet
  <2> QED
    BY <2>2 DEF SlotsConserved
<1>6. CloseWaits
  BY DEF CloseWaits, ClosingFrom, ExecutorShut
<1> QED
  BY <1>1, <1>2, <1>3, <1>4, <1>5, <1>6 DEF IInv

-----------------------------------------------------------------------------
(* Shapes                                                                  *)

LEMMA CollectsShapes ==
  ASSUME Shapes, NEW k \in Queries, Collects(k)
  PROVE  /\ completed' \in Seq(Events) /\ Len(completed') <= QueueSize
         /\ pending' \in 0..MaxQueries /\ copies' \in [Queries -> Nat]
<1>1. EventsOf(k) \in Seq(Events) /\ completed \in Seq(Events)
  BY EventsOfIsSeq DEF Shapes
<1>2. completed \o EventsOf(k) \in Seq(Events)
  BY <1>1, ConcatProperties
<1>3. completed' \in Seq(Events) /\ Len(completed') <= QueueSize
  BY <1>2, NewestIsLast DEF Collects
<1>4. pending' \in 0..MaxQueries /\ copies' \in [Queries -> Nat]
  BY ServiceAssumption DEF Shapes, Collects, EntryAfter
<1> QED
  BY <1>3, <1>4

(* Request r goes on to one of the places pcs; the others stay.            *)
Moves(r, pcs) ==
    /\ request' \in [Requests -> RequestState]
    /\ request'[r].pc \in pcs
    /\ \A q \in Requests : /\ request'[q].on = request[q].on
                           /\ q # r => request'[q].pc = request[q].pc

LEMMA EndsMoves ==
  ASSUME Shapes, NEW r \in Requests, request' = Ends(r)
  PROVE  Moves(r, {"ended"})
<1> DEFINE first == [request EXCEPT ![r].pc = "ended"]
<1>0. request \in [Requests -> RequestState] /\ first \in [Requests -> RequestState]
  BY DEF Shapes, RequestState
<1>1. request' = [first EXCEPT ![r].crops = 0] /\ request' \in [Requests -> RequestState]
  <2>1. request' = [first EXCEPT ![r].crops = 0]
    BY <1>0 DEF Ends, RequestState
  <2> HIDE DEF first
  <2> QED
    BY <1>0, <2>1 DEF RequestState
<1>2. request'[r].pc = "ended" /\ request'[r].on = request[r].on
  BY <1>0, <1>1 DEF Ends, RequestState
<1>3. \A q \in Requests : q # r => request'[q] = request[q]
  BY <1>0, <1>1 DEF Ends
<1> QED
  BY <1>1, <1>2, <1>3 DEF Moves

LEMMA GotoMoves ==
  ASSUME Shapes, NEW r \in Requests, NEW pc \in {"acquire", "embedding", "identify"},
         request' = Goto(r, pc)
  PROVE  Moves(r, {pc})
  BY DEF Shapes, Goto, Moves, RequestState

LEMMA ProceedsMoves ==
  ASSUME Shapes, NEW r \in Requests, Proceeds(r)
  PROVE  /\ Moves(r, {"ended", "acquire", "identify"})
         /\ request'[r].pc = "acquire" => r \in Teachers
         /\ request'[r].pc = "identify" => r \in Identifiers
         /\ identify' \in [Identifiers -> {"none", "running"}]
<1>1. CASE request' = Ends(r) /\ UNCHANGED identify
  BY <1>1, EndsMoves DEF Moves, Shapes
<1>2. CASE r \in Teachers /\ request' = Goto(r, "acquire") /\ UNCHANGED identify
  BY <1>2, GotoMoves DEF Moves, Shapes
<1>3. CASE /\ r \in Identifiers /\ request' = Goto(r, "identify")
           /\ identify' = [identify EXCEPT ![r] = "running"]
  BY <1>3, GotoMoves DEF Moves, Shapes
<1> QED
  BY <1>1, <1>2, <1>3 DEF Proceeds

(* What an arriving request can do.                                        *)
LEMMA EnterCases ==
  ASSUME Shapes, NEW r \in Requests, Enter(r)
  PROVE  /\ request[r].pc = "new"
         /\ identify' \in [Identifiers -> {"none", "running"}]
         /\ \/ CollectsNothing /\ Moves(r, {"ended"})
            \/ /\ CollectsNothing /\ pending # 0 /\ Running(pending)
               /\ r \in Teachers => ~ Closed
               /\ request' = [request EXCEPT ![r].pc = "waiting", ![r].on = pending]
            \/ /\ r \in Teachers => ~ Closed
               /\ IF pending = 0 THEN CollectsNothing ELSE Collects(pending)
               /\ pending # 0 => ~ Running(pending)
               /\ Moves(r, {"ended", "acquire", "identify"})
               /\ request'[r].pc = "acquire" => r \in Teachers
               /\ request'[r].pc = "identify" => r \in Identifiers
<1>0. request[r].pc = "new" /\ (r \in Teachers => r \notin Identifiers)
  BY ServiceAssumption DEF Enter
<1>1. CASE r \in Teachers /\ Closed /\ request' = Ends(r) /\ CollectsNothing /\ UNCHANGED identify
  BY <1>0, <1>1, EndsMoves DEF Shapes
<1>2. CASE /\ r \in Identifiers \/ ~ Closed
           /\ pending # 0 /\ Running(pending)
           /\ request' = [request EXCEPT ![r].pc = "waiting", ![r].on = pending]
           /\ CollectsNothing /\ UNCHANGED identify
  BY <1>0, <1>2 DEF Shapes
<1>3. CASE /\ r \in Identifiers \/ ~ Closed
           /\ pending # 0 => ~ Running(pending)
           /\ IF pending = 0 THEN CollectsNothing ELSE Collects(pending)
           /\ Proceeds(r)
  BY <1>0, <1>3, ProceedsMoves
<1> QED
  BY <1>1, <1>2, <1>3 DEF Enter

LEMMA ShapesStep == IInv /\ [Next]_vars => Shapes'
<1> SUFFICES ASSUME Shapes, InSequence, Counted, [Next]_vars PROVE Shapes'
  BY DEF IInv
<1>1. ASSUME NEW due \in BOOLEAN, NEW recalls \in BOOLEAN, Frame(due, recalls) PROVE Shapes'
  <2> USE ServiceAssumption DEF Shapes
  <2> DEFINE starts == due /\ ~ Closed /\ MayQuery
  <2>1. starts => NextQuery \in Queries
    BY <1>1 DEF Frame
  <2>2. job' \in [Queries -> [state : {"none", "running", "done"}, events : 0..2]]
    BY <1>1, <2>1 DEF Frame
  <2>3. pending' \in 0..MaxQueries
    BY <1>1, <2>1 DEF Frame, EntryAfter, Queries
  <2>4. copies' \in [Queries -> Nat]
    BY <1>1 DEF Frame
  <2>5. completed' \in Seq(Events) /\ Len(completed') <= QueueSize
    BY <1>1, EmptySeq DEF Frame
  <2>6. recall' \in {"none", "running", "listed"}
    BY <1>1 DEF Frame
  <2> QED
    BY <1>1, <2>2, <2>3, <2>4, <2>5, <2>6 DEF Frame
<1>2. ASSUME NEW k \in Queries, NEW n \in Yields, QueryDone(k, n) PROVE Shapes'
  BY <1>2, ServiceAssumption DEF QueryDone, Shapes
<1>3. CASE RecallDone
  BY <1>3 DEF RecallDone, Shapes
<1>4. ASSUME NEW r \in Requests, Enter(r) PROVE Shapes'
  <2>1. request' \in [Requests -> RequestState]
    <3>1. CASE /\ pending # 0
               /\ request' = [request EXCEPT ![r].pc = "waiting", ![r].on = pending]
      BY <3>1 DEF Shapes, RequestState
    <3> QED
      BY <1>4, <3>1, EnterCases DEF Moves
  <2>2. CollectsNothing \/ (pending \in Queries /\ Collects(pending))
    <3>1. pending # 0 => pending \in Queries
      BY ServiceAssumption DEF Shapes, Queries
    <3> QED
      BY <1>4, <3>1, EnterCases
  <2>3. /\ completed' \in Seq(Events) /\ Len(completed') <= QueueSize
        /\ pending' \in 0..MaxQueries /\ copies' \in [Queries -> Nat]
    BY <2>2, CollectsShapes DEF CollectsNothing, Shapes
  <2> QED
    BY <1>4, <2>1, <2>3, EnterCases DEF Enter, Shapes
<1>5. ASSUME NEW r \in Requests, Wake(r) PROVE Shapes'
  <2>1. request[r].on \in Queries /\ Collects(request[r].on)
    BY <1>5 DEF Wake, Counted
  <2>2. Proceeds(r)
    BY <1>5 DEF Wake
  <2>3. request' \in [Requests -> RequestState] /\ identify' \in [Identifiers -> {"none", "running"}]
    BY <2>2, ProceedsMoves DEF Moves
  <2>4. /\ completed' \in Seq(Events) /\ Len(completed') <= QueueSize
        /\ pending' \in 0..MaxQueries /\ copies' \in [Queries -> Nat]
    BY <2>1, CollectsShapes
  <2> QED
    BY <1>5, <2>3, <2>4 DEF Wake, Shapes
<1>6. ASSUME NEW i \in Identifiers, IdentifyTimeout(i) \/ IdentifyJobDone(i) PROVE Shapes'
  <2>1. request' \in [Requests -> RequestState]
    BY <1>6, EndsMoves DEF IdentifyTimeout, IdentifyJobDone, Moves, Requests, Shapes
  <2> QED
    BY <1>6, <2>1 DEF IdentifyTimeout, IdentifyJobDone, Shapes
<1>7. ASSUME NEW t \in Teachers, AcquireSlot(t) PROVE Shapes'
  <2>1. request' \in [Requests -> RequestState]
    BY <1>7, EndsMoves, GotoMoves DEF AcquireSlot, Moves, Requests
  <2>2. slots' \in [free : Nat, releases : Nat]
    BY <1>7 DEF AcquireSlot, Shapes
  <2>3. embedding' \in [Teachers -> {"none", "queued", "running", "done"}]
    BY <1>7 DEF AcquireSlot, Shapes
  <2> QED
    BY <1>7, <2>1, <2>2, <2>3 DEF AcquireSlot, Shapes
<1>8. ASSUME NEW t \in Teachers, Embed(t) PROVE Shapes'
  BY <1>8 DEF Embed, Shapes
<1>9. ASSUME NEW t \in Teachers, EmbeddingDone(t) PROVE Shapes'
  <2>1. embedding' \in [Teachers -> {"none", "queued", "running", "done"}]
    BY <1>9 DEF EmbeddingDone, Shapes
  <2>2. slots' \in [free : Nat, releases : Nat]
    BY <1>9 DEF EmbeddingDone, Shapes
  <2> QED
    BY <1>9, <2>1, <2>2 DEF EmbeddingDone, Shapes
<1>10. ASSUME NEW t \in Teachers, AfterEmbedding(t) PROVE Shapes'
  <2>1. CASE request' = [request EXCEPT ![t].pc = "acquire", ![t].crops = @ - 1] /\ request[t].crops > 1
    <3>1. t \in Requests /\ request \in [Requests -> RequestState]
      BY DEF Shapes, Requests
    <3>2. request[t].crops - 1 \in 0..2
      BY <2>1, <3>1 DEF RequestState
    <3>3. request' \in [Requests -> RequestState]
      BY <2>1, <3>1, <3>2 DEF RequestState
    <3> QED
      BY <1>10, <3>3 DEF AfterEmbedding, Shapes
  <2>2. CASE request' = Ends(t)
    <3>1. request' \in [Requests -> RequestState]
      BY <2>2, EndsMoves DEF Moves, Requests
    <3> QED
      BY <1>10, <3>1 DEF AfterEmbedding, Shapes
  <2> QED
    BY <1>10, <2>1, <2>2 DEF AfterEmbedding
<1>11. ASSUME NEW t \in Teachers, CancelTeach(t) PROVE Shapes'
  <2>1. request' \in [Requests -> RequestState]
    BY <1>11, EndsMoves DEF CancelTeach, Moves, Requests
  <2>2. embedding' \in [Teachers -> {"none", "queued", "running", "done"}]
    BY <1>11 DEF CancelTeach, Shapes
  <2>3. slots' \in [free : Nat, releases : Nat]
    BY <1>11 DEF CancelTeach, GivesBackSlot, Shapes
  <2> QED
    BY <1>11, <2>1, <2>2, <2>3 DEF CancelTeach, Shapes
<1>12. CASE ReleaseSlot
  BY <1>12 DEF ReleaseSlot, Shapes
<1>13. CASE BeginClose \/ ShutExecutor \/ CloseStore
  BY <1>13 DEF BeginClose, ShutExecutor, CloseStore, Shapes
<1>14. CASE ListQueries
  BY <1>14 DEF ListQueries, Shapes
<1>15. CASE ListRecalls
  <2>1. pending' \in 0..MaxQueries /\ recall' \in {"none", "running", "listed"}
    BY <1>15, ServiceAssumption DEF ListRecalls
  <2>2. closing' \in [stage : {"open", "teach", "queries", "recalls", "embeddings", "closed"},
                      query : 0..MaxQueries]
    BY <1>15 DEF ListRecalls, Shapes
  <2> QED
    BY <1>15, <2>1, <2>2 DEF ListRecalls, Shapes
<1>16. CASE UNCHANGED vars
  BY <1>16 DEF vars, Shapes
<1> QED
  BY <1>1, <1>2, <1>3, <1>4, <1>5, <1>6, <1>7, <1>8, <1>9, <1>10, <1>11, <1>12, <1>13,
     <1>14, <1>15, <1>16
  DEF Next, Close

-----------------------------------------------------------------------------
(* Queries in sequence                                                     *)

(* The entry of the stream is given up only when no query runs.            *)
LEMMA EntryGoes ==
  ASSUME InSequence, UNCHANGED <<job, closing>>, pending' \in {pending, 0},
         pending' # pending => \A k \in Queries : ~ Running(k)
  PROVE  InSequence'
<1>1. \A k \in Queries : (Running(k)' <=> Running(k)) /\ (Started(k)' <=> Started(k))
  BY DEF Running, Started
<1>2. OneQueryAtATime'
  BY <1>1 DEF InSequence, OneQueryAtATime
<1>3. pending' # 0 => pending' = pending
  OBVIOUS
<1>4. pending' # 0 => Started(pending)'
  BY <1>3 DEF InSequence, Started
<1> QED
  BY <1>1, <1>2, <1>3, <1>4 DEF InSequence, ClosingFrom

(* Whoever collects a finished query takes away no other query's entry.    *)
LEMMA CollectedEntryGoes ==
  ASSUME Shapes, InSequence, NEW k \in Queries, ~ Running(k), pending' = EntryAfter(k)
  PROVE  pending' \in {pending, 0} /\ (pending' # pending => \A q \in Queries : ~ Running(q))
  BY DEF EntryAfter, InSequence, OneQueryAtATime

LEMMA SequenceStep == IInv /\ [Next]_vars => InSequence'
<1> SUFFICES ASSUME Shapes, InSequence, Counted, [Next]_vars PROVE InSequence'
  BY DEF IInv
<1>p. pending # 0 => pending \in Queries
  BY ServiceAssumption DEF Shapes, Queries
<1>1. ASSUME NEW due \in BOOLEAN, NEW recalls \in BOOLEAN, Frame(due, recalls) PROVE InSequence'
  <2> DEFINE starts == due /\ ~ Closed /\ MayQuery
  <2>1. CASE starts
    <3>1. PICK n \in 0..MaxQueries : \A k \in Queries : Started(k) <=> k <= n
      BY DEF InSequence
    <3>2. NextQuery = n + 1 /\ n + 1 \in Queries
      BY <1>1, <2>1, <3>1, NextIsNext DEF Frame
    <3>3. /\ job' = [job EXCEPT ![n + 1].state = "running"] /\ pending' = n + 1
          /\ closing' = closing /\ closing.stage = "open"
      BY <1>1, <2>1, <3>2 DEF Frame, Closed
    <3>4. \A k \in Queries : ~ Running(k)
      BY <2>1 DEF MayQuery, InSequence, OneQueryAtATime
    <3>5. \A k \in Queries : (Running(k)' <=> k = n + 1) /\ (Started(k)' <=> k <= n + 1)
      <4>1. \A k \in Queries : job'[k].state = IF k = n + 1 THEN "running" ELSE job[k].state
        BY <3>2, <3>3 DEF Shapes
      <4>2. \A k \in Queries : k <= n + 1 <=> k <= n \/ k = n + 1
        BY <3>2 DEF Queries
      <4> QED
        BY <3>1, <3>4, <4>1, <4>2 DEF Running, Started
    <3>6. n + 1 \in 0..MaxQueries /\ n + 1 # 0 /\ n + 1 <= n + 1
      BY <3>2 DEF Queries
    <3>7. Started(pending)'
      BY <3>2, <3>3, <3>5, <3>6 DEF Started
    <3>8. \A k \in Queries : Started(k)' => k <= pending'
      BY <3>3, <3>5
    <3>9. OneQueryAtATime'
      BY <3>3, <3>5 DEF OneQueryAtATime
    <3>10. \E m \in 0..MaxQueries : \A k \in Queries : Started(k)' <=> k <= m
      BY <3>5, <3>6
    <3> QED
      BY <3>3, <3>7, <3>8, <3>9, <3>10 DEF InSequence, ClosingFrom
  <2>2. CASE ~ starts
    <3>1. /\ UNCHANGED <<job, closing>>
          /\ pending' = IF pending # 0 /\ Done(pending) THEN EntryAfter(pending) ELSE pending
      BY <1>1, <2>2 DEF Frame
    <3>2. pending # 0 /\ Done(pending) => ~ Running(pending)
      BY DEF Done, Running
    <3> QED
      BY <1>p, <3>1, <3>2, EntryGoes, CollectedEntryGoes
  <2> QED
    BY <2>1, <2>2
<1>2. ASSUME NEW q \in Queries, NEW n \in Yields, QueryDone(q, n) PROVE InSequence'
  <2>1. job' = [job EXCEPT ![q] = [state |-> "done", events |-> n]] /\ Running(q)
        /\ UNCHANGED <<pending, closing>>
    BY <1>2 DEF QueryDone
  <2>2. \A k \in Queries : (Running(k)' => Running(k)) /\ (Started(k)' <=> Started(k))
    BY <2>1 DEF Running, Started, Shapes
  <2>3. pending # 0 => (Started(pending)' <=> Started(pending))
    BY <1>p, <2>1, <2>2 DEF Started
  <2> QED
    BY <2>1, <2>2, <2>3 DEF InSequence, OneQueryAtATime, ClosingFrom
<1>3. ASSUME NEW r \in Requests, Enter(r) PROVE InSequence'
  <2>1. UNCHANGED <<job, closing>>
    BY <1>3 DEF Enter
  <2>2. \/ pending' = pending
        \/ pending # 0 /\ ~ Running(pending) /\ pending' = EntryAfter(pending)
    BY <1>3, EnterCases DEF CollectsNothing, Collects
  <2> QED
    BY <1>p, <2>1, <2>2, EntryGoes, CollectedEntryGoes
<1>4. ASSUME NEW r \in Requests, Wake(r) PROVE InSequence'
  <2>1. /\ UNCHANGED <<job, closing>> /\ request[r].on \in Queries
        /\ ~ Running(request[r].on) /\ pending' = EntryAfter(request[r].on)
    BY <1>4 DEF Wake, Collects, Counted, Done, Running
  <2> QED
    BY <2>1, EntryGoes, CollectedEntryGoes
<1>5. CASE ListQueries
  <2>1. /\ UNCHANGED <<job, pending>> /\ closing'.stage = "queries" /\ closing'.query = pending
    BY <1>5 DEF ListQueries, Shapes
  <2> QED
    BY <2>1 DEF InSequence, OneQueryAtATime, ClosingFrom, Running, Started
<1>6. CASE ListRecalls
  <2>1. /\ UNCHANGED job /\ closing'.stage = "recalls" /\ closing.stage = "queries"
        /\ QueriesEnded /\ pending' = 0
    BY <1>6 DEF ListRecalls, Shapes
  <2>2. \A k \in Queries : ~ Running(k)
    BY <2>1 DEF QueriesEnded, InSequence, ClosingFrom
  <2> QED
    BY <2>1, <2>2 DEF InSequence, OneQueryAtATime, ClosingFrom, Running, Started
<1>7. CASE BeginClose
  <2>1. UNCHANGED <<job, pending>> /\ closing'.stage = "teach"
    BY <1>7 DEF BeginClose, Shapes
  <2> QED
    BY <2>1 DEF InSequence, OneQueryAtATime, ClosingFrom, Running, Started
<1>8. CASE ShutExecutor \/ CloseStore
  <2>1. /\ UNCHANGED <<job, pending>> /\ closing'.stage \in {"embeddings", "closed"}
        /\ closing.stage \in {"recalls", "embeddings"}
    BY <1>8 DEF ShutExecutor, CloseStore, Shapes
  <2> QED
    BY <2>1 DEF InSequence, OneQueryAtATime, ClosingFrom, Running, Started
<1>9. CASE \/ RecallDone \/ ReleaseSlot \/ UNCHANGED vars
           \/ \E i \in Identifiers : IdentifyTimeout(i) \/ IdentifyJobDone(i)
           \/ \E t \in Teachers : \/ AcquireSlot(t) \/ Embed(t) \/ EmbeddingDone(t)
                                  \/ AfterEmbedding(t) \/ CancelTeach(t)
  <2>1. UNCHANGED <<job, pending, closing>>
    BY <1>9 DEF RecallDone, ReleaseSlot, vars, IdentifyTimeout, IdentifyJobDone, AcquireSlot,
                Embed, EmbeddingDone, AfterEmbedding, CancelTeach
  <2> QED
    BY <2>1, EntryGoes
<1> QED
  BY <1>1, <1>2, <1>3, <1>4, <1>5, <1>6, <1>7, <1>8, <1>9 DEF Next, Close

-----------------------------------------------------------------------------
(* Copies and waiters                                                      *)

Share(k) == copies[k] + (IF pending = k THEN 1 ELSE 0)

LEMMA CollectedGrows ==
  ASSUME NEW k \in Queries, Collected[k] \subseteq Collected'[k]
  PROVE  /\ Cardinality(Collected[k]) \in Nat /\ Cardinality(Collected'[k]) \in Nat
         /\ Cardinality(Collected[k]) <= Cardinality(Collected'[k])
         /\ Collected[k] # Collected'[k]
                => Cardinality(Collected[k]) + 1 <= Cardinality(Collected'[k])
<1>1. IsFiniteSet(Requests)
  BY ServiceAssumption, FS_Union DEF Requests
<1>2. Collected'[k] \in SUBSET Requests
  BY DEF Collected
<1>3. IsFiniteSet(Collected'[k]) /\ Collected[k] \in SUBSET Collected'[k]
  BY <1>1, <1>2, FS_Subset
<1>4. /\ IsFiniteSet(Collected[k]) /\ Cardinality(Collected[k]) <= Cardinality(Collected'[k])
      /\ Cardinality(Collected'[k]) = Cardinality(Collected[k]) => Collected'[k] = Collected[k]
  BY <1>3, FS_Subset
<1>5. Cardinality(Collected[k]) \in Nat /\ Cardinality(Collected'[k]) \in Nat
  BY <1>3, <1>4, FS_CardinalityType
<1> QED
  BY <1>4, <1>5

(* Nobody begins to wait, and nobody takes back that he has waited.        *)
NoNewWaiter ==
    \A q \in Requests : /\ request'[q].on = request[q].on
                        /\ request'[q].pc \in {"new", "waiting"} => request'[q].pc = request[q].pc

LEMMA MovesAddNoWaiter ==
  ASSUME NEW r \in Requests, NEW pcs, "new" \notin pcs, "waiting" \notin pcs, Moves(r, pcs)
  PROVE  NoNewWaiter
  BY DEF Moves, NoNewWaiter

LEMMA NoNewWaiterCounts ==
  ASSUME NoNewWaiter, Counted
  PROVE  /\ \A k \in Queries : Collected[k] \subseteq Collected'[k]
         /\ \A r \in Requests : /\ request'[r].pc = "new" => request'[r].on = 0
                                /\ request'[r].pc = "waiting" => request'[r].on \in Queries
<1>1. \A k \in Queries : Collected[k] \subseteq Collected'[k]
  BY DEF NoNewWaiter, Collected
<1> QED
  BY <1>1 DEF NoNewWaiter, Counted

(* If no query has more to its name than before, the count stands.         *)
LEMMA SharesStand ==
  ASSUME Shapes, Shapes', Counted, NoNewWaiter,
         \A k \in Queries : Share(k)' <= Share(k) \/ Share(k)' <= 1,
         \A k \in Queries : ~ Started(k)' => copies'[k] = 0
  PROVE  Counted'
<1> SUFFICES ASSUME NEW k \in Queries PROVE Share(k)' <= 1 + Cardinality(Collected'[k])
  BY NoNewWaiterCounts DEF Counted, Share
<1>1. /\ Cardinality(Collected[k]) \in Nat /\ Cardinality(Collected'[k]) \in Nat
      /\ Cardinality(Collected[k]) <= Cardinality(Collected'[k])
  BY CollectedGrows, NoNewWaiterCounts
<1>2. Share(k) <= 1 + Cardinality(Collected[k])
  BY DEF Counted, Share
<1>3. Share(k) \in Int /\ Share(k)' \in Int
  BY DEF Share, Shapes
<1> QED
  BY <1>1, <1>2, <1>3

LEMMA CountedStep == IInv /\ [Next]_vars => Counted'
<1> SUFFICES ASSUME Shapes, Shapes', InSequence, Counted, [Next]_vars PROVE Counted'
  BY ShapesStep DEF IInv
<1>p. pending # 0 => pending \in Queries
  BY ServiceAssumption DEF Shapes, Queries
<1>c. copies \in [Queries -> Nat]
  BY DEF Shapes
<1>n. 0 \notin Queries
  BY DEF Queries
<1>1. ASSUME NEW due \in BOOLEAN, NEW recalls \in BOOLEAN, Frame(due, recalls) PROVE Counted'
  <2> DEFINE starts == due /\ ~ Closed /\ MayQuery
  <2>1. NoNewWaiter
    BY <1>1 DEF Frame, NoNewWaiter
  <2>2. \A q \in Queries : copies'[q] = IF q = pending /\ Done(q) THEN copies[q] + 1 ELSE copies[q]
    BY <1>1 DEF Frame
  <2>3. \A k \in Queries : ~ Started(k)' => ~ Started(k)
    BY <1>1 DEF Frame, Started, Shapes
  <2>4. \A k \in Queries : ~ Started(k)' => copies'[k] = 0
    BY <2>2, <2>3 DEF Counted, Started, Done
  <2>5. CASE starts
    <3>1. PICK n \in 0..MaxQueries : \A k \in Queries : Started(k) <=> k <= n
      BY DEF InSequence
    <3>2. NextQuery = n + 1 /\ n + 1 \in Queries
      BY <1>1, <2>5, <3>1, NextIsNext DEF Frame
    <3>3. pending' = n + 1
      BY <1>1, <2>5, <3>2 DEF Frame
    <3>4. ~ Started(n + 1)
      BY <3>1, <3>2
    <3>5. copies'[n + 1] = 0
      BY <2>2, <3>2, <3>4 DEF Counted, Started, Done
    <3>6. \A k \in Queries : Share(k)' <= Share(k) \/ Share(k)' <= 1
      <4>1. Share(n + 1)' <= 1
        BY <3>3, <3>5 DEF Share
      <4>2. \A k \in Queries : k # n + 1 => Share(k)' <= Share(k)
        BY <1>c, <2>2, <3>3 DEF Share
      <4> QED
        BY <4>1, <4>2 DEF Share
    <3> QED
      BY <2>1, <2>4, <3>6, SharesStand
  <2>6. CASE ~ starts
    <3>1. pending' = IF pending # 0 /\ Done(pending) THEN 0 ELSE pending
      BY <1>1, <2>6 DEF Frame, EntryAfter
    <3>2. \A k \in Queries : Share(k)' <= Share(k)
      BY <1>c, <1>n, <2>2, <3>1 DEF Share
    <3> QED
      BY <2>1, <2>4, <3>2, SharesStand
  <2> QED
    BY <2>5, <2>6
<1>2. ASSUME NEW q \in Queries, NEW n \in Yields, QueryDone(q, n) PROVE Counted'
  <2>1. \A k \in Queries : Started(k)' <=> Started(k)
    BY <1>2 DEF QueryDone, Running, Started, Shapes
  <2>2. UNCHANGED <<pending, copies, request>>
    BY <1>2 DEF QueryDone
  <2>3. \A k \in Queries : Share(k)' = Share(k) /\ Share(k) \in Int
    BY <1>c, <2>2 DEF Share
  <2>4. NoNewWaiter /\ \A k \in Queries : ~ Started(k)' => copies'[k] = 0
    BY <2>1, <2>2 DEF NoNewWaiter, Counted
  <2> QED
    BY <2>3, <2>4, SharesStand
<1>3. ASSUME NEW r \in Requests, Enter(r) PROVE Counted'
  <2>1. UNCHANGED job /\ request[r].pc = "new" /\ request[r].on = 0
    BY <1>3 DEF Enter, Counted
  <2>2. CASE CollectsNothing /\ NoNewWaiter
    <3>1. \A k \in Queries : Share(k)' = Share(k) /\ Share(k) \in Int
      BY <1>c, <2>2 DEF Share, CollectsNothing
    <3>2. \A k \in Queries : ~ Started(k)' => copies'[k] = 0
      BY <2>1, <2>2 DEF Counted, Started, CollectsNothing
    <3> QED
      BY <2>2, <3>1, <3>2, SharesStand
  <2>3. CASE /\ CollectsNothing /\ pending # 0
             /\ request' = [request EXCEPT ![r].pc = "waiting", ![r].on = pending]
    <3>1. \A q \in Requests : /\ q # r => request'[q] = request[q]
                              /\ request'[r].pc = "waiting" /\ request'[r].on = pending
      BY <2>3 DEF Shapes, RequestState
    <3>2. Collected' = Collected
      BY <1>n, <2>1, <3>1 DEF Collected
    <3>3. \A q \in Requests : /\ request'[q].pc = "new" => request'[q].on = 0
                              /\ request'[q].pc = "waiting" => request'[q].on \in Queries
      BY <1>p, <2>3, <3>1 DEF Counted
    <3> QED
      BY <2>1, <2>3, <3>2, <3>3 DEF Counted, CollectsNothing, Started
  <2>4. CASE pending # 0 /\ Collects(pending) /\ NoNewWaiter
    <3>1. pending' = 0 /\ copies' = [copies EXCEPT ![pending] = @ + 1]
      BY <2>4 DEF Collects, EntryAfter
    <3>2. \A k \in Queries : Share(k)' <= Share(k)
      BY <1>c, <1>n, <1>p, <2>4, <3>1 DEF Share
    <3>3. \A k \in Queries : ~ Started(k)' => k # pending /\ ~ Started(k)
      BY <2>1, <2>4 DEF InSequence, Started
    <3>4. \A k \in Queries : ~ Started(k)' => copies'[k] = 0
      BY <1>c, <3>1, <3>3 DEF Counted
    <3> QED
      BY <2>4, <3>2, <3>4, SharesStand
  <2> QED
    BY <1>3, <2>2, <2>3, <2>4, EnterCases, MovesAddNoWaiter
<1>4. ASSUME NEW r \in Requests, Wake(r) PROVE Counted'
  <2> DEFINE q == request[r].on
  <2>1. /\ q \in Queries /\ Done(q) /\ Collects(q) /\ UNCHANGED job /\ Proceeds(r)
        /\ request[r].pc = "waiting"
    BY <1>4 DEF Wake, Counted
  <2>2. Moves(r, {"ended", "acquire", "identify"})
    BY <2>1, ProceedsMoves
  <2>3. NoNewWaiter
    BY <2>2, MovesAddNoWaiter
  <2>4. r \in Collected'[q] /\ r \notin Collected[q]
    BY <2>1, <2>2 DEF Moves, Collected
  <2>5. /\ \A k \in Queries : copies'[k] = IF k = q THEN copies[q] + 1 ELSE copies[k]
        /\ \A k \in Queries : pending' = k => pending = k
    BY <1>c, <1>n, <2>1 DEF Collects, EntryAfter
  <2>6. \A k \in Queries : ~ Started(k)' => copies'[k] = 0
    BY <2>1, <2>5 DEF Counted, Started, Done
  <2>7. ASSUME NEW k \in Queries PROVE Share(k)' <= 1 + Cardinality(Collected'[k])
    <3>1. /\ Cardinality(Collected[k]) \in Nat /\ Cardinality(Collected'[k]) \in Nat
          /\ Cardinality(Collected[k]) <= Cardinality(Collected'[k])
          /\ k = q => Cardinality(Collected[k]) + 1 <= Cardinality(Collected'[k])
      BY <2>3, <2>4, CollectedGrows, NoNewWaiterCounts
    <3>2. Share(k) <= 1 + Cardinality(Collected[k])
      BY DEF Counted, Share
    <3>3. Share(k) \in Int /\ Share(k)' \in Int
      BY DEF Share, Shapes
    <3>4. Share(k)' <= Share(k) + (IF k = q THEN 1 ELSE 0)
      BY <1>c, <2>5 DEF Share
    <3> QED
      BY <3>1, <3>2, <3>3, <3>4
  <2> QED
    BY <2>3, <2>6, <2>7, NoNewWaiterCounts DEF Counted, Share
<1>5. CASE ListRecalls
  <2>1. UNCHANGED <<job, copies, request>> /\ pending' = 0
    BY <1>5 DEF ListRecalls
  <2>2. \A k \in Queries : Share(k)' <= Share(k)
    BY <1>c, <1>n, <2>1 DEF Share
  <2>3. NoNewWaiter /\ \A k \in Queries : ~ Started(k)' => copies'[k] = 0
    BY <2>1 DEF NoNewWaiter, Counted, Started
  <2> QED
    BY <2>2, <2>3, SharesStand
<1>6. CASE UNCHANGED <<job, copies, pending>> /\ NoNewWaiter
  <2>1. \A k \in Queries : Share(k)' = Share(k) /\ Share(k) \in Int
    BY <1>c, <1>6 DEF Share
  <2>2. \A k \in Queries : ~ Started(k)' => copies'[k] = 0
    BY <1>6 DEF Counted, Started
  <2> QED
    BY <1>6, <2>1, <2>2, SharesStand
<1>7. CASE \/ RecallDone \/ ReleaseSlot \/ UNCHANGED vars
           \/ BeginClose \/ ListQueries \/ ShutExecutor \/ CloseStore
           \/ \E t \in Teachers : Embed(t) \/ EmbeddingDone(t)
  BY <1>6, <1>7 DEF RecallDone, ReleaseSlot, vars, BeginClose, ListQueries, ShutExecutor,
    CloseStore, Embed,
         EmbeddingDone, NoNewWaiter
<1>8. ASSUME NEW i \in Identifiers, IdentifyTimeout(i) \/ IdentifyJobDone(i)
      PROVE  UNCHANGED <<job, copies, pending>> /\ NoNewWaiter
  BY <1>8, EndsMoves, MovesAddNoWaiter DEF IdentifyTimeout, IdentifyJobDone, NoNewWaiter,
    Requests
<1>9. ASSUME NEW t \in Teachers, AcquireSlot(t) \/ CancelTeach(t)
      PROVE  UNCHANGED <<job, copies, pending>> /\ NoNewWaiter
  BY <1>9, EndsMoves, GotoMoves, MovesAddNoWaiter DEF AcquireSlot, CancelTeach, Requests
<1>10. ASSUME NEW t \in Teachers, AfterEmbedding(t)
       PROVE  UNCHANGED <<job, copies, pending>> /\ NoNewWaiter
  <2>1. CASE request' = [request EXCEPT ![t].pc = "acquire", ![t].crops = @ - 1]
    BY <1>10, <2>1 DEF AfterEmbedding, NoNewWaiter, Shapes, RequestState, Requests
  <2> QED
    BY <1>10, <2>1, EndsMoves, MovesAddNoWaiter DEF AfterEmbedding, Requests
<1> QED
  BY <1>1, <1>2, <1>3, <1>4, <1>5, <1>6, <1>7, <1>8, <1>9, <1>10 DEF Next, Close

-----------------------------------------------------------------------------
(* Teach requests, their jobs and their slots                              *)

(* Enter and Wake, as far as the teach requests see them.                  *)
LEMMA ArrivalsOfTeachers ==
  ASSUME Shapes, Counted, NEW r \in Requests, Enter(r) \/ Wake(r), NEW t \in Teachers
  PROVE  /\ t \in Requests
         /\ t # r => request'[t].pc = request[t].pc
         /\ t = r => /\ request[t].pc \in {"new", "waiting"}
                     /\ request'[t].pc \in {"ended", "acquire", "waiting"}
                     /\ request[t].pc = "new" /\ Closed => request'[t].pc = "ended"
         /\ UNCHANGED <<embedding, slots>>
<1>1. t \in Requests /\ t \notin Identifiers /\ UNCHANGED <<embedding, slots>>
  BY ServiceAssumption DEF Requests, Enter, Wake
<1>2. CASE Wake(r)
  BY <1>1, <1>2, ProceedsMoves DEF Wake, Moves
<1>3. CASE Enter(r)
  <2>1. CASE request' = [request EXCEPT ![r].pc = "waiting", ![r].on = pending] /\ (r \in Teachers => ~ Closed)
    <3>1. \A q \in Requests : /\ q # r => request'[q] = request[q]
                              /\ request'[r].pc = "waiting"
      BY <2>1 DEF Shapes, RequestState
    <3> QED
      BY <1>1, <1>3, <2>1, <3>1, EnterCases
  <2>2. CASE Moves(r, {"ended"})
    BY <1>1, <1>3, <2>2, EnterCases DEF Moves
  <2>3. CASE /\ r \in Teachers => ~ Closed
             /\ Moves(r, {"ended", "acquire", "identify"})
             /\ request'[r].pc = "identify" => r \in Identifiers
    BY <1>1, <1>3, <2>3, EnterCases DEF Moves
  <2> QED
    BY <1>3, <2>1, <2>2, <2>3, EnterCases
<1> QED
  BY <1>2, <1>3

(* A step of teach request t leaves the other requests alone.              *)
LEMMA TeachSteps ==
  ASSUME Shapes, NEW t \in Teachers
  PROVE  /\ AcquireSlot(t) => /\ request[t].pc = "acquire"
                              /\ \/ /\ Moves(t, {"embedding"})
                                    /\ embedding' = [embedding EXCEPT ![t] = "queued"]
                                    /\ slots.free > 0
                                    /\ slots' = [slots EXCEPT !.free = @ - 1]
                                 \/ Moves(t, {"ended"}) /\ UNCHANGED <<slots, embedding>>
         /\ AfterEmbedding(t) => /\ request[t].pc = "embedding" /\ embedding[t] = "done"
                                 /\ Moves(t, {"acquire", "ended"})
                                 /\ embedding' = [embedding EXCEPT ![t] = "none"]
                                 /\ UNCHANGED slots
         /\ CancelTeach(t) => /\ request[t].pc \in {"waiting", "acquire", "embedding"}
                              /\ Moves(t, {"ended"})
                              /\ embedding' = [embedding EXCEPT ![t] = IF @ = "running" THEN @ ELSE "none"]
                              /\ GivesBackSlot(t)
<1>0. t \in Requests
  BY DEF Requests
<1>1. ASSUME AcquireSlot(t)
      PROVE  /\ request[t].pc = "acquire"
             /\ \/ /\ Moves(t, {"embedding"})
                   /\ embedding' = [embedding EXCEPT ![t] = "queued"]
                   /\ slots.free > 0
                   /\ slots' = [slots EXCEPT !.free = @ - 1]
                \/ Moves(t, {"ended"}) /\ UNCHANGED <<slots, embedding>>
  BY <1>0, <1>1, EndsMoves, GotoMoves DEF AcquireSlot
<1>2. ASSUME AfterEmbedding(t) PROVE Moves(t, {"acquire", "ended"})
  <2>1. CASE request' = [request EXCEPT ![t].pc = "acquire", ![t].crops = @ - 1] /\ request[t].crops > 1
    <3>1. request \in [Requests -> RequestState]
      BY DEF Shapes
    <3>2. request[t].crops - 1 \in 0..2
      BY <1>0, <2>1, <3>1 DEF RequestState
    <3>3. request' \in [Requests -> RequestState]
      BY <1>0, <2>1, <3>1, <3>2 DEF RequestState
    <3>4. \A q \in Requests : /\ request'[q].on = request[q].on
                              /\ q # t => request'[q].pc = request[q].pc
      BY <1>0, <2>1, <3>1 DEF RequestState
    <3>5. request'[t].pc = "acquire"
      BY <1>0, <2>1, <3>1 DEF RequestState
    <3> QED
      BY <3>3, <3>4, <3>5 DEF Moves
  <2>2. CASE request' = Ends(t)
    BY <1>0, <2>2, EndsMoves DEF Moves
  <2> QED
    BY <1>2, <2>1, <2>2 DEF AfterEmbedding
<1>3. ASSUME CancelTeach(t) PROVE Moves(t, {"ended"})
  BY <1>0, <1>3, EndsMoves DEF CancelTeach
<1> QED
  BY <1>1, <1>2, <1>3 DEF AfterEmbedding, CancelTeach

LEMMA JobsStep == IInv /\ [Next]_vars => JobsMatch'
<1> SUFFICES ASSUME Shapes, Counted, JobsMatch, [Next]_vars, NEW u \in Teachers
             PROVE  /\ request'[u].pc \in {"new", "waiting", "acquire", "identify"} => embedding'[u] = "none"
                    /\ request'[u].pc = "embedding" => embedding'[u] # "none"
                    /\ request'[u].pc = "ended" => embedding'[u] \in {"none", "running"}
  BY DEF IInv, JobsMatch
<1> USE DEF JobsMatch
<1>0. u \in Requests /\ embedding \in [Teachers -> {"none", "queued", "running", "done"}]
  BY DEF Requests, Shapes
<1>1. ASSUME NEW r \in Requests, Enter(r) \/ Wake(r) PROVE JobsMatch'
  BY <1>1, ArrivalsOfTeachers
<1>2. ASSUME NEW i \in Identifiers, IdentifyTimeout(i) \/ IdentifyJobDone(i) PROVE JobsMatch'
  <2>1. i \in Requests /\ \A t \in Teachers : t \in Requests /\ t # i
    BY ServiceAssumption DEF Requests
  <2> QED
    BY <1>2, <2>1, EndsMoves DEF IdentifyTimeout, IdentifyJobDone, Moves
<1>3. ASSUME NEW t \in Teachers, AcquireSlot(t) \/ AfterEmbedding(t) \/ CancelTeach(t) PROVE JobsMatch'
  <2>1. \A v \in Teachers : v \in Requests
    BY DEF Requests
  <2> QED
    BY <1>0, <1>3, <2>1, TeachSteps DEF Moves
<1>4. ASSUME NEW t \in Teachers, Embed(t) \/ EmbeddingDone(t) PROVE JobsMatch'
  BY <1>0, <1>4 DEF Embed, EmbeddingDone
<1>5. CASE \/ \E due, recalls \in BOOLEAN : Frame(due, recalls)
           \/ \E k \in Queries, n \in Yields : QueryDone(k, n)
           \/ RecallDone \/ ReleaseSlot \/ BeginClose \/ Close \/ UNCHANGED vars
  BY <1>5 DEF Frame, QueryDone, RecallDone, ReleaseSlot, BeginClose, Close, ListQueries,
    ListRecalls,
              ShutExecutor, CloseStore, vars
<1> QED
  BY <1>1, <1>2, <1>3, <1>4, <1>5 DEF Next

Holders == {t \in Teachers : embedding[t] \in {"queued", "running"}}

LEMMA HoldersChange ==
  ASSUME NEW t \in Teachers
  PROVE  /\ Cardinality(Holders) \in Nat
         /\ t \notin Holders => Cardinality(Holders \cup {t}) = Cardinality(Holders) + 1
         /\ t \in Holders => Cardinality(Holders \ {t}) = Cardinality(Holders) - 1
<1>1. IsFiniteSet(Holders)
  BY ServiceAssumption, FS_Subset DEF Holders
<1> QED
  BY <1>1, FS_CardinalityType, FS_AddElement, FS_RemoveElement

LEMMA SlotsStep == IInv /\ [Next]_vars => SlotsConserved'
<1> SUFFICES ASSUME Shapes, Counted, JobsMatch, [Next]_vars,
                    slots.free + slots.releases + Cardinality(Holders) = Slots
             PROVE  slots'.free + slots'.releases + Cardinality(Holders') = Slots
  BY DEF IInv, SlotsConserved, Holders
<1>0. /\ embedding \in [Teachers -> {"none", "queued", "running", "done"}]
      /\ slots.free \in Nat /\ slots.releases \in Nat /\ Slots \in Nat
      /\ slots = [free |-> slots.free, releases |-> slots.releases]
  BY ServiceAssumption DEF Shapes
<1>1. ASSUME NEW t \in Teachers, AcquireSlot(t)
      PROVE  slots'.free + slots'.releases + Cardinality(Holders') = Slots
  <2>1. CASE embedding' = [embedding EXCEPT ![t] = "queued"] /\ slots' = [slots EXCEPT !.free = @ - 1]
    <3>1. t \notin Holders
      BY <1>1 DEF AcquireSlot, JobsMatch, Holders
    <3>2. Holders' = Holders \cup {t}
      BY <1>0, <2>1 DEF Holders
    <3>3. slots'.free = slots.free - 1 /\ slots'.releases = slots.releases
      BY <1>0, <2>1
    <3> QED
      BY <1>0, <3>1, <3>2, <3>3, HoldersChange
  <2>2. CASE UNCHANGED <<slots, embedding>>
    BY <2>2 DEF Holders
  <2> QED
    BY <1>1, <2>1, <2>2 DEF AcquireSlot
<1>2. ASSUME NEW t \in Teachers, EmbeddingDone(t)
      PROVE  slots'.free + slots'.releases + Cardinality(Holders') = Slots
  <2>1. t \in Holders /\ Holders' = Holders \ {t}
    BY <1>0, <1>2 DEF EmbeddingDone, Holders
  <2>2. slots'.free = slots.free /\ slots'.releases = slots.releases + 1
    BY <1>0, <1>2 DEF EmbeddingDone
  <2> QED
    BY <1>0, <2>1, <2>2, HoldersChange
<1>3. ASSUME NEW t \in Teachers, CancelTeach(t)
      PROVE  slots'.free + slots'.releases + Cardinality(Holders') = Slots
  <2>1. embedding' = [embedding EXCEPT ![t] = IF @ = "running" THEN @ ELSE "none"] /\ GivesBackSlot(t)
    BY <1>3 DEF CancelTeach
  <2>2. CASE embedding[t] = "queued"
    <3>1. t \in Holders /\ Holders' = Holders \ {t}
      BY <1>0, <2>1, <2>2 DEF Holders
    <3>2. slots'.free = slots.free /\ slots'.releases = slots.releases + 1
      BY <1>0, <2>1, <2>2 DEF GivesBackSlot
    <3> QED
      BY <1>0, <3>1, <3>2, HoldersChange
  <2>3. CASE embedding[t] # "queued"
    <3>1. Holders' = Holders /\ slots' = slots
      BY <1>0, <2>1, <2>3 DEF Holders, GivesBackSlot
    <3> QED
      BY <3>1
  <2> QED
    BY <2>2, <2>3
<1>4. ASSUME NEW t \in Teachers, Embed(t) \/ AfterEmbedding(t)
      PROVE  slots'.free + slots'.releases + Cardinality(Holders') = Slots
  <2>1. Holders' = Holders /\ slots' = slots
    BY <1>0, <1>4 DEF Embed, AfterEmbedding, Holders
  <2> QED
    BY <2>1
<1>5. CASE ReleaseSlot
  <2>1. /\ Holders' = Holders /\ slots'.free = slots.free + 1 /\ slots'.releases = slots.releases - 1
    BY <1>5 DEF ReleaseSlot, Holders
  <2>2. Cardinality(Holders) \in Int
    BY ServiceAssumption, FS_Subset, FS_CardinalityType DEF Holders
  <2> QED
    BY <1>0, <2>1, <2>2
<1>6. CASE \/ \E due, recalls \in BOOLEAN : Frame(due, recalls)
           \/ \E k \in Queries, n \in Yields : QueryDone(k, n)
           \/ \E r \in Requests : Enter(r) \/ Wake(r)
           \/ \E i \in Identifiers : IdentifyTimeout(i) \/ IdentifyJobDone(i)
           \/ RecallDone \/ BeginClose \/ Close \/ UNCHANGED vars
  <2>1. UNCHANGED <<slots, embedding>>
    BY <1>6 DEF Frame, QueryDone, Enter, Wake, IdentifyTimeout, IdentifyJobDone, RecallDone,
                BeginClose, Close, ListQueries, ListRecalls, ShutExecutor, CloseStore, vars
  <2> QED
    BY <2>1 DEF Holders
<1> QED
  BY <1>1, <1>2, <1>3, <1>4, <1>5, <1>6 DEF Next

-----------------------------------------------------------------------------
(* close()                                                                 *)

(* Once close() has seen the last teach request end, none comes to life.   *)
LEMMA TeachersStayEnded ==
  ASSUME Shapes, Counted, [Next]_vars, Closed, TeachActive = {}
  PROVE  TeachActive' = {}
<1> SUFFICES ASSUME NEW t \in Teachers
             PROVE  request'[t].pc \notin {"waiting", "acquire", "embedding"}
  BY DEF TeachActive
<1>0. t \in Requests /\ request[t].pc \notin {"waiting", "acquire", "embedding"}
  BY DEF TeachActive, Requests
<1>1. ASSUME NEW r \in Requests, Enter(r) \/ Wake(r)
      PROVE  request'[t].pc \notin {"waiting", "acquire", "embedding"}
  BY <1>0, <1>1, ArrivalsOfTeachers
<1>2. ASSUME NEW i \in Identifiers, IdentifyTimeout(i) \/ IdentifyJobDone(i)
      PROVE  request'[t].pc = request[t].pc
  <2>1. i \in Requests /\ t # i
    BY ServiceAssumption DEF Requests
  <2> QED
    BY <1>0, <1>2, <2>1, EndsMoves DEF IdentifyTimeout, IdentifyJobDone, Moves
<1>3. ASSUME NEW u \in Teachers, AcquireSlot(u) \/ AfterEmbedding(u) \/ CancelTeach(u)
      PROVE  request'[t].pc = request[t].pc
  <2>1. request[u].pc \in {"waiting", "acquire", "embedding"}
    BY <1>3, TeachSteps
  <2> QED
    BY <2>1 DEF TeachActive
<1>4. CASE \/ \E due, recalls \in BOOLEAN : Frame(due, recalls)
           \/ \E k \in Queries, n \in Yields : QueryDone(k, n)
           \/ \E u \in Teachers : Embed(u) \/ EmbeddingDone(u)
           \/ RecallDone \/ ReleaseSlot \/ BeginClose \/ Close \/ UNCHANGED vars
  BY <1>0, <1>4 DEF Frame, QueryDone, Embed, EmbeddingDone, RecallDone, ReleaseSlot,
    BeginClose, Close,
                    ListQueries, ListRecalls, ShutExecutor, CloseStore, vars
<1> QED
  BY <1>0, <1>1, <1>2, <1>3, <1>4 DEF Next

LEMMA CloseStep == IInv /\ [Next]_vars => CloseWaits'
<1> SUFFICES ASSUME Shapes, Counted, JobsMatch, CloseWaits, [Next]_vars PROVE CloseWaits'
  BY DEF IInv
<1> USE DEF CloseWaits, ClosingFrom
<1>t. Closed /\ TeachActive = {} => TeachActive' = {}
  BY TeachersStayEnded
<1>s. closing.stage \in {"open", "teach", "queries", "recalls", "embeddings", "closed"}
  BY DEF Shapes
<1>1. CASE UNCHANGED <<closing, store>> /\ (recall' = "listed" => recall = "listed")
           /\ (\A t \in Teachers : embedding'[t] = "running" => embedding[t] \in {"queued", "running"})
  <2>1. closing.stage = "closed" => \A t \in Teachers : embedding[t] # "queued"
    BY DEF JobsMatch, TeachActive, Shapes, RequestState, Requests
  <2> QED
    BY <1>t, <1>1, <2>1 DEF Closed, ExecutorShut
<1>2. CASE BeginClose
  <2>1. closing.stage = "open" /\ closing'.stage = "teach" /\ UNCHANGED <<recall, store, embedding>>
    BY <1>2 DEF BeginClose, Shapes
  <2> QED
    BY <2>1 DEF ExecutorShut
<1>3. CASE ListQueries
  <2>1. /\ closing.stage = "teach" /\ closing'.stage = "queries" /\ TeachActive = {}
        /\ UNCHANGED <<recall, store, embedding>>
    BY <1>3 DEF ListQueries, TeachEnded, Shapes
  <2> QED
    BY <1>t, <2>1 DEF Closed, ExecutorShut
<1>4. CASE ListRecalls
  <2>1. closing.stage = "queries" /\ closing'.stage = "recalls" /\ UNCHANGED <<store, embedding>>
    BY <1>4 DEF ListRecalls, Shapes
  <2> QED
    BY <1>t, <2>1 DEF Closed, ExecutorShut
<1>5. CASE ShutExecutor
  <2>1. /\ closing.stage = "recalls" /\ closing'.stage = "embeddings" /\ recall # "listed"
        /\ UNCHANGED <<recall, store, embedding>>
    BY <1>5 DEF ShutExecutor, Shapes
  <2> QED
    BY <1>t, <2>1 DEF Closed, ExecutorShut
<1>6. CASE CloseStore
  <2>1. /\ closing.stage = "embeddings" /\ closing'.stage = "closed"
        /\ \A t \in Teachers : embedding[t] # "running"
        /\ UNCHANGED <<recall, embedding>>
    BY <1>6 DEF CloseStore, Shapes
  <2> QED
    BY <1>t, <2>1 DEF Closed, ExecutorShut
<1>7. CASE \/ \E due, recalls \in BOOLEAN : Frame(due, recalls)
           \/ \E k \in Queries, n \in Yields : QueryDone(k, n)
           \/ \E r \in Requests : Enter(r) \/ Wake(r)
           \/ \E i \in Identifiers : IdentifyTimeout(i) \/ IdentifyJobDone(i)
           \/ RecallDone \/ ReleaseSlot \/ UNCHANGED vars
  BY <1>1, <1>7 DEF Frame, QueryDone, Enter, Wake, IdentifyTimeout, IdentifyJobDone, RecallDone,
                    ReleaseSlot, vars
<1>8. ASSUME NEW t \in Teachers,
             AcquireSlot(t) \/ Embed(t) \/ EmbeddingDone(t) \/ AfterEmbedding(t) \/ CancelTeach(t)
      PROVE  CloseWaits'
  <2>1. \A u \in Teachers : embedding'[u] = "running" => embedding[u] \in {"queued", "running"}
    BY <1>8 DEF AcquireSlot, Embed, EmbeddingDone, AfterEmbedding, CancelTeach, Shapes
  <2> QED
    BY <1>1, <1>8, <2>1 DEF AcquireSlot, Embed, EmbeddingDone, AfterEmbedding, CancelTeach
<1> QED
  BY <1>2, <1>3, <1>4, <1>5, <1>6, <1>7, <1>8 DEF Next, Close

-----------------------------------------------------------------------------
(* Theorems                                                                *)

THEOREM ServiceInvariance == Spec => []IInv
<1>1. IInv /\ [Next]_vars => IInv'
  BY ShapesStep, SequenceStep, CountedStep, JobsStep, SlotsStep, CloseStep DEF IInv
<1> QED
  BY InitIInv, <1>1, PTL DEF Spec

(* The queue of events, the semaphore and the stream's entry keep to their *)
(* limits: every slot of the teach queue is free, on its way back or held  *)
(* by a job, through timeouts, cancelled requests and close                *)
(* (_submit_teach_embedding, on_done).                                     *)
THEOREM LimitsAreKept == Spec => []Bounded
<1>1. IInv => Bounded
  <2> SUFFICES ASSUME IInv PROVE TypeOK
    BY DEF Bounded, IInv
  <2>1. Shapes /\ InSequence /\ Counted /\ SlotsConserved
    BY DEF IInv
  <2>2. \A k \in Queries : job[k].state \in {"none", "running", "done"} /\ job[k].events \in 0..2
    BY <2>1 DEF Shapes
  <2>3. pending \in 0..MaxQueries /\ (pending # 0 => job[pending].state # "none")
    BY <2>1 DEF Shapes, InSequence, Started
  <2>4. completed \in BoundedSeq(Events, QueueSize)
    <3>1. /\ completed \in [1..Len(completed) -> Events]
          /\ Len(completed) \in 0..QueueSize
      BY <2>1, ServiceAssumption DEF Shapes
    <3> QED
      BY <3>1 DEF BoundedSeq, SeqOf
  <2>5. \A r \in Requests : request[r].pc = "waiting" => request[r].on \in Queries
    BY <2>1 DEF Counted
  <2>6. slots.free \in 0..Slots /\ slots.releases \in 0..Slots
    <3>1. slots.free + slots.releases + Cardinality(Holders) = Slots
      BY <2>1 DEF SlotsConserved, Holders
    <3>2. Cardinality(Holders) \in Nat
      BY ServiceAssumption, FS_Subset, FS_CardinalityType DEF Holders
    <3>3. slots.free \in Nat /\ slots.releases \in Nat /\ Slots \in Nat
      BY <2>1, ServiceAssumption DEF Shapes
    <3> QED
      BY <3>1, <3>2, <3>3
  <2> QED
    BY <2>2, <2>3, <2>4, <2>5, <2>6 DEF TypeOK
<1> QED
  BY ServiceInvariance, <1>1, PTL

(* When close() closes the store, every query, teach request, embedding    *)
(* and listed recall has ended, in whatever order they were made,          *)
(* cancelled and finished (close).                                         *)
THEOREM StoreClosesLast == Spec => []StoreOutlives
<1>1. IInv => StoreOutlives
  <2> SUFFICES ASSUME Shapes, InSequence, JobsMatch, CloseWaits PROVE StoreOutlives
    BY DEF IInv
  <2>1. ExecutorShut => (\A k \in Queries : ~ Running(k)) /\ TeachActive = {} /\ recall # "listed"
    BY DEF InSequence, CloseWaits, ClosingFrom, ExecutorShut
  <2>2. store = "closed" => \A t \in Teachers : embedding[t] \notin {"queued", "running"}
    <3> SUFFICES ASSUME store = "closed", NEW t \in Teachers
                 PROVE  embedding[t] \notin {"queued", "running"}
      OBVIOUS
    <3>1. TeachActive = {} /\ embedding[t] # "running"
      BY DEF CloseWaits, ClosingFrom
    <3>2. request[t].pc # "embedding" /\ request[t] \in RequestState
      BY <3>1 DEF TeachActive, Shapes, Requests
    <3> QED
      BY <3>1, <3>2 DEF JobsMatch, RequestState
  <2> QED
    BY <2>1, <2>2 DEF StoreOutlives
<1> QED
  BY ServiceInvariance, <1>1, PTL

-----------------------------------------------------------------------------
(* Events                                                                  *)

LEMMA EventsOfQuery ==
  ASSUME Shapes, NEW k \in Queries
  PROVE  /\ EventsOf(k) \in Seq(Events) /\ Len(EventsOf(k)) = job[k].events
         /\ job[k].events \in 0..2
         /\ job[k].events = 0 => ToSet(EventsOf(k)) = {}
<1>1. job[k].events \in 0..2
  BY DEF Shapes
<1>2. EventsOf(k) \in Seq(Events) /\ Len(EventsOf(k)) = job[k].events
  BY <1>1, EventsOfIsSeq
<1> QED
  BY <1>1, <1>2 DEF ToSet

(* A query that nobody can be behind is collected: its own events fit, and *)
(* those of the earlier ones are told.                                     *)
LEMMA CollectingKeeps ==
  ASSUME Shapes, Shapes', Kept, NEW q \in Queries, Done(q), Collects(q),
         \A l \in Queries : job[l].events > 0 => l <= q,
         UNCHANGED <<job, told, closing>>, NoNewWaiter
  PROVE  Kept'
<1>1. \A k \in Queries : /\ EventsOf(k)' = EventsOf(k) /\ job'[k] = job[k]
                         /\ (Done(k)' <=> Done(k)) /\ (Started(k)' <=> Started(k))
  BY DEF EventsOf, Done, Started
<1>2. \A k \in Queries : copies'[k] = IF k = q THEN copies[q] + 1 ELSE copies[k]
  BY DEF Collects, Shapes
<1>3. \A k \in Queries : copies[k] \in Nat
  BY DEF Shapes
<1>4. ToSet(EventsOf(q)) \subseteq ToSet(completed')
  BY EventsOfQuery, NewestKeeps DEF Collects, Shapes, Kept
<1>5. ASSUME NEW k \in Queries, copies'[k] > 0
      PROVE  ToSet(EventsOf(k)) \subseteq told \cup ToSet(completed')
  <2>1. CASE k = q
    BY <1>4, <2>1
  <2>2. CASE job[k].events = 0
    BY <2>2, EventsOfQuery
  <2>3. CASE k # q /\ job[k].events # 0
    <3>1. k <= q /\ Started(q)
      BY <2>3, EventsOfQuery DEF Done, Started
    <3>2. k < q
      BY <2>3, <3>1 DEF Queries
    <3> QED
      BY <3>1, <3>2 DEF Kept
  <2> QED
    BY <2>1, <2>2, <2>3
<1>6. ASSUME NEW k \in Queries, Done(k), copies'[k] = 0
      PROVE  pending' = k \/ ClosingFrom({"recalls", "embeddings", "closed"})'
  <2>1. k # q /\ copies[k] = 0
    BY <1>2, <1>3, <1>6
  <2>2. pending = k \/ ClosingFrom({"recalls", "embeddings", "closed"})
    BY <1>6, <2>1 DEF Kept
  <2> QED
    BY <2>1, <2>2 DEF Collects, EntryAfter, ClosingFrom
<1>7. \A k \in Queries : ~ Done(k) => job[k].events = 0 /\ copies'[k] = 0
  BY <1>2 DEF Kept
<1>8. \A r \in Requests, l \in Queries :
          request'[r].pc = "waiting" /\ job[l].events > 0 => l <= request'[r].on
  BY DEF Kept, NoNewWaiter
<1> QED
  BY <1>1, <1>5, <1>6, <1>7, <1>8 DEF Kept, NothingPushedOut

(* Where no query, event or entry moves.                                   *)
LEMMA KeptStands ==
  ASSUME Kept, UNCHANGED <<job, copies, told, completed>>, NoNewWaiter,
         \/ ClosingFrom({"recalls", "embeddings", "closed"})'
         \/ /\ pending' = pending
            /\ ~ ClosingFrom({"recalls", "embeddings", "closed"})
  PROVE  Kept'
<1>1. \A k \in Queries : /\ EventsOf(k)' = EventsOf(k)
                         /\ (Done(k)' <=> Done(k)) /\ (Started(k)' <=> Started(k))
  BY DEF EventsOf, Done, Started
<1>2. \A r \in Requests, l \in Queries :
          request'[r].pc = "waiting" /\ job[l].events > 0 => l <= request'[r].on
  BY DEF Kept, NoNewWaiter
<1> QED
  BY <1>1, <1>2 DEF Kept, NothingPushedOut

(* A frame takes out everything that was collected, and what the query it  *)
(* finds done has to say.                                                  *)
LEMMA FrameTells ==
  ASSUME Shapes, InSequence, Counted, Kept, NEW due, NEW recalls, Frame(due, recalls),
         NEW k \in Queries, copies[k] > 0 \/ (k = pending /\ Done(k))
  PROVE  ToSet(EventsOf(k)) \subseteq told'
<1> DEFINE found == IF pending # 0 /\ Done(pending) THEN EventsOf(pending) ELSE <<>>
<1>1. told' = told \cup ToSet(Newest(completed \o found))
  BY DEF Frame
<1>2. completed \in Seq(Events) /\ Len(completed) <= QueueSize
  BY DEF Shapes
<1>3. CASE k = pending /\ Done(k)
  <2>1. found = EventsOf(k)
    BY <1>3 DEF Queries
  <2> HIDE DEF found
  <2>2. EventsOf(k) \in Seq(Events) /\ Len(EventsOf(k)) <= QueueSize
    BY EventsOfQuery DEF Kept
  <2> QED
    BY <1>1, <1>2, <2>1, <2>2, NewestKeeps
<1>4. CASE pending # 0 /\ Done(pending) /\ k # pending /\ copies[k] > 0
  <2>1. Started(k) /\ copies[k] \in Nat
    BY <1>4 DEF Counted, Shapes
  <2>2. pending \in Queries /\ Started(pending) /\ k <= pending
    BY <1>4, <2>1, ServiceAssumption DEF InSequence, Shapes, Queries
  <2>3. k < pending
    BY <1>4, <2>2 DEF Queries
  <2> QED
    BY <1>1, <2>2, <2>3 DEF Kept
<1>5. CASE ~ (pending # 0 /\ Done(pending)) /\ copies[k] > 0
  <2>1. found = <<>>
    BY <1>5
  <2>2. completed \o <<>> = completed
    BY <1>2, ConcatEmptySeq
  <2>3. Newest(completed) = completed
    BY <1>2, NewestIsLast
  <2>4. told' = told \cup ToSet(completed)
    BY <1>1, <2>1, <2>2, <2>3
  <2> QED
    BY <1>5, <2>4 DEF Kept, NothingPushedOut
<1>6. 0 \notin Queries
  BY DEF Queries
<1> QED
  BY <1>3, <1>4, <1>5, <1>6

LEMMA FrameKeeps ==
  ASSUME Shapes, Shapes', InSequence, Counted, Kept,
         NEW due \in BOOLEAN, NEW recalls \in BOOLEAN, Frame(due, recalls)
  PROVE  Kept'
<1> DEFINE starts == due /\ ~ Closed /\ MayQuery
<1>1. /\ \A q \in Queries : copies'[q] = IF q = pending /\ Done(q) THEN copies[q] + 1 ELSE copies[q]
      /\ told \subseteq told' /\ UNCHANGED <<request, closing>>
      /\ starts => NextQuery \in Queries
      /\ job' = IF starts THEN [job EXCEPT ![NextQuery].state = "running"] ELSE job
  BY DEF Frame
<1>c. \A k \in Queries : copies[k] \in Nat /\ job[k] \in [state : {"none", "running", "done"}, events : 0..2]
  BY DEF Shapes
<1>2. \A k \in Queries : starts /\ k = NextQuery => ~ Started(k)
  <2>1. PICK n \in 0..MaxQueries : \A k \in Queries : Started(k) <=> k <= n
    BY DEF InSequence
  <2>2. NextQuery = n + 1
    BY <2>1, NextIsNext
  <2> QED
    BY <2>1, <2>2
<1>3. \A k \in Queries : /\ job'[k].events = job[k].events
                         /\ (Done(k)' <=> Done(k))
                         /\ Started(k)' => Started(k) \/ starts
  <2>1. \A k \in Queries :
            job'[k] = IF starts /\ k = NextQuery THEN [job[k] EXCEPT !.state = "running"] ELSE job[k]
    BY <1>1 DEF Shapes
  <2> QED
    BY <1>c, <1>2, <2>1 DEF Done, Started
<1>4. \A k \in Queries : EventsOf(k)' = EventsOf(k)
  BY <1>3 DEF EventsOf
<1>5. \A k \in Queries : copies'[k] > 0 => ToSet(EventsOf(k)) \subseteq told'
  BY <1>1, <1>c, FrameTells
<1>6. ASSUME NEW k \in Queries, NEW l \in Queries, k < l, Started(l)'
      PROVE  ToSet(EventsOf(k)) \subseteq told'
  <2>1. CASE Started(l)
    BY <1>1, <1>6, <2>1 DEF Kept
  <2>2. CASE starts
    <3>1. ~ Running(k) /\ closing.stage = "open"
      BY <2>2 DEF MayQuery, Closed, InSequence, OneQueryAtATime
    <3>2. CASE Done(k)
      <4>1. copies[k] > 0 \/ pending = k
        BY <1>c, <3>1, <3>2 DEF Kept, ClosingFrom
      <4> QED
        BY <3>2, <4>1, FrameTells
    <3>3. CASE ~ Done(k)
      BY <3>3, EventsOfQuery DEF Kept
    <3> QED
      BY <3>2, <3>3
  <2> QED
    BY <1>3, <1>6, <2>1, <2>2
<1>7. ASSUME NEW k \in Queries, Done(k), copies'[k] = 0
      PROVE  ClosingFrom({"recalls", "embeddings", "closed"})'
  <2>1. copies[k] = 0 /\ pending # k
    BY <1>1, <1>c, <1>7
  <2> QED
    BY <1>1, <1>7, <2>1 DEF Kept, ClosingFrom
<1>8. \A k \in Queries : ~ Done(k) => job'[k].events = 0 /\ copies'[k] = 0
  BY <1>1, <1>3 DEF Kept
<1>9. \A r \in Requests, l \in Queries :
          request'[r].pc = "waiting" /\ job'[l].events > 0 => l <= request'[r].on
  BY <1>1, <1>3 DEF Kept
<1>10. \A k \in Queries : job'[k].events <= QueueSize
  BY <1>3 DEF Kept
<1> QED
  BY <1>3, <1>4, <1>5, <1>6, <1>7, <1>8, <1>9, <1>10 DEF Kept, NothingPushedOut

LEMMA QueryDoneKeeps ==
  ASSUME RoomForOne, Shapes, InSequence, Counted, Kept,
         NEW q \in Queries, NEW n \in Yields, QueryDone(q, n)
  PROVE  Kept'
<1>1. /\ Running(q) /\ UNCHANGED <<pending, completed, request, closing, told, copies>>
      /\ n > 0 => \A r \in Requests : request[r].pc = "waiting" => request[r].on = q
      /\ job' = [job EXCEPT ![q] = [state |-> "done", events |-> n]]
  BY DEF QueryDone
<1>2. \A k \in Queries : job'[k] = IF k = q THEN [state |-> "done", events |-> n] ELSE job[k]
  BY <1>1 DEF Shapes
<1>3. \A k \in Queries : /\ k # q => /\ EventsOf(k)' = EventsOf(k) /\ job'[k].events = job[k].events
                                     /\ (Done(k)' <=> Done(k))
                         /\ Started(k)' <=> Started(k)
  BY <1>1, <1>2 DEF EventsOf, Done, Started, Running
<1>4. job'[q].events = n /\ Done(q)' /\ ~ Done(q) /\ pending = q /\ copies[q] = 0
  BY <1>1, <1>2 DEF Done, Running, InSequence, OneQueryAtATime, Kept
<1>5. \A l \in Queries : Started(l) => l <= q
  BY <1>4 DEF InSequence, Queries
<1>6. n \in Nat /\ n <= QueueSize
  BY ServiceAssumption DEF RoomForOne
<1>7. \A k, l \in Queries : k < l /\ Started(l)' => ToSet(EventsOf(k)') \subseteq told
  <2> SUFFICES ASSUME NEW k \in Queries, NEW l \in Queries, k < l, Started(l)'
               PROVE  ToSet(EventsOf(k)') \subseteq told
    OBVIOUS
  <2>1. Started(l) /\ l <= q
    BY <1>3, <1>5
  <2>2. k # q
    BY <2>1 DEF Queries
  <2> QED
    BY <1>3, <2>1, <2>2 DEF Kept
<1>8. \A k \in Queries : copies[k] > 0 => k # q
  BY <1>4
<1>9. \A k \in Queries : copies[k] > 0 => ToSet(EventsOf(k)') \subseteq told \cup ToSet(completed)
  BY <1>3, <1>8 DEF Kept, NothingPushedOut
<1>10. \A r \in Requests, l \in Queries :
           request[r].pc = "waiting" /\ job'[l].events > 0 => l <= request[r].on
  <2>1. q <= q
    BY DEF Queries
  <2> QED
    BY <1>1, <1>3, <1>4, <2>1 DEF Kept
<1>11. \A k \in Queries : Done(k)' /\ copies[k] = 0
           => pending = k \/ ClosingFrom({"recalls", "embeddings", "closed"})
  BY <1>3, <1>4 DEF Kept
<1>12. \A k \in Queries : job'[k].events <= QueueSize /\ (~ Done(k)' => job'[k].events = 0 /\ copies[k] = 0)
  BY <1>3, <1>4, <1>6 DEF Kept
<1> QED
  BY <1>1, <1>7, <1>9, <1>10, <1>11, <1>12 DEF Kept, NothingPushedOut, ClosingFrom

LEMMA InitKept == Init => Kept
<1> SUFFICES ASSUME Init PROVE Kept
  OBVIOUS
<1>1. \A k \in Queries : /\ job[k].events = 0 /\ copies[k] = 0
                         /\ ~ Done(k) /\ ~ Started(k)
  BY DEF Init, NotStarted, Done, Started
<1>2. QueueSize \in Nat
  BY ServiceAssumption
<1>3. \A r \in Requests : request[r].pc # "waiting"
  BY DEF Init
<1> QED
  BY <1>1, <1>2, <1>3 DEF Kept, NothingPushedOut

(* A request that arrives: it waits for the latest query, or collects it.  *)
LEMMA EnterKeeps ==
  ASSUME Shapes, Shapes', InSequence, Kept, NEW r \in Requests, Enter(r)
  PROVE  Kept'
<1>1. UNCHANGED <<job, told, closing>>
  BY DEF Enter
<1>2. pending # 0 => /\ pending \in Queries
                     /\ \A l \in Queries : job[l].events > 0 => l <= pending
  <2>1. \A l \in Queries : job[l].events > 0 => Started(l)
    BY DEF Kept, Done, Started
  <2> QED
    BY <2>1, ServiceAssumption DEF Shapes, Queries, InSequence
<1>3. CASE CollectsNothing /\ NoNewWaiter
  BY <1>1, <1>3, KeptStands DEF CollectsNothing, ClosingFrom
<1>4. CASE /\ CollectsNothing /\ pending # 0
           /\ request' = [request EXCEPT ![r].pc = "waiting", ![r].on = pending]
  <2>1. \A q \in Requests : /\ q # r => request'[q] = request[q]
                            /\ request'[r].on = pending
    BY <1>4 DEF Shapes, RequestState
  <2>2. \A q \in Requests, l \in Queries :
            request'[q].pc = "waiting" /\ job[l].events > 0 => l <= request'[q].on
    BY <1>2, <1>4, <2>1 DEF Kept
  <2>3. \A k \in Queries : /\ EventsOf(k)' = EventsOf(k)
                           /\ (Done(k)' <=> Done(k)) /\ (Started(k)' <=> Started(k))
    BY <1>1 DEF EventsOf, Done, Started
  <2> QED
    BY <1>1, <1>4, <2>2, <2>3 DEF Kept, NothingPushedOut, CollectsNothing, ClosingFrom
<1>5. CASE /\ NoNewWaiter /\ pending # 0 /\ Collects(pending) /\ ~ Running(pending)
  <2>1. Done(pending)
    BY <1>2, <1>5 DEF Shapes, InSequence, Started, Running, Done
  <2> QED
    BY <1>1, <1>2, <1>5, <2>1, CollectingKeeps
<1> QED
  BY <1>3, <1>4, <1>5, EnterCases, MovesAddNoWaiter

LEMMA KeptStep == RoomForOne /\ IInv /\ Kept /\ [Next]_vars => Kept'
<1> SUFFICES ASSUME RoomForOne, Shapes, Shapes', InSequence, Counted, Kept, [Next]_vars
             PROVE  Kept'
  BY ShapesStep DEF IInv
<1> DEFINE quiet == UNCHANGED <<job, copies, told, completed>>
<1>1. ASSUME NEW due \in BOOLEAN, NEW recalls \in BOOLEAN, Frame(due, recalls) PROVE Kept'
  BY <1>1, FrameKeeps
<1>2. ASSUME NEW k \in Queries, NEW n \in Yields, QueryDone(k, n) PROVE Kept'
  BY <1>2, QueryDoneKeeps
<1>3. ASSUME NEW r \in Requests, Enter(r) PROVE Kept'
  BY <1>3, EnterKeeps
<1>4. ASSUME NEW r \in Requests, Wake(r) PROVE Kept'
  <2>1. /\ request[r].pc = "waiting" /\ Done(request[r].on) /\ Collects(request[r].on)
        /\ UNCHANGED <<job, told, closing>> /\ NoNewWaiter
    BY <1>4, ProceedsMoves, MovesAddNoWaiter DEF Wake
  <2>2. request[r].on \in Queries /\ \A l \in Queries : job[l].events > 0 => l <= request[r].on
    BY <2>1 DEF Counted, Kept
  <2> QED
    BY <2>1, <2>2, CollectingKeeps
<1>5. CASE quiet /\ NoNewWaiter /\ UNCHANGED <<pending, closing>>
  BY <1>5, KeptStands DEF ClosingFrom
<1>6. ASSUME NEW i \in Identifiers, IdentifyTimeout(i) \/ IdentifyJobDone(i) PROVE Kept'
  <2>1. i \in Requests
    BY DEF Requests
  <2>2. request' = Ends(i) \/ UNCHANGED request
    BY <1>6 DEF IdentifyTimeout, IdentifyJobDone
  <2>3. NoNewWaiter
    BY <2>1, <2>2, EndsMoves, MovesAddNoWaiter DEF NoNewWaiter
  <2> QED
    BY <1>5, <1>6, <2>3 DEF IdentifyTimeout, IdentifyJobDone
<1>7. ASSUME NEW t \in Teachers, AcquireSlot(t) \/ AfterEmbedding(t) \/ CancelTeach(t) PROVE Kept'
  <2>1. t \in Requests
    BY DEF Requests
  <2>2. NoNewWaiter
    BY <1>7, <2>1, TeachSteps, MovesAddNoWaiter
  <2> QED
    BY <1>5, <1>7, <2>2 DEF AcquireSlot, AfterEmbedding, CancelTeach
<1>8. CASE \/ RecallDone \/ ReleaseSlot \/ UNCHANGED vars
           \/ \E t \in Teachers : Embed(t) \/ EmbeddingDone(t)
  <2>1. quiet /\ UNCHANGED <<request, pending, closing>>
    BY <1>8 DEF RecallDone, ReleaseSlot, Embed, EmbeddingDone, vars
  <2> QED
    BY <1>5, <2>1 DEF NoNewWaiter
<1>9. CASE BeginClose \/ Close
  <2>1. quiet /\ NoNewWaiter
    BY <1>9 DEF BeginClose, Close, ListQueries, ListRecalls, ShutExecutor, CloseStore,
      NoNewWaiter
  <2>2. closing'.stage \in {"recalls", "embeddings", "closed"}
        \/ (pending' = pending /\ closing.stage \in {"open", "teach"})
    BY <1>9 DEF BeginClose, Close, ListQueries, ListRecalls, ShutExecutor, CloseStore, Shapes
  <2> QED
    BY <2>1, <2>2, KeptStands DEF ClosingFrom
<1> QED
  BY <1>1, <1>2, <1>3, <1>4, <1>6, <1>7, <1>8, <1>9 DEF Next

(* A query's events are collected at most once for itself and once for     *)
(* each request that has waited for it.                                    *)
LEMMA CountedSuffices == Shapes /\ Counted => CopiesHaveAWaiter
<1> SUFFICES ASSUME Shapes, Counted, NEW k \in Queries
             PROVE  copies[k] <= 1 + Cardinality({r \in Requests : request[r].on = k})
  BY DEF CopiesHaveAWaiter
<1> DEFINE all == {r \in Requests : request[r].on = k}
<1>1. IsFiniteSet(Requests)
  BY ServiceAssumption, FS_Union DEF Requests
<1>2. IsFiniteSet(all) /\ Collected[k] \in SUBSET all
  BY <1>1, FS_Subset DEF Collected
<1>3. /\ Cardinality(Collected[k]) \in Nat /\ Cardinality(all) \in Nat
      /\ Cardinality(Collected[k]) <= Cardinality(all)
  BY <1>2, FS_Subset, FS_CardinalityType
<1>4. copies[k] \in Nat /\ (pending = k => copies[k] + 1 <= 1 + Cardinality(Collected[k]))
      /\ (pending # k => copies[k] + 0 <= 1 + Cardinality(Collected[k]))
  BY DEF Counted, Shapes
<1> QED
  BY <1>3, <1>4

(* The events of a query reach the stream's frames, none pushed out of the *)
(* queue by copies or by a later query's, and none more often than there   *)
(* were requests waiting for it (_collect_completed_query,                 *)
(* drain_completed_events); if the queue has room for one query's events.  *)
THEOREM EventsReachTheStream ==
  ASSUME RoomForOne
  PROVE  Spec => []EventsKept
<1>1. (IInv /\ Kept) /\ [Next]_vars => (IInv /\ Kept)'
  BY ShapesStep, SequenceStep, CountedStep, JobsStep, SlotsStep, CloseStep, KeptStep DEF IInv
<1>2. Init => IInv /\ Kept
  BY InitIInv, InitKept
<1>3. IInv /\ Kept => EventsKept
  BY CountedSuffices DEF IInv, InSequence, Kept, EventsKept
<1> QED
  BY <1>1, <1>2, <1>3, PTL DEF Spec

=============================================================================
