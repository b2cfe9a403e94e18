------------------------- MODULE BotifiedWriterProofs -------------------------
(***************************************************************************)
(* Safety of BotifiedWriter for every set of frames and every limit.  The  *)
(* deque and its set share no lock, so what the two owe to each other is   *)
(* stated with the places enqueue and drain_available can have reached.    *)
(***************************************************************************)
EXTENDS BotifiedWriter, SequenceTheorems, TLAPS

(* A frame of the deque is a member, except in the gap enqueue leaves      *)
(* between its append and its add.                                         *)
Vouched(f) == f \in members \/ (enq.at = "add" /\ enq.frame = f)

Holding == enq.at \in {"room", "evict", "forget", "append"}

MembersMatch ==
    /\ QueuedOnce
    /\ \A i \in DOMAIN queue : Vouched(queue[i].frame)
    /\ Holding => enq.frame \notin members
    /\ enq.at = "append" => Len(queue) < MaxQueue
    /\ enq.at = "forget" => \A i \in DOMAIN queue : queue[i].frame # enq.victim.frame
    /\ thread.at = "discard" =>
           /\ Vouched(thread.entry.frame)
           /\ \A i \in DOMAIN queue : queue[i].frame # thread.entry.frame
           /\ enq.at = "forget" => enq.victim.frame # thread.entry.frame

(* The numbers grow from stdout over the thread's hands to the deque.      *)
InHands == thread.at \in {"discard", "write", "broken"}

NumbersGrow ==
    /\ WrittenInOrder
    /\ \A i, j \in DOMAIN queue : i < j => queue[i].n < queue[j].n
    /\ \A i \in DOMAIN queue : queue[i].n <= appended
    /\ \A k \in DOMAIN written :
           written[k] <= appended /\ \A i \in DOMAIN queue : written[k] < queue[i].n
    /\ InHands =>
           /\ thread.entry.n <= appended
           /\ \A i \in DOMAIN queue : thread.entry.n < queue[i].n
           /\ \A k \in DOMAIN written : written[k] < thread.entry.n

(* Every call is refused, still at work, or has appended its frame.        *)
CallsAddUp ==
    /\ NoFrameIsLost
    /\ appended + refused + (IF Holding THEN 1 ELSE 0) <= offers

(* Every member is in the deque, taken by the thread, or about to be       *)
(* forgotten.                                                              *)
Accounted(f) == f \in taken \/ \E i \in DOMAIN queue : queue[i].frame = f

MembersAccounted ==
    /\ \A f \in members : Accounted(f) \/ (enq.at = "forget" /\ f = enq.victim.frame)
    /\ enq.at = "add" => Accounted(enq.frame)

IInv == TypeOK /\ MembersMatch /\ MembersAccounted /\ NumbersGrow /\ CallsAddUp

-----------------------------------------------------------------------------

(* What taking the first frame and appending one do to a deque.            *)
LEMMA TailOf ==
  ASSUME NEW q \in Seq(Entry), q # <<>>
  PROVE  /\ Head(q) \in Entry /\ Head(q) = q[1] /\ 1 \in DOMAIN q
         /\ Tail(q) \in Seq(Entry) /\ Len(Tail(q)) = Len(q) - 1
         /\ \A i \in DOMAIN Tail(q) : i + 1 \in DOMAIN q /\ Tail(q)[i] = q[i + 1]
  BY HeadTailProperties

LEMMA AppendTo ==
  ASSUME NEW q \in Seq(Entry), NEW e \in Entry
  PROVE  /\ Append(q, e) \in Seq(Entry) /\ Len(Append(q, e)) = Len(q) + 1
         /\ DOMAIN Append(q, e) = 1..(Len(q) + 1) /\ DOMAIN q = 1..Len(q)
         /\ \A i \in DOMAIN q : Append(q, e)[i] = q[i]
         /\ Append(q, e)[Len(q) + 1] = e
  BY AppendProperties

(* Taking the first frame leaves frames that were behind it, apart and in  *)
(* order as they were.                                                     *)
LEMMA BehindHead ==
  ASSUME NEW q \in Seq(Entry), q # <<>>
  PROVE  /\ \A i \in DOMAIN Tail(q) : \E k \in DOMAIN q : Tail(q)[i] = q[k]
         /\ (\A i, j \in DOMAIN q : i # j => q[i].frame # q[j].frame)
                => /\ \A i, j \in DOMAIN Tail(q) : i # j => Tail(q)[i].frame # Tail(q)[j].frame
                   /\ \A i \in DOMAIN Tail(q) : Tail(q)[i].frame # Head(q).frame
         /\ (\A i, j \in DOMAIN q : i < j => q[i].n < q[j].n)
                => /\ \A i, j \in DOMAIN Tail(q) : i < j => Tail(q)[i].n < Tail(q)[j].n
                   /\ \A i \in DOMAIN Tail(q) : Head(q).n < Tail(q)[i].n
<1> DEFINE t == Tail(q)
<1>1. /\ Head(q) = q[1] /\ 1 \in DOMAIN q
      /\ \A i \in DOMAIN t : i + 1 \in DOMAIN q /\ t[i] = q[i + 1]
  BY TailOf
<1>2. \A i \in DOMAIN t : i \in Nat /\ i >= 1
  BY TailOf
<1> HIDE DEF t
<1>3. \A i \in DOMAIN t : \E k \in DOMAIN q : t[i] = q[k]
  BY <1>1
<1>4. ASSUME \A i, j \in DOMAIN q : i # j => q[i].frame # q[j].frame
      PROVE  /\ \A i, j \in DOMAIN t : i # j => t[i].frame # t[j].frame
             /\ \A i \in DOMAIN t : t[i].frame # Head(q).frame
  <2>1. \A i, j \in DOMAIN t : i # j => i + 1 # j + 1
    BY <1>2
  <2>2. \A i \in DOMAIN t : i + 1 # 1
    BY <1>2
  <2> QED
    BY <1>1, <1>4, <2>1, <2>2
<1>5. ASSUME \A i, j \in DOMAIN q : i < j => q[i].n < q[j].n
      PROVE  /\ \A i, j \in DOMAIN t : i < j => t[i].n < t[j].n
             /\ \A i \in DOMAIN t : Head(q).n < t[i].n
  <2>1. \A i, j \in DOMAIN t : i < j => i + 1 < j + 1
    BY <1>2
  <2>2. \A i \in DOMAIN t : 1 < i + 1
    BY <1>2
  <2> QED
    BY <1>1, <1>5, <2>1, <2>2
<1> QED
  BY <1>3, <1>4, <1>5 DEF t

(* Whatever is in a deque is its first frame or stays behind it.           *)
LEMMA HeadOrTail ==
  ASSUME NEW q \in Seq(Entry), q # <<>>, NEW i \in DOMAIN q
  PROVE  q[i] = Head(q) \/ \E k \in DOMAIN Tail(q) : Tail(q)[k] = q[i]
<1>1. CASE i = 1
  BY <1>1, TailOf
<1>2. CASE i # 1
  <2>1. i - 1 \in DOMAIN Tail(q) /\ i = (i - 1) + 1
    BY <1>2, TailOf
  <2> QED
    BY <2>1, TailOf
<1> QED
  BY <1>1, <1>2

LEMMA InitIInv == Init => IInv
  BY WriterAssumption
  DEF Init, IInv, TypeOK, MembersMatch, QueuedOnce, Vouched, Holding, NumbersGrow, WrittenInOrder,
      InHands, CallsAddUp, NoFrameIsLost, Evicted, InHand, Entry, Nothing,
      MembersAccounted, Accounted

(* There is a number left for every frame that is appended.                *)
LEMMA NewEntry ==
  ASSUME TypeOK, CallsAddUp, AppendFrame
  PROVE  [frame |-> enq.frame, n |-> appended'] \in Entry /\ appended' \in 0..MaxOffers
<1>1. enq.frame \in Frames /\ enq.at = "append"
  BY DEF AppendFrame, TypeOK
<1>2. appended' = appended + 1 /\ appended' <= MaxOffers
  BY <1>1, WriterAssumption DEF AppendFrame, TypeOK, CallsAddUp, Holding
<1> QED
  BY <1>1, <1>2 DEF TypeOK, Entry

(* What a step of each side leaves of the types.                           *)
LEMMA TypeStep == IInv /\ [Next]_vars => TypeOK'
<1> SUFFICES ASSUME IInv, [Next]_vars PROVE TypeOK'
  OBVIOUS
<1> USE WriterAssumption DEF TypeOK, history, Nothing
<1>0. TypeOK /\ MembersMatch /\ CallsAddUp
  BY DEF IInv
<1>1. ASSUME NEW f \in Frames, Offer(f) PROVE TypeOK'
  <2>1. dropped + 1 \in 0..MaxOffers
    <3>1. enq.at = "idle" /\ offers < MaxOffers
      BY <1>1 DEF Offer
    <3>2. appended = Len(queue) + (dropped - refused) + InHand + Len(written)
      BY <1>0, <3>1 DEF CallsAddUp, NoFrameIsLost, Evicted
    <3>3. InHand \in Nat /\ Len(queue) \in Nat /\ Len(written) \in Nat
      BY <1>0 DEF InHand
    <3>4. appended + refused <= offers
      BY <1>0, <3>1 DEF CallsAddUp, Holding
    <3> QED
      BY <1>0, <3>1, <3>2, <3>3, <3>4
  <2> QED
    BY <1>0, <1>1, <2>1 DEF Offer, CallsAddUp, Holding
<1>2. CASE MakeRoom
  BY <1>0, <1>2 DEF MakeRoom, EnqAt
<1>3. CASE Evict
  <2>1. CASE queue # <<>>
    <3>1. Head(queue) \in Entry /\ Tail(queue) \in Seq(Entry) /\ Len(Tail(queue)) <= MaxQueue
      BY <1>0, <2>1, TailOf
    <3>2. enq.frame \in Frames
      BY <1>0, <1>3 DEF Evict
    <3>3. enq' \in [at : {"forget"}, frame : Frames, victim : Entry]
      BY <1>3, <2>1, <3>1, <3>2 DEF Evict
    <3> QED
      BY <1>0, <1>3, <2>1, <3>1, <3>3 DEF Evict, WithoutOldest
  <2> QED
    BY <1>0, <1>3, <2>1 DEF Evict
<1>4. CASE Forget
  <2>1. dropped + 1 <= offers
    BY <1>0, <1>4 DEF Forget, CallsAddUp, NoFrameIsLost, Evicted, InHand, Holding
  <2> QED
    BY <1>0, <1>4, <2>1 DEF Forget
<1>5. CASE AppendFrame
  <2>1. [frame |-> enq.frame, n |-> appended'] \in Entry /\ appended' \in 0..MaxOffers
    BY <1>0, <1>5, NewEntry
  <2>2. queue' \in Seq(Entry) /\ Len(queue') <= MaxQueue
    BY <1>0, <1>5, <2>1, AppendTo DEF AppendFrame, MembersMatch
  <2> QED
    BY <1>0, <1>5, <2>1, <2>2 DEF AppendFrame, EnqAt
<1>6. CASE AddMember
  BY <1>0, <1>6 DEF AddMember
<1>7. CASE StartDrain
  BY <1>0, <1>7 DEF StartDrain
<1>8. CASE Look
  BY <1>0, <1>8 DEF Look, ThreadDone
<1>9. CASE Pop
  <2>1. CASE queue # <<>>
    <3>1. Head(queue) \in Entry /\ Tail(queue) \in Seq(Entry) /\ Len(Tail(queue)) <= MaxQueue
      BY <1>0, <2>1, TailOf
    <3>2. thread' \in [at : {"discard", "write", "broken"}, entry : Entry]
      BY <1>9, <2>1, <3>1 DEF Pop
    <3>3. taken' \in SUBSET Frames
      BY <1>0, <1>9, <2>1, <3>1 DEF Pop, Entry
    <3>4. /\ queue' = Tail(queue)
          /\ UNCHANGED <<members, dropped, enq, pipe, offers, refused, appended, written>>
      BY <1>9, <2>1 DEF Pop, AfterPop
    <3> QED
      BY <1>0, <3>1, <3>2, <3>3, <3>4
  <2> QED
    BY <1>0, <1>9, <2>1 DEF Pop
<1>10. CASE Discard
  BY <1>0, <1>10 DEF Discard
<1>11. CASE Write
  BY <1>0, <1>11, AppendProperties DEF Write, Entry
<1>12. CASE WriteFails
  BY <1>0, <1>12 DEF WriteFails
<1>13. CASE PipeCloses
  BY <1>0, <1>13 DEF PipeCloses
<1>14. CASE UNCHANGED vars
  BY <1>0, <1>14 DEF vars
<1> QED
  BY <1>1, <1>2, <1>3, <1>4, <1>5, <1>6, <1>7, <1>8, <1>9, <1>10, <1>11, <1>12, <1>13,
     <1>14
  DEF Next, Enqueue, DrainThread


(* Where a step moves one of the two sides.                                *)
LEMMA Moves ==
  ASSUME TypeOK
  PROVE  /\ \A place : EnqAt(place) => enq'.at = place /\ enq'.frame = enq.frame
         /\ \A place : thread.at \in {"discard", "write"} /\ thread' = [thread EXCEPT !.at = place]
                           => thread'.at = place /\ thread'.entry = thread.entry
<1>1. \A place : EnqAt(place) => enq'.at = place /\ enq'.frame = enq.frame
  BY DEF TypeOK, EnqAt
<1>2. \A place : thread.at \in {"discard", "write"} /\ thread' = [thread EXCEPT !.at = place]
                     => thread'.at = place /\ thread'.entry = thread.entry
  BY DEF TypeOK
<1> QED
  BY <1>1, <1>2

(* Every frame in the hands of one side has left the other's.              *)
LEMMA CallsStep == IInv /\ [Next]_vars => CallsAddUp'
<1> SUFFICES ASSUME TypeOK, CallsAddUp, [Next]_vars PROVE CallsAddUp'
  BY DEF IInv
<1> DEFINE Busy == IF Holding THEN 1 ELSE 0
<1>n. /\ offers \in Nat /\ refused \in Nat /\ appended \in Nat /\ dropped \in Nat
      /\ Len(queue) \in Nat /\ Len(written) \in Nat
      /\ Evicted \in Int /\ InHand \in Int /\ Busy \in Int
  BY WriterAssumption DEF TypeOK, Evicted, InHand
<1>e. UNCHANGED <<dropped, refused, enq>> => Evicted' = Evicted /\ Busy' = Busy
  BY DEF Evicted, Holding
<1>t. UNCHANGED thread => InHand' = InHand
  BY DEF InHand
<1>c. appended = Len(queue) + Evicted + InHand + Len(written) /\ appended + refused + Busy <= offers
  BY DEF CallsAddUp, NoFrameIsLost
<1> SUFFICES /\ appended' = Len(queue') + Evicted' + InHand' + Len(written')
             /\ appended' + refused' + Busy' <= offers'
  BY DEF CallsAddUp, NoFrameIsLost
<1> HIDE DEF Busy
<1>1. ASSUME NEW f \in Frames, Offer(f)
      PROVE  /\ appended' = Len(queue') + Evicted' + InHand' + Len(written')
             /\ appended' + refused' + Busy' <= offers'
  <2>1. Busy = 0 /\ offers' = offers + 1 /\ UNCHANGED <<queue, thread, appended, written>>
    BY <1>1 DEF Offer, Busy, Holding
  <2>2. CASE Refuses(f)
    <3>1. dropped' = dropped + 1 /\ refused' = refused + 1 /\ UNCHANGED enq
      BY <1>1, <2>2 DEF Offer
    <3>2. Evicted' = Evicted /\ Busy' = 0
      BY <1>n, <2>1, <3>1 DEF Evicted, Busy, Holding
    <3> QED
      BY <1>n, <1>t, <1>c, <2>1, <3>1, <3>2
  <2>3. CASE ~Refuses(f)
    <3>1. enq.at = "idle" /\ enq'.at = "room" /\ UNCHANGED <<dropped, refused>>
      BY <1>1, <2>3 DEF Offer
    <3>2. Evicted' = Evicted /\ Busy' = 1
      BY <3>1 DEF Evicted, Busy, Holding
    <3> QED
      BY <1>n, <1>t, <1>c, <2>1, <3>1, <3>2
  <2> QED
    BY <2>2, <2>3
<1>2. CASE Evict
  <2>1. CASE queue = <<>>
    <3>1. Evicted' = Evicted /\ Busy = 1 /\ Busy' = 0
      BY <1>2, <2>1 DEF Evict, Evicted, Busy, Holding, history
    <3> QED
      BY <1>n, <1>t, <1>c, <1>2, <2>1, <3>1 DEF Evict, history
  <2>2. CASE queue # <<>>
    <3>1. Len(queue') = Len(queue) - 1
      BY <1>2, <2>2, TailOf DEF Evict, WithoutOldest, TypeOK
    <3>2. enq.at = "evict" /\ enq'.at = "forget"
      BY <1>2, <2>2 DEF Evict
    <3>3. Evicted' = Evicted + 1 /\ Busy' = Busy
      BY <1>n, <1>2, <3>2 DEF Evict, Evicted, Busy, Holding, history
    <3> QED
      BY <1>n, <1>t, <1>c, <1>2, <3>1, <3>3 DEF Evict, history
  <2> QED
    BY <2>1, <2>2
<1>3. CASE AppendFrame
  <2>1. [frame |-> enq.frame, n |-> appended'] \in Entry
    BY <1>3, NewEntry
  <2>2. Len(queue') = Len(queue) + 1
    BY <1>3, <2>1, AppendTo DEF AppendFrame, TypeOK
  <2>3. enq.at = "append" /\ enq'.at = "add"
    BY <1>3, Moves DEF AppendFrame
  <2>4. Evicted' = Evicted /\ Busy = 1 /\ Busy' = 0
    BY <1>3, <2>3 DEF AppendFrame, Evicted, Busy, Holding
  <2> QED
    BY <1>n, <1>t, <1>c, <1>3, <2>2, <2>4 DEF AppendFrame
<1>4. CASE Pop
  <2>1. CASE queue = <<>>
    <3>1. InHand = 0 /\ InHand' = 0
      BY <1>4, <2>1 DEF Pop, InHand
    <3> QED
      BY <1>n, <1>e, <1>c, <1>4, <2>1, <3>1 DEF Pop, history
  <2>2. CASE queue # <<>>
    <3>1. Len(queue') = Len(queue) - 1
      BY <1>4, <2>2, TailOf DEF Pop, AfterPop, TypeOK
    <3>2. InHand = 0 /\ InHand' = 1
      BY <1>4, <2>2 DEF Pop, InHand
    <3> QED
      BY <1>n, <1>e, <1>c, <1>4, <3>1, <3>2 DEF Pop, history
  <2> QED
    BY <2>1, <2>2
<1>5. CASE Write
  <2>1. Len(written') = Len(written) + 1
    BY <1>5, AppendProperties DEF Write, Entry, TypeOK
  <2>2. InHand = 1 /\ InHand' = 0
    BY <1>5 DEF Write, InHand
  <2> QED
    BY <1>n, <1>e, <1>c, <1>5, <2>1, <2>2 DEF Write
<1>6. CASE MakeRoom
  <2>1. enq.at = "room" /\ enq'.at \in {"evict", "append"}
    BY <1>6, Moves DEF MakeRoom
  <2>2. Evicted' = Evicted /\ Busy' = Busy
    BY <1>6, <2>1 DEF MakeRoom, Evicted, Busy, Holding, history
  <2> QED
    BY <1>n, <1>t, <1>c, <1>6, <2>2 DEF MakeRoom, history
<1>7. CASE Forget
  <2>1. enq.at = "forget" /\ enq'.at = "room"
    BY <1>7 DEF Forget
  <2>2. Evicted' = Evicted /\ Busy' = Busy
    BY <1>n, <1>7, <2>1 DEF Forget, Evicted, Busy, Holding, history
  <2> QED
    BY <1>n, <1>t, <1>c, <1>7, <2>2 DEF Forget, history
<1>8. CASE AddMember
  <2>1. enq.at = "add" /\ enq'.at = "idle"
    BY <1>8 DEF AddMember
  <2>2. Evicted' = Evicted /\ Busy' = Busy
    BY <1>8, <2>1 DEF AddMember, Evicted, Busy, Holding, history
  <2> QED
    BY <1>n, <1>t, <1>c, <1>8, <2>2 DEF AddMember, history
<1>9. CASE StartDrain \/ Look
  <2>1. InHand' = InHand
    BY <1>9 DEF StartDrain, Look, ThreadDone, InHand
  <2> QED
    BY <1>n, <1>e, <1>c, <1>9, <2>1 DEF StartDrain, Look, history
<1>10. CASE Discard \/ WriteFails
  <2>1. InHand' = InHand
    BY <1>10, Moves DEF Discard, WriteFails, InHand
  <2> QED
    BY <1>n, <1>e, <1>c, <1>10, <2>1 DEF Discard, WriteFails, history
<1>11. CASE PipeCloses \/ UNCHANGED vars
  BY <1>n, <1>e, <1>t, <1>c, <1>11 DEF PipeCloses, vars, history
<1> QED
  BY <1>1, <1>2, <1>3, <1>4, <1>5, <1>6, <1>7, <1>8, <1>9, <1>10, <1>11
  DEF Next, Enqueue, DrainThread


(* Only enqueue adds members and only it appends; the thread takes out the *)
(* member of the frame it holds, which no other entry of the deque has.    *)
LEMMA MembersStep == IInv /\ [Next]_vars => MembersMatch'
<1> SUFFICES ASSUME TypeOK, MembersMatch, [Next]_vars PROVE MembersMatch'
  BY DEF IInv
<1> USE DEF MembersMatch, QueuedOnce, Vouched, Holding
<1>1. ASSUME NEW f \in Frames, Offer(f) PROVE MembersMatch'
  BY <1>1 DEF Offer, Refuses
<1>2. CASE MakeRoom
  <2>1. enq'.at = "append" => Len(queue) < MaxQueue
    BY <1>2, Moves, WriterAssumption DEF MakeRoom, Full, TypeOK
  <2>2. enq.at = "room" /\ enq'.at \in {"evict", "append"} /\ enq'.frame = enq.frame
    BY <1>2, Moves DEF MakeRoom
  <2> QED
    BY <1>2, <2>1, <2>2 DEF MakeRoom
<1>3. CASE Evict
  <2>1. CASE queue = <<>>
    BY <1>3, <2>1 DEF Evict
  <2>2. CASE queue # <<>>
    <3>1. queue \in Seq(Entry) /\ queue' = Tail(queue) /\ UNCHANGED <<members, thread>>
      BY <1>3, <2>2 DEF Evict, WithoutOldest, TypeOK
    <3>2. /\ enq.at = "evict" /\ enq'.at = "forget" /\ enq'.frame = enq.frame
          /\ enq'.victim = Head(queue)
      BY <1>3, <2>2 DEF Evict
    <3>3. \E k \in DOMAIN queue : Head(queue) = queue[k]
      BY <2>2, <3>1, TailOf
    <3> QED
      BY <2>2, <3>1, <3>2, <3>3, BehindHead
  <2> QED
    BY <2>1, <2>2
<1>4. CASE Forget
  BY <1>4 DEF Forget
<1>5. CASE AppendFrame
  BY <1>5, Moves, AppendTo DEF AppendFrame
<1>6. CASE AddMember
  BY <1>6 DEF AddMember
<1>7. CASE StartDrain
  BY <1>7 DEF StartDrain
<1>8. CASE Look
  BY <1>8 DEF Look, ThreadDone
<1>9. CASE Pop
  <2>1. CASE queue = <<>>
    BY <1>9, <2>1 DEF Pop
  <2>2. CASE queue # <<>>
    <3>1. queue \in Seq(Entry) /\ queue' = Tail(queue) /\ UNCHANGED <<members, enq>>
      BY <1>9, <2>2 DEF Pop, AfterPop, TypeOK
    <3>2. thread.at = "pop" /\ thread'.at = "discard" /\ thread'.entry = Head(queue)
      BY <1>9, <2>2 DEF Pop
    <3>3. \E k \in DOMAIN queue : Head(queue) = queue[k]
      BY <2>2, <3>1, TailOf
    <3>4. enq.at = "append" => Len(queue') < MaxQueue
      BY <2>2, <3>1, TailOf, WriterAssumption
    <3> QED
      BY <2>2, <3>1, <3>2, <3>3, <3>4, BehindHead
  <2> QED
    BY <2>1, <2>2
<1>10. CASE Discard
  BY <1>10, Moves DEF Discard
<1>11. CASE Write
  BY <1>11 DEF Write
<1>12. CASE WriteFails
  BY <1>12, Moves DEF WriteFails
<1>13. CASE PipeCloses \/ UNCHANGED vars
  BY <1>13 DEF vars, PipeCloses
<1> QED
  BY <1>1, <1>2, <1>3, <1>4, <1>5, <1>6, <1>7, <1>8, <1>9, <1>10, <1>11, <1>12, <1>13
  DEF Next, Enqueue, DrainThread


(* What leaves the deque is forgotten by enqueue or taken by the thread,   *)
(* and a frame being appended is no member.                                *)
LEMMA AccountedStep == IInv /\ [Next]_vars => MembersAccounted'
<1> SUFFICES ASSUME TypeOK, MembersMatch, MembersAccounted, [Next]_vars
             PROVE  MembersAccounted'
  BY DEF IInv
<1> USE DEF MembersAccounted, Accounted, history
<1>1. ASSUME NEW f \in Frames, Offer(f) PROVE MembersAccounted'
  BY <1>1 DEF Offer
<1>2. CASE MakeRoom
  <2>1. enq.at = "room" /\ enq'.at \in {"evict", "append"} /\ enq'.frame = enq.frame
    BY <1>2, Moves DEF MakeRoom
  <2> QED
    BY <1>2, <2>1 DEF MakeRoom
<1>3. CASE Evict
  <2>1. CASE queue = <<>>
    BY <1>3, <2>1 DEF Evict
  <2>2. CASE queue # <<>>
    <3>1. queue \in Seq(Entry) /\ queue' = Tail(queue) /\ UNCHANGED <<members, taken>>
      BY <1>3, <2>2 DEF Evict, WithoutOldest, TypeOK
    <3>2. enq.at = "evict" /\ enq'.at = "forget" /\ enq'.victim = Head(queue)
      BY <1>3, <2>2 DEF Evict
    <3> QED
      BY <2>2, <3>1, <3>2, HeadOrTail
  <2> QED
    BY <2>1, <2>2
<1>4. CASE Forget
  BY <1>4 DEF Forget
<1>5. CASE AppendFrame
  <2>1. enq.at = "append" /\ enq'.at = "add" /\ enq'.frame = enq.frame
    BY <1>5, Moves DEF AppendFrame
  <2>2. /\ queue' = Append(queue, [frame |-> enq.frame, n |-> appended'])
        /\ taken' = taken \ {enq.frame} /\ UNCHANGED members
    BY <1>5 DEF AppendFrame
  <2>3. /\ \A i \in DOMAIN queue : i \in DOMAIN queue' /\ queue'[i] = queue[i]
        /\ \E i \in DOMAIN queue' : queue'[i].frame = enq.frame
    <3> DEFINE e == [frame |-> enq.frame, n |-> appended']
    <3>1. queue \in Seq(Entry \cup {e}) /\ e \in Entry \cup {e}
      BY DEF TypeOK
    <3>2. e.frame = enq.frame
      OBVIOUS
    <3> HIDE DEF e
    <3> QED
      BY <2>2, <3>1, <3>2, AppendProperties DEF e
  <2>4. enq.frame \notin members
    BY <2>1 DEF MembersMatch, Holding
  <2> QED
    BY <2>1, <2>2, <2>3, <2>4
<1>6. CASE AddMember
  BY <1>6 DEF AddMember
<1>7. CASE Pop
  <2>1. CASE queue = <<>>
    BY <1>7, <2>1 DEF Pop
  <2>2. CASE queue # <<>>
    <3>1. /\ queue \in Seq(Entry) /\ queue' = Tail(queue) /\ UNCHANGED <<members, enq>>
          /\ taken' = taken \cup {Head(queue).frame}
      BY <1>7, <2>2 DEF Pop, AfterPop, TypeOK
    <3> QED
      BY <2>2, <3>1, HeadOrTail
  <2> QED
    BY <2>1, <2>2
<1>8. CASE Discard
  BY <1>8 DEF Discard
<1>9. CASE StartDrain \/ Look \/ Write \/ WriteFails \/ PipeCloses \/ UNCHANGED vars
  BY <1>9 DEF StartDrain, Look, Write, WriteFails, PipeCloses, vars
<1> QED
  BY <1>1, <1>2, <1>3, <1>4, <1>5, <1>6, <1>7, <1>8, <1>9 DEF Next, Enqueue, DrainThread

(* A new number is above all others; what leaves the deque leaves from its *)
(* low end.                                                                *)
LEMMA NumbersStep == IInv /\ [Next]_vars => NumbersGrow'
<1> SUFFICES ASSUME TypeOK, NumbersGrow, CallsAddUp, [Next]_vars PROVE NumbersGrow'
  BY DEF IInv
<1>n. /\ appended \in Nat /\ queue \in Seq(Entry) /\ written \in Seq(1..MaxOffers)
      /\ DOMAIN queue = 1..Len(queue) /\ DOMAIN written = 1..Len(written)
      /\ Len(queue) \in Nat /\ Len(written) \in Nat
      /\ \A i \in DOMAIN queue : queue[i].n \in Nat
      /\ \A k \in DOMAIN written : written[k] \in Nat
  <2>1. \A e \in Entry : e.n \in Nat
    BY DEF Entry
  <2>2. queue \in Seq(Entry) /\ written \in Seq(1..MaxOffers) /\ appended \in Nat
    BY WriterAssumption DEF TypeOK
  <2> QED
    BY <2>1, <2>2, WriterAssumption
<1> USE DEF NumbersGrow, WrittenInOrder, InHands, history
<1>1. CASE (\E f \in Frames : Offer(f)) \/ MakeRoom \/ Forget \/ AddMember
  BY <1>1 DEF Offer, MakeRoom, Forget, AddMember
<1>2. CASE Evict
  <2>1. CASE queue = <<>>
    BY <1>2, <2>1 DEF Evict
  <2>2. CASE queue # <<>>
    <3>1. queue' = Tail(queue) /\ UNCHANGED <<thread, appended, written>>
      BY <1>2, <2>2 DEF Evict, WithoutOldest
    <3> QED
      BY <1>n, <2>2, <3>1, BehindHead
  <2> QED
    BY <2>1, <2>2
<1>3. CASE AppendFrame
  <2>1. [frame |-> enq.frame, n |-> appended'] \in Entry
    BY <1>3, NewEntry
  <2>2. /\ DOMAIN queue' = 1..(Len(queue) + 1)
        /\ \A i \in DOMAIN queue : queue'[i] = queue[i]
        /\ queue'[Len(queue) + 1].n = appended + 1
        /\ appended' = appended + 1 /\ UNCHANGED <<thread, written>>
    BY <1>n, <1>3, <2>1, AppendTo DEF AppendFrame
  <2>3. \A i \in DOMAIN queue' :
            \/ i \in DOMAIN queue /\ queue'[i].n <= appended
            \/ i = Len(queue) + 1 /\ queue'[i].n = appended + 1
    BY <1>n, <2>2
  <2>4. \A i, j \in DOMAIN queue' : i < j => queue'[i].n < queue'[j].n
    BY <1>n, <2>2, <2>3
  <2>5. \A i \in DOMAIN queue' :
            /\ \A k \in DOMAIN written : written[k] < queue'[i].n
            /\ InHands => thread.entry.n < queue'[i].n
    <3>1. InHands => thread.entry.n \in Nat
      BY DEF TypeOK, Entry
    <3> QED
      BY <1>n, <2>2, <2>3, <3>1
  <2>6. InHands => thread.entry.n <= appended + 1
    BY <1>n DEF TypeOK, Entry
  <2> QED
    BY <1>n, <2>2, <2>3, <2>4, <2>5, <2>6
<1>4. CASE Pop
  <2>1. CASE queue = <<>>
    BY <1>4, <2>1 DEF Pop
  <2>2. CASE queue # <<>>
    <3>1. /\ queue' = Tail(queue) /\ UNCHANGED <<appended, written>>
          /\ thread'.at = "discard" /\ thread'.entry = Head(queue)
      BY <1>4, <2>2 DEF Pop, AfterPop
    <3>2. \E k \in DOMAIN queue : Head(queue) = queue[k]
      BY <1>n, <2>2, TailOf
    <3> QED
      BY <1>n, <2>2, <3>1, <3>2, BehindHead
  <2> QED
    BY <2>1, <2>2
<1>5. CASE Write
  <2>1. thread.entry.n \in 1..MaxOffers
    BY <1>5 DEF Write, TypeOK, Entry
  <2>2. /\ DOMAIN written' = 1..(Len(written) + 1)
        /\ \A k \in DOMAIN written : written'[k] = written[k]
        /\ written'[Len(written) + 1] = thread.entry.n
        /\ thread.at = "write" /\ thread'.at = "look" /\ UNCHANGED <<queue, appended>>
    BY <1>n, <1>5, <2>1, AppendProperties DEF Write
  <2> QED
    BY <1>n, <2>2
<1>6. CASE StartDrain \/ Look
  BY <1>6 DEF StartDrain, Look, ThreadDone
<1>7. CASE Discard \/ WriteFails
  BY <1>7, Moves DEF Discard, WriteFails
<1>8. CASE PipeCloses \/ UNCHANGED vars
  BY <1>8 DEF PipeCloses, vars
<1> QED
  BY <1>1, <1>2, <1>3, <1>4, <1>5, <1>6, <1>7, <1>8 DEF Next, Enqueue, DrainThread

THEOREM WriterInvariance == Spec => []IInv
<1>1. IInv /\ [Next]_vars => IInv'
  BY TypeStep, MembersStep, AccountedStep, NumbersStep, CallsStep DEF IInv
<1> QED
  BY InitIInv, <1>1, PTL DEF Spec

(* Whatever the thread and the event loop do between two of their steps,   *)
(* the deque keeps to max_queue_size and holds no frame twice, and a frame *)
(* the set refuses is in the deque or was taken from it by the thread      *)
(* (_queue and _queued_frames).                                            *)
THEOREM QueueHoldsEachFrameOnce == Spec => []QueueInv
<1>1. IInv => QueueInv
  BY DEF IInv, MembersMatch, MembersAccounted, Accounted, FramesOf, RefusesRepetitions,
         QueueInv
<1> QED
  BY WriterInvariance, <1>1, PTL

(* Frames reach stdout in the order they were queued, none twice, and      *)
(* dropped_count accounts for every other (drain_available, enqueue).      *)
THEOREM FramesAreDelivered == Spec => []Delivered
<1>1. IInv => Delivered
  BY DEF IInv, NumbersGrow, CallsAddUp, Delivered
<1> QED
  BY WriterInvariance, <1>1, PTL

=============================================================================
