--------------------------- MODULE BotifiedWriter ---------------------------
(***************************************************************************)
(* BotifiedStdoutWriter of botified_output.py.  The event loop calls       *)
(* enqueue, a daemon thread runs drain_available, and the deque and the    *)
(* set they share have no lock: a step is one operation on one of the two. *)
(***************************************************************************)
EXTENDS Integers, SequencesExt

CONSTANTS Frames,     \* the frames the gate can write
          MaxQueue,   \* max_queue_size
          MaxOffers   \* bound on the calls of enqueue

ASSUME WriterAssumption == {MaxQueue, MaxOffers} \subseteq Nat

VARIABLES
    queue,    \* _queue: frames, each with the number of its append
    members,  \* _queued_frames
    dropped,  \* dropped_count
    enq,      \* where enqueue stands, and with which frame
    thread,   \* where drain_available stands, and with which frame
    pipe,     \* "open" or "closed": stdout
    offers,   \* history: calls of enqueue
    refused,  \* history: calls that returned False
    appended, \* history: frames appended so far
    written,  \* history: numbers of the frames written
    taken     \* history: frames the thread took when they were queued last

history == <<offers, refused, appended, written, taken>>
vars == <<queue, members, dropped, enq, thread, pipe, history>>

Nothing == <<>>
Entry == [frame : Frames, n : 1..MaxOffers]
FramesOf(q) == {q[i].frame : i \in DOMAIN q}

TypeOK ==
    /\ queue \in Seq(Entry) /\ Len(queue) <= MaxQueue
    /\ members \in SUBSET Frames
    /\ dropped \in 0..MaxOffers
    /\ \/ enq \in [at : {"idle", "raised"}, frame : {Nothing}]
       \/ enq \in [at : {"room", "evict", "append", "add"}, frame : Frames]
       \/ enq \in [at : {"forget"}, frame : Frames, victim : Entry]
    /\ \/ thread \in [at : {"none", "look", "pop", "raised"}]
       \/ thread \in [at : {"discard", "write", "broken"}, entry : Entry]
    /\ pipe \in {"open", "closed"}
    /\ {offers, refused, appended} \subseteq 0..MaxOffers
    /\ written \in Seq(1..MaxOffers) /\ taken \in SUBSET Frames

Init ==
    /\ queue = <<>> /\ members = {} /\ dropped = 0
    /\ enq = [at |-> "idle", frame |-> Nothing] /\ thread = [at |-> "none"]
    /\ pipe = "open"
    /\ offers = 0 /\ refused = 0 /\ appended = 0 /\ written = <<>>
    /\ taken = {}

-----------------------------------------------------------------------------
(* enqueue, on the event loop *)

EnqAt(place) == enq' = [enq EXCEPT !.at = place]

Refuses(f) == f \in members \/ MaxQueue = 0

Offer(f) ==
    /\ enq.at = "idle" /\ offers < MaxOffers
    /\ offers' = offers + 1
    /\ IF Refuses(f)
       THEN dropped' = dropped + 1 /\ refused' = refused + 1 /\ UNCHANGED enq
       ELSE enq' = [at |-> "room", frame |-> f] /\ UNCHANGED <<dropped, refused>>
    /\ UNCHANGED <<queue, members, thread, pipe, appended, written, taken>>

Full == Len(queue) >= MaxQueue

MakeRoom ==
    /\ enq.at = "room"
    /\ EnqAt(IF Full THEN "evict" ELSE "append")
    /\ UNCHANGED <<queue, members, dropped, thread, pipe, history>>

WithoutOldest(q) == Tail(q)

\* The thread can have emptied the deque since its length was read.
Evict ==
    /\ enq.at = "evict"
    /\ \/ /\ queue = <<>>
          /\ enq' = [at |-> "raised", frame |-> Nothing]
          /\ UNCHANGED queue
       \/ /\ queue # <<>>
          /\ enq' = [at |-> "forget", frame |-> enq.frame, victim |-> Head(queue)]
          /\ queue' = WithoutOldest(queue)
    /\ UNCHANGED <<members, dropped, thread, pipe, history>>

KeepsTheEvicted ==                                                \* mutant
    /\ enq.at = "forget"
    /\ dropped' = dropped + 1
    /\ enq' = [at |-> "room", frame |-> enq.frame]
    /\ UNCHANGED <<queue, members, thread, pipe, history>>

Forget ==
    /\ enq.at = "forget"
    /\ members' = members \ {enq.victim.frame}
    /\ dropped' = dropped + 1
    /\ enq' = [at |-> "room", frame |-> enq.frame]
    /\ UNCHANGED <<queue, thread, pipe, history>>

AppendFrame ==
    /\ enq.at = "append"
    /\ appended' = appended + 1
    /\ queue' = Append(queue, [frame |-> enq.frame, n |-> appended'])
    /\ taken' = taken \ {enq.frame}
    /\ EnqAt("add")
    /\ UNCHANGED <<members, dropped, thread, pipe, offers, refused, written>>

AddMember ==
    /\ enq.at = "add"
    /\ members' = members \cup {enq.frame}
    /\ enq' = [at |-> "idle", frame |-> Nothing]
    /\ UNCHANGED <<queue, dropped, thread, pipe, history>>

Enqueue ==
    (\E f \in Frames : Offer(f)) \/ MakeRoom \/ Evict \/ Forget \/ AppendFrame
        \/ AddMember

-----------------------------------------------------------------------------
(* drain_available, in its thread *)

\* run_once starts a thread when it has collected the one before; the event
\* loop is not inside enqueue then, and goes on no more after an exception.
StartDrain ==
    /\ thread.at = "none" /\ enq.at = "idle"
    /\ thread' = [at |-> "look"]
    /\ UNCHANGED <<queue, members, dropped, enq, pipe, history>>

ThreadNotCollected == [at |-> "done"]                             \* mutant
ThreadDone == [at |-> "none"]

Look ==
    /\ thread.at = "look"
    /\ thread' = IF queue = <<>> THEN ThreadDone ELSE [at |-> "pop"]
    /\ UNCHANGED <<queue, members, dropped, enq, pipe, history>>

NotPopped == queue                                                \* mutant
AfterPop == Tail(queue)

\* enqueue can have evicted the only frame since the thread looked.
Pop ==
    /\ thread.at = "pop"
    /\ \/ queue = <<>> /\ thread' = [at |-> "raised"] /\ UNCHANGED <<queue, taken>>
       \/ /\ queue # <<>>
          /\ thread' = [at |-> "discard", entry |-> Head(queue)]
          /\ queue' = AfterPop
          /\ taken' = taken \cup {Head(queue).frame}
    /\ UNCHANGED <<members, dropped, enq, pipe, offers, refused, appended, written>>

Discard ==
    /\ thread.at = "discard"
    /\ members' = members \ {thread.entry.frame}
    /\ thread' = [thread EXCEPT !.at = "write"]
    /\ UNCHANGED <<queue, dropped, enq, pipe, history>>

Write ==
    /\ thread.at = "write" /\ pipe = "open"
    /\ written' = Append(written, thread.entry.n)
    /\ thread' = [at |-> "look"]
    /\ UNCHANGED <<queue, members, dropped, enq, pipe, offers, refused, appended, taken>>

\* BotifiedPipeClosed; run_once ends the program when it collects the thread.
WriteFails ==
    /\ thread.at = "write" /\ pipe = "closed"
    /\ thread' = [thread EXCEPT !.at = "broken"]
    /\ UNCHANGED <<queue, members, dropped, enq, pipe, history>>

DrainThread == Look \/ Pop \/ Discard \/ Write \/ WriteFails

PipeCloses ==
    /\ pipe = "open"
    /\ pipe' = "closed"
    /\ UNCHANGED <<queue, members, dropped, enq, thread, history>>

Next == Enqueue \/ StartDrain \/ DrainThread \/ PipeCloses

Spec == Init /\ [][Next]_vars

\* The event loop finishes a call of enqueue and keeps starting threads; the
\* thread runs and its reader reads.
FairSpec ==
    /\ Spec
    /\ WF_vars(MakeRoom \/ Evict \/ Forget \/ AppendFrame \/ AddMember)
    /\ WF_vars(StartDrain) /\ WF_vars(DrainThread)

-----------------------------------------------------------------------------
(* Properties *)

\* Frames reach stdout in the order they were queued, none of them twice,
\* whatever was evicted while the thread was writing.
WrittenInOrder ==
    \A i, j \in DOMAIN written : i < j => written[i] < written[j]

Evicted == dropped - refused + (IF enq.at = "forget" THEN 1 ELSE 0)
InHand == IF thread.at \in {"discard", "write", "broken"} THEN 1 ELSE 0

\* Every queued frame is still queued, evicted, in the hands of the thread or
\* written, and dropped_count says exactly how many were not written for want
\* of room or as repetitions.
NoFrameIsLost == appended = Len(queue) + Evicted + InHand + Len(written)

\* No frame is in the queue twice (_queued_frames), whichever of the thread's
\* discard and the event loop's add comes last.
QueuedOnce ==
    \A i, j \in DOMAIN queue : i # j => queue[i].frame # queue[j].frame

\* What is written and what is not adds up, in the order it was queued.
Delivered == WrittenInOrder /\ NoFrameIsLost

\* The set refuses repetitions only: a frame in it is in the queue, or the
\* thread has taken it since it was queued last, perhaps before enqueue put it
\* into the set (it is never taken out of it then).  A frame that had to make
\* room is out of both.
RefusesRepetitions ==
    enq.at = "idle" => members \subseteq FramesOf(queue) \cup taken

\* Between any two steps of the event loop and the thread the queue is within
\* its limit (TypeOK) and holds no frame twice, and its set goes too far only
\* with frames the thread has taken.  The set itself has no limit.
QueueInv == TypeOK /\ QueuedOnce /\ RefusesRepetitions

\* While stdout is read, a queued frame leaves the queue; it can only be kept
\* there by the end of the program.
QueueDrains ==
    \A n \in 1..MaxOffers :
        (\E i \in DOMAIN queue : queue[i].n = n)
            ~> \/ \A i \in DOMAIN queue : queue[i].n # n
               \/ enq.at = "raised" \/ thread.at \in {"raised", "broken"}
=============================================================================
