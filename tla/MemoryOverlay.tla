--------------------------- MODULE MemoryOverlay ---------------------------
(***************************************************************************)
(* The names that go with the tracks of one stream: identity_overlay.py,   *)
(* the frame cache it leans on, and the jobs of memory/service.py that     *)
(* write it.  The event loop answers frames in steps (observe, look up the *)
(* tracks of events, mark them as pending, project); in between the        *)
(* threads of the background query and of the event recalls search and     *)
(* write.  Track ids are counted anew when the tracker is reset: a         *)
(* generation is the time between two resets.                              *)
(***************************************************************************)
EXTENDS Integers, FiniteSets, FiniteSetsExt

CONSTANTS
    Tracks,      \* the track ids of a generation
    MaxFrames,   \* bound
    MaxGens,     \* bound: generations, resets + 1
    MaxTime,     \* bound of the clock
    Ttl          \* identity_overlay_ttl_ms, also the age limit of the frame cache

ASSUME OverlayAssumption ==
    /\ {MaxFrames, MaxGens, MaxTime} \subseteq Nat \ {0} /\ Ttl \in Nat

Frames == 1..MaxFrames
Gens == 1..MaxGens
\* What a search ends with: a known person or a familiar stranger, or neither (unknown,
\* unavailable).  Whose name it is follows from the generation the face was seen in.
Results == {"public", "nobody"}

VARIABLES
    now,       \* _clock_ms
    frame,     \* the cached frame: its number (0: none), generation and since when, tracks, time
    loop,      \* what the loop does with it, and the tracks of events it has done
    overlay,   \* _records
    mark,      \* _pending: the frame a recall was begun for, and when; 0: none
    query,     \* the background query of the stream
    recalls,   \* _pending_event_identity_recalls, by track and frame
    identify,  \* an identify request
    teach      \* a teach request waiting for its embedding

vars == <<now, frame, loop, overlay, mark, query, recalls, identify, teach>>

\* A result that is put: when, by whom, and (history) in which generation the face was
\* seen and in which the result was put.
NoRecord == [result |-> "nobody", at |-> -1, by |-> "none", about |-> 0, putIn |-> 0]
NoMark == [frame |-> 0, at |-> 0]
NoJob == [pc |-> "none", frame |-> 0, gen |-> 0, track |-> 0, left |-> {}, result |-> "nobody"]
Is(job, pc) == job.pc = pc

Init ==
    /\ now = 0
    /\ frame = [ref |-> 0, gen |-> 1, since |-> 0, visible |-> {}, at |-> 0]
    /\ loop = [pc |-> "idle", asked |-> {}, track |-> 0]
    /\ overlay = [t \in Tracks |-> NoRecord]
    /\ mark = [t \in Tracks |-> NoMark]
    /\ query = NoJob /\ identify = NoJob /\ teach = NoJob
    /\ recalls = [t \in Tracks |-> [f \in Frames |-> NoJob]]

HasRecord(t) == overlay[t].by # "none"
HasMark(t) == mark[t].frame # 0
Fresh == frame.ref # 0 /\ now - frame.at <= Ttl
Idle == loop.pc = "idle"

-----------------------------------------------------------------------------
(* The overlay *)

MarkAfterPut(t) == [mark EXCEPT ![t] = NoMark]

\* put_known_person, put_familiar_unknown, put_unknown, put_unavailable.
Put(t, result, by, about) ==
    /\ overlay' = [overlay EXCEPT ![t] = [result |-> result, at |-> now, by |-> by,
                                          about |-> about, putIn |-> frame.gen]]
    /\ mark' = MarkAfterPut(t)
PutNothing == UNCHANGED <<overlay, mark>>

NeverExpired(at) == FALSE  \* mutant
Expired(at) == now - at > Ttl

WhileCurrent(t, f) == mark[t].frame = f /\ frame.ref = f  \* mutant
IsHisMark(t, f) == mark[t].frame = f
ClearMark(t, f) == mark' = IF IsHisMark(t, f) THEN [mark EXCEPT ![t] = NoMark] ELSE mark

\* purge
Unexpired == [t \in Tracks |-> IF HasRecord(t) /\ Expired(overlay[t].at)
                               THEN NoRecord ELSE overlay[t]]
UnexpiredMarks == [t \in Tracks |-> IF HasMark(t) /\ Expired(mark[t].at)
                                    THEN NoMark ELSE mark[t]]

-----------------------------------------------------------------------------
(* The loop answers a frame *)

\* FrameCache.update and, when one is due, the next background query.
Observe(visible, resets, due) ==
    /\ Idle /\ frame.ref < MaxFrames
    /\ LET gen == IF resets THEN frame.gen + 1 ELSE frame.gen
           ref == frame.ref + 1
       IN /\ gen \in Gens
          /\ frame' = [ref |-> ref, gen |-> gen, since |-> IF resets THEN now ELSE frame.since,
                       visible |-> visible, at |-> now]
          /\ query' = IF due /\ Is(query, "none")
                      THEN [NoJob EXCEPT !.pc = "search", !.frame = ref, !.gen = gen,
                                         !.left = visible]
                      ELSE query
    /\ loop' = [pc |-> "enrich", asked |-> {}, track |-> 0]
    /\ UNCHANGED <<now, overlay, mark, recalls, identify, teach>>

Nameless(t) == Unexpired[t].result = "nobody"

\* enrich_visual_state_event_identities, for a track with an event: without a public name
\* it is recalled, unless the query of the stream is running.
LookUp(t) ==
    /\ loop.pc = "enrich" /\ t \in frame.visible \ loop.asked
    /\ overlay' = Unexpired /\ mark' = UnexpiredMarks
    /\ loop' = IF Nameless(t) /\ Is(query, "none") /\ Fresh
               THEN [pc |-> "register", asked |-> loop.asked \cup {t}, track |-> t]
               ELSE [loop EXCEPT !.asked = @ \cup {t}]
    /\ UNCHANGED <<now, frame, query, recalls, identify, teach>>

NewMark == [frame |-> frame.ref, at |-> now]

\* register_pending, then the recall is given to a thread.
Register ==
    /\ loop.pc = "register"
    /\ overlay' = [overlay EXCEPT ![loop.track] = NoRecord]
    /\ mark' = [mark EXCEPT ![loop.track] = NewMark]
    /\ recalls' = [recalls EXCEPT ![loop.track][frame.ref] =
                     [NoJob EXCEPT !.pc = "search", !.frame = frame.ref, !.gen = frame.gen,
                                   !.track = loop.track]]
    /\ loop' = [loop EXCEPT !.pc = "enrich", !.track = 0]
    /\ UNCHANGED <<now, frame, query, identify, teach>>

\* project: what expired or is out of sight goes, what is left is in the answer.
Project ==
    /\ loop.pc = "enrich"
    /\ overlay' = [t \in Tracks |-> IF t \in frame.visible THEN Unexpired[t] ELSE NoRecord]
    /\ mark' = [t \in Tracks |-> IF t \in frame.visible THEN UnexpiredMarks[t] ELSE NoMark]
    /\ loop' = [pc |-> "idle", asked |-> {}, track |-> 0]
    /\ UNCHANGED <<now, frame, query, recalls, identify, teach>>

-----------------------------------------------------------------------------
(* Searches *)

\* _query_person, target by target: the result is put or not, and the frame of the query is
\* not asked for again.  An event ends the tick's person queries.
QueryPut(t, result, puts, event) ==
    /\ Is(query, "search") /\ t \in query.left
    /\ result = "public" => puts
    /\ event => result = "public"
    /\ IF puts THEN Put(t, result, "query", query.gen) ELSE PutNothing
    /\ query' = IF event THEN NoJob ELSE [query EXCEPT !.left = @ \ {t}]
    /\ UNCHANGED <<now, frame, loop, recalls, identify, teach>>

\* The targets are done, or the query failed.
QueryEnds ==
    /\ Is(query, "search")
    /\ query' = NoJob
    /\ UNCHANGED <<now, frame, loop, overlay, mark, recalls, identify, teach>>

StillSeen(job) == Fresh /\ job.track \in frame.visible  \* mutant
\* _put_identity_overlay_result_for_current_frame: the frame searched in is still cached.
StillCurrent(job) == Fresh /\ frame.ref = job.frame /\ job.track \in frame.visible

RecallStep(job, next) == recalls' = [recalls EXCEPT ![job.track][job.frame] = next]

Waits(job, fails) ==  \* mutant
    IF fails THEN "done" ELSE IF StillCurrent(job) THEN "put" ELSE "check"
AfterCheck(job, fails) == IF fails \/ ~ StillCurrent(job) THEN "done" ELSE "put"

\* The search is over, with a result or an error, and the thread asks for the current
\* frame, without a lock.
RecallCheck(job, result, fails) ==
    /\ Is(job, "search")
    /\ RecallStep(job, [job EXCEPT !.pc = AfterCheck(job, fails),
                                   !.result = IF StillCurrent(job) THEN result ELSE "nobody"])
    /\ fails => result = "nobody"
    /\ UNCHANGED <<now, frame, loop, overlay, mark, query, identify, teach>>

RecallPut(job) ==
    /\ Is(job, "put")
    /\ Put(job.track, job.result, "recall", job.gen)
    /\ RecallStep(job, [job EXCEPT !.pc = "done", !.result = "nobody"])
    /\ UNCHANGED <<now, frame, loop, query, identify, teach>>

\* _finish_event_identity_recall, on the loop.
RecallFinish(job) ==
    /\ Is(job, "done") /\ Idle
    /\ ClearMark(job.track, job.frame)
    /\ RecallStep(job, NoJob)
    /\ UNCHANGED <<now, frame, loop, overlay, query, identify, teach>>

\* identify_current: the search runs in a thread, the rest on the loop.
IdentifyStart(t) ==
    /\ Idle /\ Is(identify, "none") /\ Fresh /\ t \in frame.visible
    /\ Is(query, "none")
    /\ identify' = [NoJob EXCEPT !.pc = "search", !.frame = frame.ref, !.gen = frame.gen,
                                 !.track = t]
    /\ UNCHANGED <<now, frame, loop, overlay, mark, query, recalls, teach>>

\* The result is put if the frame is still current; after a timeout it is not.  The
\* response is left out: it names the person as the camera's active target in any case,
\* whether or not the frame is still current, and writes no state.
IdentifyEnds(result, timeout) ==
    /\ Idle /\ Is(identify, "search")
    /\ IF ~ timeout /\ StillCurrent(identify)
       THEN Put(identify.track, result, "identify", identify.gen) ELSE PutNothing
    /\ identify' = NoJob
    /\ UNCHANGED <<now, frame, loop, query, recalls, teach>>

\* teach_person waits for the query of the stream, picks its target and awaits a face.
TeachStart(t) ==
    /\ Idle /\ Is(teach, "none") /\ Fresh /\ t \in frame.visible
    /\ Is(query, "none")
    /\ teach' = [NoJob EXCEPT !.pc = "commit", !.frame = frame.ref, !.gen = frame.gen,
                              !.track = t]
    /\ UNCHANGED <<now, frame, loop, overlay, mark, query, recalls, identify>>

\* The store learns the face, and the track of the old frame gets the name.
TeachCommit ==
    /\ Idle /\ Is(teach, "commit")
    /\ Put(teach.track, "public", "teach", teach.gen)
    /\ teach' = NoJob
    /\ UNCHANGED <<now, frame, loop, query, recalls, identify>>

TeachFails ==
    /\ Idle /\ Is(teach, "commit")
    /\ teach' = NoJob
    /\ UNCHANGED <<now, frame, loop, overlay, mark, query, recalls, identify>>

Tick ==
    /\ now < MaxTime
    /\ now' = now + 1
    /\ UNCHANGED <<frame, loop, overlay, mark, query, recalls, identify, teach>>

-----------------------------------------------------------------------------
Jobs == {recalls[t][f] : t \in Tracks, f \in Frames} \ {NoJob}

LoopStep ==
    \/ \E t \in Tracks : LookUp(t)
    \/ Register
    \/ Project

Recall ==
    \E job \in Jobs :
      \/ \E result \in Results, fails \in BOOLEAN : RecallCheck(job, result, fails)
      \/ RecallPut(job)
      \/ RecallFinish(job)

Next ==
    \/ \E visible \in SUBSET Tracks, resets, due \in BOOLEAN : Observe(visible, resets, due)
    \/ LoopStep
    \/ \E t \in Tracks, result \in Results :
         \E puts, event \in BOOLEAN : QueryPut(t, result, puts, event)
    \/ QueryEnds
    \/ Recall
    \/ \E result \in Results, timeout \in BOOLEAN : IdentifyEnds(result, timeout)
    \/ \E t \in Tracks : IdentifyStart(t) \/ TeachStart(t)
    \/ TeachCommit \/ TeachFails
    \/ Tick

\* The loop goes on with a frame it has begun, and threads end; frames may stop coming.
Spec == Init /\ [][Next]_vars /\ WF_vars(LoopStep) /\ WF_vars(Recall)

-----------------------------------------------------------------------------
\* The clocks of records and marks are not ahead, marks and jobs are of frames there were.
TypeOK ==
    /\ frame.ref \in 0..MaxFrames /\ frame.gen \in Gens /\ frame.visible \subseteq Tracks
    /\ \A t \in Tracks :
         /\ overlay[t].result \in Results /\ overlay[t].at \in -1..now
         /\ mark[t].frame \in 0..frame.ref /\ mark[t].at \in 0..now
    /\ \A job \in Jobs \cup {identify, teach} : job # NoJob => job.frame \in 1..frame.ref

\* A track is either named or waiting to be, whichever of loop and threads wrote last.
MarkOrName == \A t \in Tracks : HasRecord(t) => ~ HasMark(t)

\* What an answer calls pending is being worked on: the recall of the mark's frame runs,
\* though recalls of other frames of the track end before and after it.
PendingHasItsRecall == \A t \in Tracks : HasMark(t) => recalls[t][mark[t].frame] # NoJob

\* Whatever says "pending" means it: no name is known yet, and somebody looks for one.
PendingIsHonest == TypeOK /\ MarkOrName /\ PendingHasItsRecall

\* However a recall ends, its mark goes.
PendingEnds == \A t \in Tracks : HasMark(t) ~> ~ HasMark(t)

\* identify_current never names a track in the overlay of another generation than the one
\* it looked at, though frames and resets come while it searches.  Its own response does.
IdentifyNamesTheCurrent ==
    \A t \in Tracks : overlay[t].by = "identify" => overlay[t].about = overlay[t].putIn

\* Track ids start anew with a reset and the overlay does not hear of it: an answer may
\* give the name of before to whom it is not, but no longer than Ttl after the reset,
\* unless the name was put late, by one that does not ask (or asked too early).
StaleNamesFade ==
    [][loop.pc = "enrich" /\ loop'.pc = "idle" =>
         \A t \in Tracks :
           \/ overlay'[t].by = "none"
           \/ overlay'[t].about = frame.gen
           \/ now - frame.since <= Ttl
           \/ overlay[t].putIn = frame.gen /\ overlay[t].by \in {"query", "teach", "recall"}]_vars
=============================================================================
