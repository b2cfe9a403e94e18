------------------------ MODULE MemoryOverlayProofs ------------------------
(***************************************************************************)
(* Who is who in the frames of a stream: safety of MemoryOverlay for every *)
(* set of tracks, every number of frames and resets, and every time to     *)
(* live; and of PointedTarget for all pictures.                            *)
(***************************************************************************)
EXTENDS MemoryOverlay, MCPointedTarget, SequenceTheorems, FiniteSetTheorems,
        WellFoundedInduction, TLAPS

Writers == {"query", "recall", "identify", "teach"}
RecordState == [result : Results, at : Int, by : Writers \cup {"none"},
                about : 0..MaxGens, putIn : 0..MaxGens]
MarkState == [frame : 0..MaxFrames, at : Nat]
JobState == [pc : {"none", "search", "put", "done", "commit"}, frame : 0..MaxFrames,
             gen : 0..MaxGens, track : Tracks \cup {0}, left : SUBSET Tracks, result : Results]
FrameState == [ref : 0..MaxFrames, gen : Gens, since : Nat, visible : SUBSET Tracks, at : Nat]
LoopState == [pc : {"idle", "enrich", "register"}, asked : SUBSET Tracks, track : Tracks \cup {0}]

Shapes ==
    /\ now \in Nat
    /\ frame \in FrameState /\ loop \in LoopState
    /\ overlay \in [Tracks -> RecordState] /\ mark \in [Tracks -> MarkState]
    /\ query \in JobState /\ identify \in JobState /\ teach \in JobState
    /\ recalls \in [Tracks -> [Frames -> JobState]]

(* A job that some thread has is of a frame there was.                     *)
JobOf(job, pcs) == job.pc \in pcs /\ job.frame \in 1..frame.ref /\ job.gen \in Gens

JobsHaveFrames ==
    /\ loop.pc # "idle" => frame.ref # 0
    /\ loop.pc = "register" => loop.track \in Tracks
    /\ query = NoJob \/ JobOf(query, {"search"})
    /\ identify = NoJob \/ (JobOf(identify, {"search"}) /\ identify.track \in Tracks)
    /\ teach = NoJob \/ (JobOf(teach, {"commit"}) /\ teach.track \in Tracks)
    /\ \A t \in Tracks, f \in Frames :
         \/ recalls[t][f] = NoJob
         \/ /\ JobOf(recalls[t][f], {"search", "put", "done"})
            /\ recalls[t][f].track = t /\ recalls[t][f].frame = f

(* A record of an earlier generation was put before the reset; an identify *)
(* request that still sees its frame is in the generation of its frame.    *)
InTime ==
    /\ frame.since <= now
    /\ \A t \in Tracks :
         /\ overlay[t].at \in -1..now
         /\ overlay[t].putIn # frame.gen => overlay[t].at <= frame.since
         /\ mark[t].frame <= frame.ref /\ mark[t].at <= now
    /\ identify # NoJob /\ identify.frame = frame.ref => identify.gen = frame.gen

IInv == /\ Shapes /\ JobsHaveFrames /\ InTime
        /\ MarkOrName /\ PendingHasItsRecall /\ IdentifyNamesTheCurrent

-----------------------------------------------------------------------------
(* What a step does to the record and the mark of track t: they stay or    *)
(* go, or a result is put, or a recall of the track is begun.              *)

Fades(t) == overlay'[t] \in {overlay[t], NoRecord} /\ mark'[t] \in {mark[t], NoMark}

IsNamed(t) ==
    /\ overlay'[t].at = now /\ overlay'[t].putIn = frame.gen /\ overlay'[t].by # "none"
    /\ overlay'[t].by = "identify" => overlay'[t].about = frame.gen
    /\ mark'[t] = NoMark

IsAsked(t) ==
    /\ overlay'[t] = NoRecord /\ mark'[t] = NewMark
    /\ frame.ref \in Frames /\ recalls'[t][frame.ref] # NoJob

Changed(ts) ==
    /\ overlay' \in [Tracks -> RecordState] /\ mark' \in [Tracks -> MarkState]
    /\ \A t \in ts : Fades(t) \/ IsNamed(t) \/ IsAsked(t)
    /\ \A t \in Tracks \ ts : Fades(t)

LEMMA NothingChanged ==
  ASSUME Shapes, UNCHANGED <<overlay, mark>>
  PROVE  Changed({})
  BY DEF Shapes, Changed, Fades

LEMMA PutChanges ==
  ASSUME Shapes, NEW t \in Tracks, NEW result \in Results, NEW by \in Writers,
         NEW about \in 0..MaxGens, by = "identify" => about = frame.gen,
         Put(t, result, by, about)
  PROVE  Changed({t})
<1> DEFINE new == [result |-> result, at |-> now, by |-> by, about |-> about, putIn |-> frame.gen]
<1>1. new \in RecordState /\ NoMark \in MarkState
  BY OverlayAssumption DEF Shapes, RecordState, FrameState, Gens, MarkState, NoMark
<1>2. overlay' = [overlay EXCEPT ![t] = new] /\ mark' = [mark EXCEPT ![t] = NoMark]
  BY DEF Put, MarkAfterPut
<1>3. new.at = now /\ new.putIn = frame.gen /\ new.by = by /\ new.about = about /\ by # "none"
  BY DEF Writers
<1> HIDE DEF new
<1>4. overlay' \in [Tracks -> RecordState] /\ mark' \in [Tracks -> MarkState]
  BY <1>1, <1>2 DEF Shapes
<1>5. overlay'[t] = new /\ mark'[t] = NoMark
  BY <1>2 DEF Shapes
<1>6. \A u \in Tracks \ {t} : overlay'[u] = overlay[u] /\ mark'[u] = mark[u]
  BY <1>2 DEF Shapes
<1> QED
  BY <1>3, <1>4, <1>5, <1>6 DEF Changed, IsNamed, Fades

LEMMA PurgeChanges ==
  ASSUME Shapes
  PROVE  /\ \A t \in Tracks : /\ Unexpired[t] \in {overlay[t], NoRecord}
                              /\ UnexpiredMarks[t] \in {mark[t], NoMark}
         /\ NoRecord \in RecordState /\ NoMark \in MarkState
         /\ Unexpired \in [Tracks -> RecordState] /\ UnexpiredMarks \in [Tracks -> MarkState]
<1>1. NoRecord \in RecordState /\ NoMark \in MarkState
  BY OverlayAssumption DEF NoRecord, NoMark, RecordState, MarkState, Results
<1> QED
  BY <1>1 DEF Unexpired, UnexpiredMarks, Shapes

(* The jobs of recalls, each found under its track and its frame.          *)
LEMMA JobsAreFound ==
  ASSUME Shapes, JobsHaveFrames, NEW job \in Jobs
  PROVE  /\ job \in JobState /\ JobOf(job, {"search", "put", "done"})
         /\ job.track \in Tracks /\ job.frame \in Frames /\ recalls[job.track][job.frame] = job
<1>1. PICK t \in Tracks, f \in Frames : job = recalls[t][f] /\ job # NoJob
  BY DEF Jobs
<1> QED
  BY <1>1 DEF Shapes, JobsHaveFrames

LEMMA LookUpChanges ==
  ASSUME Shapes, NEW t \in Tracks, LookUp(t)
  PROVE  Changed({})
  BY PurgeChanges DEF LookUp, Changed, Fades

LEMMA RegisterChanges ==
  ASSUME Shapes, JobsHaveFrames, Register
  PROVE  Changed({loop.track})
<1> DEFINE t == loop.track
           new == [NoJob EXCEPT !.pc = "search", !.frame = frame.ref, !.gen = frame.gen,
                                !.track = t]
<1>1. t \in Tracks /\ frame.ref \in Frames /\ NewMark \in MarkState
  BY OverlayAssumption DEF Register, JobsHaveFrames, Shapes, FrameState, Frames, NewMark,
    MarkState
<1>2. new # NoJob
  BY DEF NoJob
<1>3. overlay' = [overlay EXCEPT ![t] = NoRecord] /\ mark' = [mark EXCEPT ![t] = NewMark]
      /\ recalls' = [recalls EXCEPT ![t][frame.ref] = new]
  BY DEF Register
<1> HIDE DEF t, new
<1>4. recalls'[t][frame.ref] = new
  BY <1>1, <1>3 DEF Shapes
<1> QED
  BY <1>1, <1>2, <1>3, <1>4, PurgeChanges DEF Changed, IsAsked, Fades, Shapes, t

LEMMA ProjectChanges ==
  ASSUME Shapes, Project
  PROVE  Changed({})
  BY PurgeChanges DEF Project, Changed, Fades

LEMMA StepChanges ==
  ASSUME Shapes, JobsHaveFrames, InTime, [Next]_vars
  PROVE  Changed(Tracks)
<1>0. \A ts \in SUBSET Tracks : Changed(ts) => Changed(Tracks)
  BY DEF Changed
<1>1. ASSUME NEW t \in Tracks, LookUp(t) PROVE Changed(Tracks)
  BY <1>0, <1>1, LookUpChanges
<1>2. CASE Register
  BY <1>0, <1>2, RegisterChanges DEF JobsHaveFrames, Register
<1>3. CASE Project
  BY <1>0, <1>3, ProjectChanges
<1>4. ASSUME NEW t \in Tracks, NEW result \in Results, NEW puts \in BOOLEAN, NEW event \in BOOLEAN,
             QueryPut(t, result, puts, event)
      PROVE  Changed(Tracks)
  <2>1. CASE puts
    <3>1. Put(t, result, "query", query.gen)
      BY <1>4, <2>1 DEF QueryPut
    <3>2. query.gen \in 0..MaxGens
      BY DEF Shapes, JobState
    <3> QED
      BY <1>0, <3>1, <3>2, PutChanges DEF Writers
  <2>2. CASE ~ puts
    BY <1>0, <1>4, <2>2, NothingChanged DEF QueryPut, PutNothing
  <2> QED
    BY <2>1, <2>2
<1>5. ASSUME NEW job \in Jobs, RecallPut(job) PROVE Changed(Tracks)
  <2>1. job.track \in Tracks /\ job.result \in Results /\ job.gen \in 0..MaxGens
    BY JobsAreFound DEF JobState
  <2>2. Put(job.track, job.result, "recall", job.gen)
    BY <1>5 DEF RecallPut
  <2> QED
    BY <1>0, <2>1, <2>2, PutChanges DEF Writers
<1>6. ASSUME NEW job \in Jobs, RecallFinish(job) PROVE Changed(Tracks)
  <2>1. overlay' = overlay /\ ClearMark(job.track, job.frame)
    BY <1>6 DEF RecallFinish
  <2>2. mark' \in [Tracks -> MarkState] /\ \A t \in Tracks : mark'[t] \in {mark[t], NoMark}
    BY <2>1, PurgeChanges DEF ClearMark, Shapes
  <2> QED
    BY <2>1, <2>2 DEF Changed, Fades, Shapes
<1>7. ASSUME NEW result \in Results, NEW timeout \in BOOLEAN, IdentifyEnds(result, timeout)
      PROVE  Changed(Tracks)
  <2>1. CASE ~ timeout /\ StillCurrent(identify)
    <3>1. identify # NoJob /\ Put(identify.track, result, "identify", identify.gen)
      BY <1>7, <2>1 DEF IdentifyEnds, Is, NoJob
    <3>2. identify.track \in Tracks /\ identify.gen \in 0..MaxGens /\ identify.gen = frame.gen
      BY <2>1, <3>1 DEF JobsHaveFrames, Shapes, JobState, InTime, StillCurrent
    <3> QED
      BY <1>0, <3>1, <3>2, PutChanges DEF Writers
  <2>2. CASE ~ (~ timeout /\ StillCurrent(identify))
    BY <1>0, <1>7, <2>2, NothingChanged DEF IdentifyEnds, PutNothing
  <2> QED
    BY <2>1, <2>2
<1>8. CASE TeachCommit
  <2>1. teach.track \in Tracks /\ teach.gen \in 0..MaxGens /\ Put(teach.track, "public", "teach", teach.gen)
    BY <1>8 DEF TeachCommit, JobsHaveFrames, Shapes, JobState, Is, NoJob
  <2> QED
    BY <1>0, <2>1, PutChanges DEF Writers, Results
<1>9. CASE UNCHANGED <<overlay, mark>>
  BY <1>0, <1>9, NothingChanged
<1>10. ASSUME NEW job \in Jobs, NEW result \in Results, NEW fails \in BOOLEAN,
              RecallCheck(job, result, fails)
       PROVE  Changed(Tracks)
  BY <1>9, <1>10 DEF RecallCheck
<1>11. CASE \/ \E visible \in SUBSET Tracks, resets, due \in BOOLEAN : Observe(visible, resets, due)
            \/ QueryEnds \/ TeachFails \/ Tick \/ UNCHANGED vars
            \/ \E t \in Tracks : IdentifyStart(t) \/ TeachStart(t)
  BY <1>9, <1>11 DEF Observe, QueryEnds, TeachFails, Tick, vars, IdentifyStart, TeachStart
<1> QED
  BY <1>1, <1>2, <1>3, <1>4, <1>5, <1>6, <1>7, <1>8, <1>10, <1>11 DEF Next, LoopStep, Recall

(* A recall's thread keeps its place until the loop finishes it, and takes *)
(* its mark away with it.                                                  *)
LEMMA RecallsStay ==
  ASSUME Shapes, JobsHaveFrames, [Next]_vars, NEW t \in Tracks, NEW f \in Frames,
         recalls[t][f] # NoJob, mark'[t].frame = f
  PROVE  recalls'[t][f] # NoJob
<1>1. ASSUME NEW u \in Tracks, NEW g \in Frames, NEW next,
             recalls' = [recalls EXCEPT ![u][g] = next], next # NoJob
      PROVE  recalls'[t][f] # NoJob
  BY <1>1 DEF Shapes
<1>2. CASE Register
  <2>1. loop.track \in Tracks /\ frame.ref \in Frames
    BY <1>2, OverlayAssumption DEF Register, JobsHaveFrames, Shapes, FrameState, Frames
  <2>2. [NoJob EXCEPT !.pc = "search", !.frame = frame.ref, !.gen = frame.gen,
                      !.track = loop.track] # NoJob
    BY DEF NoJob
  <2> QED
    BY <1>1, <1>2, <2>1, <2>2 DEF Register
<1>3. ASSUME NEW job \in Jobs, NEW result, NEW fails, RecallCheck(job, result, fails)
      PROVE  recalls'[t][f] # NoJob
  <2> DEFINE next == [job EXCEPT !.pc = AfterCheck(job, fails),
                                 !.result = IF StillCurrent(job) THEN result ELSE "nobody"]
  <2>1. next.pc \in {"put", "done"}
    BY JobsAreFound DEF AfterCheck, JobState
  <2>2. next # NoJob
    BY <2>1 DEF NoJob
  <2>3. recalls' = [recalls EXCEPT ![job.track][job.frame] = next]
    BY <1>3 DEF RecallCheck, RecallStep
  <2> HIDE DEF next
  <2> QED
    BY <1>1, <2>2, <2>3, JobsAreFound
<1>4. ASSUME NEW job \in Jobs, RecallPut(job) PROVE recalls'[t][f] # NoJob
  <2> DEFINE next == [job EXCEPT !.pc = "done", !.result = "nobody"]
  <2>1. next.pc = "done"
    BY JobsAreFound DEF JobState
  <2>2. next # NoJob
    BY <2>1 DEF NoJob
  <2>3. recalls' = [recalls EXCEPT ![job.track][job.frame] = next]
    BY <1>4 DEF RecallPut, RecallStep
  <2> HIDE DEF next
  <2> QED
    BY <1>1, <2>2, <2>3, JobsAreFound
<1>5. ASSUME NEW job \in Jobs, RecallFinish(job) PROVE recalls'[t][f] # NoJob
  <2>1. /\ job.track \in Tracks /\ job.frame \in Frames
        /\ ClearMark(job.track, job.frame)
        /\ recalls' = [recalls EXCEPT ![job.track][job.frame] = NoJob]
    BY <1>5, JobsAreFound DEF RecallFinish, RecallStep
  <2>2. CASE job.track = t /\ job.frame = f
    <3>1. mark[t].frame = f => mark'[t].frame = 0
      BY <2>1, <2>2 DEF ClearMark, IsHisMark, Shapes, NoMark
    <3>2. mark[t].frame # f => mark'[t] = mark[t]
      BY <2>1, <2>2 DEF ClearMark, IsHisMark, Shapes
    <3> QED
      BY <3>1, <3>2 DEF Frames
  <2>3. CASE ~ (job.track = t /\ job.frame = f)
    BY <2>1, <2>3 DEF Shapes
  <2> QED
    BY <2>2, <2>3
<1>6. CASE UNCHANGED recalls
  BY <1>6
<1>7. CASE \/ \E visible \in SUBSET Tracks, resets, due \in BOOLEAN : Observe(visible, resets, due)
           \/ \E u \in Tracks : LookUp(u) \/ IdentifyStart(u) \/ TeachStart(u)
           \/ \E u \in Tracks, result \in Results, puts, event \in BOOLEAN :
                 QueryPut(u, result, puts, event)
           \/ \E result \in Results, timeout \in BOOLEAN : IdentifyEnds(result, timeout)
           \/ Project \/ QueryEnds \/ TeachCommit \/ TeachFails \/ Tick \/ UNCHANGED vars
  BY <1>6, <1>7 DEF Observe, LookUp, IdentifyStart, TeachStart, QueryPut, IdentifyEnds, Project,
                    QueryEnds, TeachCommit, TeachFails, Tick, vars
<1> QED
  BY <1>2, <1>3, <1>4, <1>5, <1>7 DEF Next, LoopStep, Recall

-----------------------------------------------------------------------------
(* The invariant                                                           *)

LEMMA InitIInv == Init => IInv
<1> SUFFICES ASSUME Init PROVE IInv
  OBVIOUS
<1> USE OverlayAssumption DEF Init
<1>1. NoJob \in JobState
  BY DEF NoJob, JobState, Results
<1>2. Shapes
  BY <1>1, PurgeChanges
     DEF Shapes, FrameState, LoopState, Gens, NoRecord, NoMark, RecordState, MarkState, Results
<1>3. JobsHaveFrames
  BY DEF JobsHaveFrames
<1>4. InTime
  BY DEF InTime, NoRecord, NoMark
<1>5. MarkOrName /\ PendingHasItsRecall /\ IdentifyNamesTheCurrent
  BY DEF MarkOrName, PendingHasItsRecall, IdentifyNamesTheCurrent, HasMark, HasRecord,
    NoMark, NoRecord
<1> QED
  BY <1>2, <1>3, <1>4, <1>5 DEF IInv

(* Each field of a job, by its step.                                       *)
LEMMA RecallsMove ==
  ASSUME Shapes, JobsHaveFrames, NEW job \in Jobs, NEW next, RecallStep(job, next),
         \/ next = NoJob
         \/ /\ next \in JobState /\ next.pc \in {"put", "done"}
            /\ next.track = job.track /\ next.frame = job.frame /\ next.gen = job.gen,
         frame'.ref = frame.ref
  PROVE  /\ recalls' \in [Tracks -> [Frames -> JobState]]
         /\ \A t \in Tracks, f \in Frames :
              \/ recalls'[t][f] = NoJob
              \/ /\ JobOf(recalls'[t][f], {"search", "put", "done"})
                 /\ recalls'[t][f].track = t /\ recalls'[t][f].frame = f
<1>1. /\ job \in JobState /\ JobOf(job, {"search", "put", "done"})
      /\ job.track \in Tracks /\ job.frame \in Frames
  BY JobsAreFound
<1>2. NoJob \in JobState
  BY OverlayAssumption DEF NoJob, JobState, Results
<1>3. next \in JobState /\ recalls' = [recalls EXCEPT ![job.track][job.frame] = next]
  BY <1>2 DEF RecallStep
<1>4. recalls' \in [Tracks -> [Frames -> JobState]]
  BY <1>1, <1>3 DEF Shapes
<1>5. ASSUME NEW t \in Tracks, NEW f \in Frames
      PROVE  recalls'[t][f] = IF t = job.track /\ f = job.frame THEN next ELSE recalls[t][f]
  BY <1>1, <1>3 DEF Shapes
<1> QED
  BY <1>1, <1>4, <1>5 DEF JobsHaveFrames, JobOf

LEMMA NewJobs ==
  ASSUME Shapes, NEW pc \in {"search", "commit"}, NEW t \in Tracks, frame.ref # 0
  PROVE  LET new == [NoJob EXCEPT !.pc = pc, !.frame = frame.ref, !.gen = frame.gen, !.track = t]
         IN  new \in JobState /\ JobOf(new, {pc}) /\ new.track = t /\ new.frame = frame.ref
             /\ new.gen = frame.gen
<1> DEFINE new == [NoJob EXCEPT !.pc = pc, !.frame = frame.ref, !.gen = frame.gen, !.track = t]
<1>1. /\ new.pc = pc /\ new.frame = frame.ref /\ new.gen = frame.gen /\ new.track = t
      /\ new \in [pc : {pc}, frame : {frame.ref}, gen : {frame.gen}, track : {t}, left : {{}},
                 result : {"nobody"}]
  BY DEF NoJob
<1>2. frame.ref \in 1..MaxFrames /\ frame.gen \in 1..MaxGens
  BY OverlayAssumption DEF Shapes, FrameState, Gens
<1> HIDE DEF new
<1>3. new \in JobState
  BY <1>1, <1>2, OverlayAssumption DEF JobState, Results
<1>4. JobOf(new, {pc})
  BY <1>1, <1>2, OverlayAssumption DEF JobOf, Gens
<1> QED
  BY <1>1, <1>3, <1>4 DEF new

LEMMA ShapesStep == IInv /\ [Next]_vars => Shapes' /\ JobsHaveFrames'
<1> SUFFICES ASSUME Shapes, JobsHaveFrames, InTime, [Next]_vars PROVE Shapes' /\ JobsHaveFrames'
  BY DEF IInv
<1>0. NoJob \in JobState
  BY OverlayAssumption DEF NoJob, JobState, Results
<1>w. overlay' \in [Tracks -> RecordState] /\ mark' \in [Tracks -> MarkState]
  BY StepChanges DEF Changed
<1>1. ASSUME NEW visible \in SUBSET Tracks, NEW resets \in BOOLEAN, NEW due \in BOOLEAN,
             Observe(visible, resets, due)
      PROVE  Shapes' /\ JobsHaveFrames'
  <2>1. /\ frame' \in FrameState /\ frame'.ref = frame.ref + 1 /\ frame'.gen \in Gens
        /\ loop' \in LoopState /\ loop'.pc = "enrich" /\ frame.ref \in Nat
    BY <1>1, OverlayAssumption DEF Observe, Shapes, FrameState, LoopState
  <2>2. ASSUME NEW job, NEW pcs, JobOf(job, pcs) PROVE JobOf(job, pcs)'
    BY <2>1, <2>2 DEF JobOf
  <2>3. query' \in JobState /\ (query' = NoJob \/ JobOf(query, {"search"})')
    <3> DEFINE new == [NoJob EXCEPT !.pc = "search", !.frame = frame'.ref, !.gen = frame'.gen,
                                    !.left = visible]
    <3>1. query' = query \/ query' = new
      BY <1>1 DEF Observe
    <3>2. /\ new.pc = "search" /\ new.frame = frame'.ref /\ new.gen = frame'.gen
          /\ new \in [pc : {"search"}, frame : {frame'.ref}, gen : {frame'.gen}, track : {0},
                     left : {visible}, result : {"nobody"}]
      BY DEF NoJob
    <3>3. frame'.ref \in 1..MaxFrames /\ frame'.gen \in 1..MaxGens
      BY <2>1, OverlayAssumption DEF FrameState, Gens
    <3> HIDE DEF new
    <3>4. new \in JobState
      BY <3>2, <3>3, OverlayAssumption DEF JobState, Results
    <3>5. new.pc = "search" /\ new.frame \in 1..frame'.ref /\ new.gen \in Gens
      BY <3>2, <3>3 DEF Gens
    <3>6. CASE query' = new
      BY <3>4, <3>5, <3>6 DEF JobOf
    <3>7. CASE query' = query
      BY <2>2, <3>7 DEF Shapes, JobsHaveFrames
    <3> QED
      BY <3>1, <3>6, <3>7
  <2>4. UNCHANGED <<now, overlay, mark, recalls, identify, teach>>
    BY <1>1 DEF Observe
  <2> QED
    BY <2>1, <2>2, <2>3, <2>4 DEF Shapes, JobsHaveFrames, JobOf
<1>2. ASSUME NEW t \in Tracks, LookUp(t) PROVE Shapes' /\ JobsHaveFrames'
  <2>1. loop' \in LoopState /\ (loop'.pc = "register" => loop'.track \in Tracks)
        /\ loop.pc # "idle"
    BY <1>2 DEF LookUp, Shapes, LoopState
  <2> QED
    BY <1>w, <1>2, <2>1 DEF LookUp, Shapes, JobsHaveFrames, JobOf
<1>3. CASE Register
  <2> DEFINE new == [NoJob EXCEPT !.pc = "search", !.frame = frame.ref, !.gen = frame.gen,
                                  !.track = loop.track]
  <2>1. loop.track \in Tracks /\ frame.ref # 0 /\ frame.ref \in Frames
    BY <1>3, OverlayAssumption DEF Register, JobsHaveFrames, Shapes, FrameState, Frames
  <2>2. new \in JobState /\ JobOf(new, {"search"}) /\ new.track = loop.track /\ new.frame = frame.ref
    BY <2>1, NewJobs
  <2>3. /\ recalls' = [recalls EXCEPT ![loop.track][frame.ref] = new]
        /\ UNCHANGED <<now, frame, query, identify, teach>>
        /\ loop' \in LoopState /\ loop'.pc = "enrich"
    BY <1>3 DEF Register, Shapes, LoopState
  <2> HIDE DEF new
  <2>4. recalls' \in [Tracks -> [Frames -> JobState]]
    BY <2>1, <2>2, <2>3 DEF Shapes
  <2>5. \A t \in Tracks, f \in Frames :
          recalls'[t][f] = IF t = loop.track /\ f = frame.ref THEN new ELSE recalls[t][f]
    BY <2>1, <2>3 DEF Shapes
  <2> QED
    BY <1>w, <2>1, <2>2, <2>3, <2>4, <2>5 DEF Shapes, JobsHaveFrames, JobOf
<1>4. CASE Project
  <2>1. loop' \in LoopState /\ loop'.pc = "idle"
    BY <1>4 DEF Project, LoopState
  <2> QED
    BY <1>w, <1>4, <2>1 DEF Project, Shapes, JobsHaveFrames, JobOf
<1>5. ASSUME NEW t \in Tracks, NEW result \in Results, NEW puts \in BOOLEAN, NEW event \in BOOLEAN,
             QueryPut(t, result, puts, event)
      PROVE  Shapes' /\ JobsHaveFrames'
  <2>1. query' \in JobState /\ (query' = NoJob \/ JobOf(query', {"search"}))
    BY <1>0, <1>5 DEF QueryPut, Is, NoJob, JobsHaveFrames, Shapes, JobState, JobOf
  <2> QED
    BY <1>w, <1>5, <2>1 DEF QueryPut, Shapes, JobsHaveFrames, JobOf
<1>6. ASSUME NEW job \in Jobs, NEW result \in Results, NEW fails \in BOOLEAN,
             RecallCheck(job, result, fails)
      PROVE  Shapes' /\ JobsHaveFrames'
  <2> DEFINE next == [job EXCEPT !.pc = AfterCheck(job, fails),
                                 !.result = IF StillCurrent(job) THEN result ELSE "nobody"]
  <2>1. /\ next \in JobState /\ next.pc \in {"put", "done"}
        /\ next.track = job.track /\ next.frame = job.frame /\ next.gen = job.gen
    <3>1. job \in JobState /\ AfterCheck(job, fails) \in {"put", "done"}
      BY JobsAreFound DEF AfterCheck
    <3> QED
      BY <3>1 DEF JobState, Results
  <2>2. RecallStep(job, next) /\ UNCHANGED <<now, frame, loop, query, identify, teach>>
    BY <1>6 DEF RecallCheck
  <2> HIDE DEF next
  <2> QED
    BY <1>w, <2>1, <2>2, RecallsMove DEF Shapes, JobsHaveFrames, JobOf
<1>7. ASSUME NEW job \in Jobs, RecallPut(job) PROVE Shapes' /\ JobsHaveFrames'
  <2> DEFINE next == [job EXCEPT !.pc = "done", !.result = "nobody"]
  <2>1. /\ next \in JobState /\ next.pc \in {"put", "done"}
        /\ next.track = job.track /\ next.frame = job.frame /\ next.gen = job.gen
    <3>1. job \in JobState
      BY JobsAreFound
    <3> QED
      BY <3>1 DEF JobState, Results
  <2>2. RecallStep(job, next) /\ UNCHANGED <<now, frame, loop, query, identify, teach>>
    BY <1>7 DEF RecallPut
  <2> HIDE DEF next
  <2> QED
    BY <1>w, <2>1, <2>2, RecallsMove DEF Shapes, JobsHaveFrames, JobOf
<1>8. ASSUME NEW job \in Jobs, RecallFinish(job) PROVE Shapes' /\ JobsHaveFrames'
  <2>1. RecallStep(job, NoJob) /\ UNCHANGED <<now, frame, loop, query, identify, teach>>
    BY <1>8 DEF RecallFinish
  <2> QED
    BY <1>w, <2>1, RecallsMove DEF Shapes, JobsHaveFrames, JobOf
<1>9. ASSUME NEW t \in Tracks, IdentifyStart(t) \/ TeachStart(t) PROVE Shapes' /\ JobsHaveFrames'
  <2>1. frame.ref # 0
    BY <1>9 DEF IdentifyStart, TeachStart, Fresh
  <2>2. \/ /\ identify' \in JobState /\ JobOf(identify', {"search"}) /\ identify'.track = t
           /\ UNCHANGED teach
        \/ /\ teach' \in JobState /\ JobOf(teach', {"commit"}) /\ teach'.track = t
           /\ UNCHANGED identify
    BY <1>9, <2>1, NewJobs DEF IdentifyStart, TeachStart
  <2>3. UNCHANGED <<now, frame, loop, overlay, mark, query, recalls>>
    BY <1>9 DEF IdentifyStart, TeachStart
  <2> QED
    BY <2>2, <2>3 DEF Shapes, JobsHaveFrames, JobOf
<1>10. CASE \/ QueryEnds \/ TeachCommit \/ TeachFails \/ Tick \/ UNCHANGED vars
            \/ \E result \in Results, timeout \in BOOLEAN : IdentifyEnds(result, timeout)
  <2>1. /\ UNCHANGED <<frame, loop, recalls>> /\ now' \in Nat
        /\ query' \in {query, NoJob} /\ identify' \in {identify, NoJob} /\ teach' \in {teach, NoJob}
    BY <1>10 DEF QueryEnds, TeachCommit, TeachFails, Tick, IdentifyEnds, vars, Shapes
  <2> QED
    BY <1>0, <1>w, <2>1 DEF Shapes, JobsHaveFrames, JobOf
<1> QED
  BY <1>1, <1>2, <1>3, <1>4, <1>5, <1>6, <1>7, <1>8, <1>9, <1>10 DEF Next, LoopStep, Recall

(* Time, frames and generations only go on; a new frame changes no record. *)
LEMMA TimeGoesOn ==
  ASSUME Shapes, JobsHaveFrames, InTime, [Next]_vars
  PROVE  /\ now' >= now
         /\ \/ UNCHANGED frame
            \/ /\ UNCHANGED <<now, overlay, mark, identify>>
               /\ frame'.ref > frame.ref
               /\ frame'.gen = frame.gen => frame'.since = frame.since
               /\ frame'.gen # frame.gen => frame'.since = now
         /\ \/ identify' \in {identify, NoJob}
            \/ UNCHANGED frame /\ identify'.gen = frame.gen
<1>1. now \in Nat /\ frame.ref \in Nat /\ frame.gen \in Nat
  BY OverlayAssumption DEF Shapes, FrameState, Gens
<1>2. ASSUME NEW visible, NEW resets, NEW due, Observe(visible, resets, due)
      PROVE  /\ UNCHANGED <<now, overlay, mark, identify>>
             /\ frame'.ref > frame.ref
             /\ frame'.gen = frame.gen => frame'.since = frame.since
             /\ frame'.gen # frame.gen => frame'.since = now
  BY <1>1, <1>2 DEF Observe
<1>3. ASSUME NEW t \in Tracks, IdentifyStart(t)
      PROVE  UNCHANGED <<now, frame>> /\ identify'.gen = frame.gen
  BY <1>3, NewJobs DEF IdentifyStart, Fresh
<1>4. CASE \/ LoopStep \/ Recall \/ QueryEnds \/ TeachCommit \/ TeachFails \/ UNCHANGED vars
           \/ \E t \in Tracks, result \in Results, puts, event \in BOOLEAN :
                 QueryPut(t, result, puts, event)
           \/ \E result \in Results, timeout \in BOOLEAN : IdentifyEnds(result, timeout)
           \/ \E t \in Tracks : TeachStart(t)
  <2>1. UNCHANGED <<now, frame>> /\ identify' \in {identify, NoJob}
    BY <1>4 DEF LoopStep, Recall, QueryEnds, TeachCommit, TeachFails, vars, QueryPut,
      IdentifyEnds,
                TeachStart, LookUp, Register, Project, RecallCheck, RecallPut, RecallFinish
  <2> QED
    BY <1>1, <2>1
<1>5. CASE Tick
  BY <1>1, <1>5 DEF Tick
<1> QED
  BY <1>1, <1>2, <1>3, <1>4, <1>5 DEF Next

LEMMA TimeStep == IInv /\ [Next]_vars => InTime'
<1> SUFFICES ASSUME Shapes, Shapes', JobsHaveFrames, InTime, [Next]_vars PROVE InTime'
  BY ShapesStep DEF IInv
<1>1. /\ now \in Nat /\ now' \in Nat /\ now' >= now
      /\ frame.ref \in Nat /\ frame'.ref \in Nat /\ frame.gen \in Nat /\ frame'.gen \in Nat
      /\ frame.since \in Nat /\ frame'.since \in Nat /\ frame.since <= now
  BY OverlayAssumption, TimeGoesOn DEF Shapes, FrameState, Gens, InTime
<1>2. frame'.since <= now'
  BY <1>1, TimeGoesOn
<1>3. ASSUME NEW t \in Tracks
      PROVE  /\ overlay'[t].at \in -1..now'
             /\ overlay'[t].putIn # frame'.gen => overlay'[t].at <= frame'.since
             /\ mark'[t].frame <= frame'.ref /\ mark'[t].at <= now'
  <2>0. /\ overlay[t].at \in Int /\ -1 <= overlay[t].at /\ overlay[t].at <= now
        /\ overlay[t].putIn # frame.gen => overlay[t].at <= frame.since
        /\ mark[t].frame \in Nat /\ mark[t].frame <= frame.ref
        /\ mark[t].at \in Nat /\ mark[t].at <= now
    BY OverlayAssumption DEF InTime, Shapes, RecordState, MarkState
  <2>1. CASE UNCHANGED <<now, overlay, mark>> /\ frame'.ref > frame.ref
             /\ (frame'.gen = frame.gen => frame'.since = frame.since)
             /\ (frame'.gen # frame.gen => frame'.since = now)
    BY <1>1, <2>0, <2>1
  <2>2. CASE UNCHANGED frame
    <3>1. CASE Fades(t)
      <4>1. \/ overlay'[t] = overlay[t]
            \/ overlay'[t].at = -1
        BY <3>1 DEF Fades, NoRecord
      <4>2. \/ mark'[t] = mark[t]
            \/ mark'[t].at = 0 /\ mark'[t].frame = 0
        BY <3>1 DEF Fades, NoMark
      <4> QED
        BY <1>1, <2>0, <2>2, <4>1, <4>2
    <3>2. CASE IsNamed(t)
      <4>1. overlay'[t].at = now /\ overlay'[t].putIn = frame.gen
            /\ mark'[t].at = 0 /\ mark'[t].frame = 0
        BY <3>2 DEF IsNamed, NoMark
      <4> QED
        BY <1>1, <2>2, <4>1
    <3>3. CASE IsAsked(t)
      <4>1. overlay'[t].at = -1 /\ mark'[t].at = now /\ mark'[t].frame = frame.ref
        BY <3>3 DEF IsAsked, NewMark, NoRecord
      <4> QED
        BY <1>1, <2>2, <4>1
    <3> QED
      BY <3>1, <3>2, <3>3, StepChanges DEF Changed
  <2> QED
    BY <2>1, <2>2, TimeGoesOn
<1>4. identify' # NoJob /\ identify'.frame = frame'.ref => identify'.gen = frame'.gen
  <2>1. CASE UNCHANGED frame
    BY <2>1, TimeGoesOn DEF InTime
  <2>2. CASE UNCHANGED identify /\ frame'.ref > frame.ref
    <3>1. identify # NoJob => identify.frame \in 1..frame.ref
      BY DEF JobsHaveFrames, JobOf
    <3> QED
      BY <1>1, <2>2, <3>1
  <2> QED
    BY <2>1, <2>2, TimeGoesOn
<1> QED
  BY <1>2, <1>3, <1>4 DEF InTime

LEMMA NamesStep ==
    IInv /\ [Next]_vars => MarkOrName' /\ PendingHasItsRecall' /\ IdentifyNamesTheCurrent'
<1> SUFFICES ASSUME IInv, [Next]_vars, NEW t \in Tracks
             PROVE  /\ overlay'[t].by # "none" => mark'[t].frame = 0
                    /\ mark'[t].frame # 0 => recalls'[t][mark'[t].frame] # NoJob
                    /\ overlay'[t].by = "identify" => overlay'[t].about = overlay'[t].putIn
  BY DEF MarkOrName, PendingHasItsRecall, IdentifyNamesTheCurrent, HasRecord, HasMark
<1>0. /\ Shapes /\ JobsHaveFrames /\ InTime
      /\ overlay[t].by # "none" => mark[t].frame = 0
      /\ mark[t].frame # 0 => recalls[t][mark[t].frame] # NoJob
      /\ overlay[t].by = "identify" => overlay[t].about = overlay[t].putIn
  BY DEF IInv, MarkOrName, PendingHasItsRecall, IdentifyNamesTheCurrent, HasRecord, HasMark
<1>1. CASE Fades(t)
  <2>1. overlay'[t] = overlay[t] \/ overlay'[t].by = "none"
    BY <1>1 DEF Fades, NoRecord
  <2>2. mark'[t] = mark[t] \/ mark'[t].frame = 0
    BY <1>1 DEF Fades, NoMark
  <2>3. mark[t].frame # 0 => mark[t].frame \in Frames
    BY <1>0, OverlayAssumption DEF Shapes, MarkState, Frames
  <2> QED
    BY <1>0, <2>1, <2>2, <2>3, RecallsStay
<1>2. CASE IsNamed(t)
  BY <1>2 DEF IsNamed, NoMark
<1>3. CASE IsAsked(t)
  <2>1. overlay'[t].by = "none" /\ mark'[t].frame = frame.ref /\ recalls'[t][frame.ref] # NoJob
    BY <1>3 DEF IsAsked, NoRecord, NewMark
  <2> QED
    BY <2>1
<1> QED
  BY <1>0, <1>1, <1>2, <1>3, StepChanges DEF Changed

THEOREM OverlayInvariance == Spec => []IInv
<1>1. IInv /\ [Next]_vars => IInv'
  BY ShapesStep, TimeStep, NamesStep DEF IInv
<1> QED
  BY InitIInv, <1>1, PTL DEF Spec

(* What an answer calls pending has no name yet and is being looked up:    *)
(* the recall that the mark stands for has not ended, whatever recalls of  *)
(* other frames, queries and requests did to the track meanwhile           *)
(* (register_pending, clear_pending, put_known_person).                     *)
THEOREM PendingMeansIt == Spec => []PendingIsHonest
<1>1. IInv => PendingIsHonest
  <2> SUFFICES ASSUME Shapes, JobsHaveFrames, InTime, MarkOrName, PendingHasItsRecall
               PROVE  PendingIsHonest
    BY DEF IInv
  <2>1. frame.ref \in 0..MaxFrames /\ frame.gen \in Gens /\ frame.visible \subseteq Tracks
    BY DEF Shapes, FrameState
  <2>2. ASSUME NEW t \in Tracks
        PROVE  /\ overlay[t].result \in Results /\ overlay[t].at \in -1..now
               /\ mark[t].frame \in 0..frame.ref /\ mark[t].at \in 0..now
    BY OverlayAssumption DEF Shapes, InTime, RecordState, MarkState, FrameState
  <2>3. ASSUME NEW job \in Jobs \cup {identify, teach}, job # NoJob PROVE job.frame \in 1..frame.ref
    BY <2>3, JobsAreFound DEF JobsHaveFrames, JobOf
  <2>4. TypeOK
    BY <2>1, <2>2, <2>3 DEF TypeOK
  <2> QED
    BY <2>4 DEF PendingIsHonest
<1> QED
  BY OverlayInvariance, <1>1, PTL

(* identify_current puts no name into the overlay for a track of another   *)
(* generation than the one it searched in                                  *)
(* (_put_identity_overlay_result_for_current_frame).                       *)
THEOREM IdentifyIsCurrent == Spec => []IdentifyNamesTheCurrent
<1>1. IInv => IdentifyNamesTheCurrent
  BY DEF IInv
<1> QED
  BY OverlayInvariance, <1>1, PTL

(* The overlay does not hear of the tracker's reset, but a name of before  *)
(* is in no answer later than its time to live after the reset, unless it  *)
(* was put late by one that does not ask, or asked too early (project).    *)
THEOREM NamesOfBeforeFade == Spec => StaleNamesFade
<1> DEFINE Fading(t) ==
             \/ overlay'[t].by = "none"
             \/ overlay'[t].about = frame.gen
             \/ now - frame.since <= Ttl
             \/ overlay[t].putIn = frame.gen /\ overlay[t].by \in {"query", "teach", "recall"}
           AllFade == loop.pc = "enrich" /\ loop'.pc = "idle" => \A t \in Tracks : Fading(t)
<1>1. ASSUME IInv, [Next]_vars, loop.pc = "enrich", loop'.pc = "idle", NEW t \in Tracks
      PROVE  Fading(t)
  <2>0. /\ Shapes /\ JobsHaveFrames /\ InTime
        /\ overlay[t].by = "identify" => overlay[t].about = overlay[t].putIn
    BY <1>1 DEF IInv, IdentifyNamesTheCurrent
  <2>1. Project
    <3>1. ASSUME NEW u \in Tracks, LookUp(u) PROVE FALSE
      BY <1>1, <2>0, <3>1 DEF LookUp, Shapes, LoopState
    <3>2. ASSUME NEW visible, NEW resets, NEW due, Observe(visible, resets, due) PROVE FALSE
      BY <1>1, <3>2 DEF Observe, Idle
    <3>3. ~ Register
      BY <1>1 DEF Register
    <3>4. ~ UNCHANGED loop
      BY <1>1
    <3> QED
      BY <1>1, <3>1, <3>2, <3>3, <3>4
         DEF Next, vars, LoopStep, QueryPut, QueryEnds, Recall, RecallCheck, RecallPut, RecallFinish,
             IdentifyEnds, IdentifyStart, TeachStart, TeachCommit, TeachFails, Tick
  <2>2. \/ overlay'[t].by = "none"
        \/ overlay'[t] = overlay[t] /\ overlay[t].by # "none" /\ now - overlay[t].at <= Ttl
    BY <2>0, <2>1, OverlayAssumption
       DEF Project, Unexpired, NoRecord, HasRecord, Expired, Shapes, RecordState
  <2>3. overlay[t].by \in Writers \cup {"none"}
    BY <2>0 DEF Shapes, RecordState
  <2>4. overlay[t].putIn # frame.gen /\ now - overlay[t].at <= Ttl => now - frame.since <= Ttl
    BY <2>0, OverlayAssumption DEF InTime, Shapes, RecordState, FrameState
  <2> QED
    BY <2>0, <2>2, <2>3, <2>4 DEF Writers
<1>2. IInv /\ [Next]_vars => [AllFade]_vars
  BY <1>1
<1> QED
  BY OverlayInvariance, <1>2, PTL DEF Spec, StaleNamesFade

-----------------------------------------------------------------------------
(* Whom a request means: the window                                        *)

Several(S) == \E i, j \in S : i # j

LEMMA TwoAtLeast ==
  ASSUME NEW S, IsFiniteSet(S)
  PROVE  Cardinality(S) >= 2 <=> Several(S)
<1>1. Cardinality(S) \in Nat
  BY FS_CardinalityType
<1>2. ASSUME Cardinality(S) >= 2 PROVE \E i, j \in S : i # j
  <2>1. PICK i \in S : TRUE
    BY <1>1, <1>2, FS_EmptySet
  <2>2. IsFiniteSet(S \ {i}) /\ Cardinality(S \ {i}) = Cardinality(S) - 1
    BY FS_RemoveElement
  <2>3. S \ {i} # {}
    BY <1>1, <1>2, <2>2, FS_EmptySet
  <2> QED
    BY <2>3
<1>3. ASSUME NEW i \in S, NEW j \in S, i # j PROVE Cardinality(S) >= 2
  <2>1. IsFiniteSet(S \ {i}) /\ Cardinality(S \ {i}) = Cardinality(S) - 1
    BY FS_RemoveElement
  <2>2. Cardinality((S \ {i}) \ {j}) = Cardinality(S \ {i}) - 1 /\ IsFiniteSet((S \ {i}) \ {j})
    BY <1>3, <2>1, FS_RemoveElement
  <2>3. Cardinality((S \ {i}) \ {j}) \in Nat
    BY <2>2, FS_CardinalityType
  <2> QED
    BY <1>1, <2>1, <2>2, <2>3
<1> QED
  BY <1>2, <1>3 DEF Several

LEMMA UpToThree ==
  ASSUME NEW S \in SUBSET {1, 2, 3}
  PROVE  IsFiniteSet(S) /\ (S # {} => Min(S) \in {1, 2, 3})
<1>1. IsFiniteSet(S)
  <2>1. S \in SUBSET Nat /\ \A s \in S : s <= 3
    OBVIOUS
  <2> QED
    BY <2>1, FS_BoundedSetOfNaturals
<1>2. ASSUME S # {} PROVE \E x \in S : \A y \in S : x <= y
  <2>1. CASE 1 \in S
    BY <2>1
  <2>2. CASE 1 \notin S /\ 2 \in S
    BY <2>2
  <2>3. CASE 1 \notin S /\ 2 \notin S
    <3>1. S = {3}
      BY <1>2, <2>3
    <3> QED
      BY <3>1
  <2> QED
    BY <2>1, <2>2, <2>3
<1>3. S # {} => Min(S) \in S
  BY <1>2 DEF Min
<1> QED
  BY <1>1, <1>3

(* In a window of three frames nobody but one can be engaged twice.        *)
LEMMA StableTrackIs ==
  ASSUME NEW seen \in SUBSET {1, 2, 3}
  PROVE  /\ StableTrack(seen) # None =>
              /\ StableTrack(seen) \in TrackIds
              /\ Several(EngagedIn(seen, StableTrack(seen)))
         /\ \A t \in TrackIds : Several(EngagedIn(seen, t)) => StableTrack(seen) = t
<1> DEFINE often == {t \in TrackIds : Cardinality(EngagedIn(seen, t)) >= Required}
           Before(t, u) ==
             LET n == Cardinality(EngagedIn(seen, t))
                 m == Cardinality(EngagedIn(seen, u))
             IN n > m \/ (n = m /\ Min(EngagedIn(seen, t)) <= Min(EngagedIn(seen, u)))
<1>1. \A t : EngagedIn(seen, t) \in SUBSET {1, 2, 3}
  BY DEF EngagedIn
<1>2. ASSUME NEW t PROVE t \in often <=> t \in TrackIds /\ Several(EngagedIn(seen, t))
  <2>1. IsFiniteSet(EngagedIn(seen, t))
    BY <1>1, UpToThree
  <2> QED
    BY <2>1, TwoAtLeast DEF Required
<1>3. ASSUME NEW t \in often, NEW u \in often PROVE t = u
  <2>1. PICK i, j \in EngagedIn(seen, t) : i # j
    BY <1>2 DEF Several
  <2>2. PICK k, l \in EngagedIn(seen, u) : k # l
    BY <1>2 DEF Several
  <2>3. i \in {1, 2, 3} /\ j \in {1, 2, 3} /\ k \in {1, 2, 3} /\ l \in {1, 2, 3}
    BY <1>1
  <2>4. i = k \/ i = l \/ j = k \/ j = l
    BY <2>1, <2>2, <2>3
  <2> QED
    BY <2>4 DEF EngagedIn
<1>4. ASSUME NEW t \in often PROVE StableTrack(seen) = t
  <2>1. EngagedIn(seen, t) # {}
    BY <1>2 DEF Several
  <2>2. Min(EngagedIn(seen, t)) \in {1, 2, 3}
    BY <1>1, <2>1, UpToThree
  <2>3. Before(t, t)
    BY <2>2
  <2>4. StableTrack(seen) = CHOOSE v \in often : \A u \in often : Before(v, u)
    BY <1>4 DEF StableTrack
  <2> HIDE DEF often, Before
  <2> QED
    BY <1>3, <2>3, <2>4
<1>5. often = {} => StableTrack(seen) = None
  BY DEF StableTrack
<1> HIDE DEF often
<1> QED
  BY <1>2, <1>4, <1>5

Poses == {Reading(p).pose : p \in Pictures}
FramesSeen == [at : Int, engaged : TrackIds \cup {None}, pose : Poses]

PointedIInv ==
    /\ window \in Seq(FramesSeen)
    /\ \A i \in DOMAIN window : window[i].at <= clock
    /\ WindowStands

(* The frames seen are the newest ones.                                    *)
LEMMA NewestIsSeen ==
  ASSUME PointedIInv
  PROVE  /\ clock \in Int /\ Len(window) \in {0, 1, 2, 3} /\ DOMAIN window = 1..Len(window)
         /\ Seen \in SUBSET {1, 2, 3} /\ Seen \subseteq 1..Len(window)
         /\ \A i \in DOMAIN window : window[i] \in FramesSeen
         /\ \A i \in Seen : \A j \in 1..Len(window) : i <= j => j \in Seen
         /\ Seen # {} => Len(window) \in Seen /\ Max(Seen) = Len(window)
<1>1. Len(window) \in {0, 1, 2, 3} /\ DOMAIN window = 1..Len(window)
  <2>1. window \in Seq(FramesSeen)
    BY DEF PointedIInv
  <2>2. Len(window) <= 3
    BY DEF PointedIInv, WindowStands
  <2>3. Len(window) \in Nat /\ DOMAIN window = 1..Len(window)
    BY <2>1
  <2> QED
    BY <2>2, <2>3
<1>2. \A i \in DOMAIN window : window[i] \in FramesSeen
  BY DEF PointedIInv
<1>3. clock \in Int
  BY PointedAssumption DEF PointedIInv, WindowStands
<1>4. Seen \subseteq 1..Len(window) /\ Seen \in SUBSET {1, 2, 3}
  BY <1>1 DEF Seen
<1>5. ASSUME NEW i \in Seen, NEW j \in 1..Len(window), i <= j PROVE j \in Seen
  <2>1. window[i].at <= window[j].at
    <3>1. CASE i = j
      BY <1>1, <1>2, <1>5, <3>1 DEF FramesSeen
    <3>2. CASE i < j
      BY <1>1, <1>4, <1>5, <3>2 DEF PointedIInv, WindowStands
    <3> QED
      BY <1>1, <1>4, <1>5, <3>1, <3>2
  <2>2. window[i].at \in Int /\ window[j].at \in Int /\ clock - window[i].at <= MaxAge
    BY <1>1, <1>2, <1>4 DEF FramesSeen, Seen
  <2> QED
    BY <1>1, <1>3, <2>1, <2>2, PointedAssumption DEF Seen
<1>6. ASSUME Seen # {} PROVE Len(window) \in Seen /\ Max(Seen) = Len(window)
  <2>1. PICK i \in Seen : i \in 1..Len(window)
    BY <1>4, <1>6
  <2>2. Len(window) \in 1..Len(window) /\ i <= Len(window)
    BY <1>1, <2>1
  <2>3. Len(window) \in Seen
    BY <1>5, <2>1, <2>2
  <2>4. \A x \in Seen : Len(window) >= x
    BY <1>1, <1>4
  <2>5. ASSUME NEW m \in Seen, \A x \in Seen : m >= x PROVE m = Len(window)
    <3>1. m >= Len(window) /\ m \in 1..Len(window)
      BY <1>4, <2>3, <2>5
    <3>2. Len(window) \in Int
      BY <1>1
    <3> QED
      BY <3>1, <3>2
  <2> QED
    BY <2>3, <2>4, <2>5 DEF Max
<1> QED
  BY <1>1, <1>2, <1>3, <1>4, <1>5, <1>6

(* An introducer is engaged in the newest frame and in one before it.      *)
LEMMA IntroducerIs ==
  ASSUME PointedIInv, NEW who, who = Introducer(Seen), who # None
  PROVE  /\ who \in TrackIds /\ Newest.engaged = who /\ window # <<>>
         /\ Len(window) \in Seen /\ Max(Seen) = Len(window)
         /\ \E i \in 1..Len(window) - 1 : i \in Seen /\ window[i].engaged = who
<1>1. Seen # {} /\ who = StableTrack(Seen) /\ who = LatestTarget(Seen)
  BY DEF Introducer
<1>2. Len(window) \in Seen /\ Max(Seen) = Len(window) /\ Len(window) \in {0, 1, 2, 3}
  BY <1>1, NewestIsSeen
<1>3. Newest.engaged = who
  BY <1>1, <1>2 DEF Newest, LatestTarget
<1>4. Seen \in SUBSET {1, 2, 3} /\ Seen \subseteq 1..Len(window)
  BY NewestIsSeen
<1>5. who \in TrackIds /\ Several(EngagedIn(Seen, who))
  <2>1. StableTrack(Seen) # None
    BY <1>1
  <2> QED
    BY <1>1, <1>4, <2>1, StableTrackIs
<1>6. PICK i, j \in EngagedIn(Seen, who) : i # j
  BY <1>5 DEF Several
<1>7. PICK k \in EngagedIn(Seen, who) : k # Len(window)
  BY <1>6
<1>8. k \in Seen /\ window[k].engaged = who /\ k \in 1..Len(window)
  BY <1>4 DEF EngagedIn
<1>9. k \in 1..Len(window) - 1
  BY <1>2, <1>7, <1>8
<1>10. window # <<>>
  BY <1>2, <1>8
<1> QED
  BY <1>2, <1>3, <1>8, <1>9, <1>10, <1>5

LEMMA PointedStarts == PointedInit => PointedIInv /\ SeenTwice
<1> SUFFICES ASSUME PointedInit PROVE PointedIInv /\ SeenTwice
  OBVIOUS
<1>1. window = <<>> /\ clock = 0 /\ request = NoRequest /\ answer = NoAnswer
  BY DEF PointedInit
<1>2. SeenTwice
  BY <1>1 DEF SeenTwice, Named, NoAnswer
<1>3. clock \in 0..MaxClock
  BY <1>1, PointedAssumption
<1>4. window \in Seq(FramesSeen) /\ Len(window) = 0 /\ DOMAIN window = {}
  BY <1>1
<1>5. Free
  BY <1>1 DEF Free
<1> QED
  BY <1>2, <1>3, <1>4, <1>5 DEF PointedIInv, WindowStands

(* A frame more, and the oldest one leaves.                                *)
LEMMA UpdateStands ==
  ASSUME PointedIInv, Update
  PROVE  PointedIInv' /\ SeenTwice'
<1>1. PICK p \in Pictures :
        window' = LastFrames(Append(window, [at |-> clock, engaged |-> Reading(p).engaged,
                                            pose |-> Reading(p).pose]))
  BY DEF Update, Readings
<1>2. PICK e : e = [at |-> clock, engaged |-> Reading(p).engaged, pose |-> Reading(p).pose]
  OBVIOUS
<1>3. PICK longer : longer = Append(window, e)
  OBVIOUS
<1>4. window' = LastFrames(longer)
  BY <1>1, <1>2, <1>3
<1>5. Free /\ clock' = clock /\ request' = request /\ answer' = NoAnswer
  BY DEF Update
<1>6. window \in Seq(FramesSeen) /\ Len(window) \in {0, 1, 2, 3} /\ clock \in Int
  BY NewestIsSeen DEF PointedIInv
<1>7. e \in FramesSeen /\ e.at = clock
  <2>1. Engaged(p) \in TrackIds \cup {None}
    BY PicturesAssumption DEF Engaged
  <2>2. Reading(p).engaged = Engaged(p) /\ Reading(p).pose \in Poses
    BY DEF Reading, Poses
  <2> QED
    BY <1>2, <1>6, <2>1, <2>2 DEF FramesSeen
<1>8. /\ longer \in Seq(FramesSeen) /\ Len(longer) = Len(window) + 1
      /\ \A i \in 1..Len(longer) :
           IF i = Len(longer) THEN longer[i] = e
           ELSE i \in 1..Len(window) /\ longer[i] = window[i]
  BY <1>3, <1>6, <1>7
<1>9. ASSUME NEW i \in 1..Len(longer)
      PROVE  longer[i] \in FramesSeen /\ longer[i].at <= clock
  <2>1. \A j \in 1..Len(window) : window[j] \in FramesSeen /\ window[j].at <= clock
    BY <1>6, NewestIsSeen DEF PointedIInv
  <2> QED
    BY <1>6, <1>7, <1>8, <2>1
<1>10. ASSUME NEW i \in 1..Len(longer), NEW j \in 1..Len(longer), i < j
       PROVE  longer[i].at <= longer[j].at
  <2>1. CASE j = Len(longer)
    BY <1>7, <1>8, <1>9, <2>1
  <2>2. CASE j # Len(longer)
    <3>1. i \in 1..Len(window) /\ j \in 1..Len(window)
      BY <1>6, <1>8, <1>10, <2>2
    <3>2. longer[i] = window[i] /\ longer[j] = window[j]
      BY <1>6, <1>8, <1>10, <2>2
    <3>3. window[i].at <= window[j].at
      BY <1>10, <3>1, NewestIsSeen DEF PointedIInv, WindowStands
    <3> QED
      BY <3>2, <3>3
  <2> QED
    BY <2>1, <2>2
<1>11. /\ window' \in Seq(FramesSeen) /\ Len(window') <= 3
       /\ \A i \in DOMAIN window' : window'[i].at <= clock
       /\ \A i, j \in DOMAIN window' : i < j => window'[i].at <= window'[j].at
  <2>1. CASE Len(longer) <= 3
    <3>1. window' = longer /\ DOMAIN window' = 1..Len(longer)
      BY <1>4, <1>6, <1>8, <2>1 DEF LastFrames
    <3> QED
      BY <1>8, <1>9, <1>10, <2>1, <3>1
  <2>2. CASE ~ (Len(longer) <= 3)
    <3>1. Len(longer) = 4 /\ window' = Tail(longer)
      BY <1>4, <1>6, <1>8, <2>2 DEF LastFrames
    <3>2. /\ Tail(longer) \in Seq(FramesSeen) /\ Len(Tail(longer)) = 3
          /\ \A i \in 1..Len(Tail(longer)) : Tail(longer)[i] = longer[i + 1]
      <4>1. longer # <<>> /\ longer \in Seq(FramesSeen)
        BY <1>8, <3>1
      <4>2. /\ Tail(longer) \in Seq(FramesSeen) /\ Len(Tail(longer)) = Len(longer) - 1
            /\ \A i \in 1..Len(Tail(longer)) : Tail(longer)[i] = longer[i + 1]
        BY <4>1, HeadTailProperties
      <4> QED
        BY <3>1, <4>2
    <3>3. DOMAIN Tail(longer) = {1, 2, 3}
      <4>1. DOMAIN Tail(longer) = 1..Len(Tail(longer))
        BY <3>2
      <4>2. 1..3 = {1, 2, 3}
        OBVIOUS
      <4> QED
        BY <3>2, <4>1, <4>2
    <3>4. window' \in Seq(FramesSeen) /\ Len(window') = 3 /\ DOMAIN window' = {1, 2, 3}
      BY <3>1, <3>2, <3>3
    <3>5. \A i \in {1, 2, 3} : window'[i] = longer[i + 1] /\ i + 1 \in 1..Len(longer)
      <4>1. \A i \in {1, 2, 3} : i \in 1..Len(Tail(longer))
        <5>1. \A i \in {1, 2, 3} : i \in 1..3
          OBVIOUS
        <5> QED
          BY <3>2, <5>1
      <4>2. \A i \in {1, 2, 3} : i + 1 \in 1..Len(longer)
        BY <3>1
      <4> QED
        BY <3>1, <3>2, <4>1, <4>2
    <3>6. \A i, j \in {1, 2, 3} : i < j => i + 1 < j + 1
      OBVIOUS
    <3> QED
      BY <1>9, <1>10, <3>4, <3>5, <3>6
  <2> QED
    BY <2>1, <2>2
<1>12. Free'
  BY <1>5 DEF Free
<1>13. clock' \in 0..MaxClock
  BY <1>5 DEF PointedIInv, WindowStands
<1>14. WindowStands'
  BY <1>11, <1>12, <1>13 DEF WindowStands
<1>15. SeenTwice'
  BY <1>5 DEF SeenTwice, Named, NoAnswer
<1> QED
  BY <1>5, <1>11, <1>14, <1>15 DEF PointedIInv

(* A step that leaves the window alone.                                    *)
LEMMA SameWindow ==
  ASSUME PointedIInv, window' = window, clock' \in 0..MaxClock, clock <= clock',
         Free' \/ /\ request'.introducer \in TrackIds /\ request'.selected = Len(window)
                  /\ window # <<>> /\ Newest.engaged = request'.introducer
  PROVE  PointedIInv'
<1>1. \A i \in DOMAIN window : window[i].at <= clock'
  <2>1. clock \in Int /\ clock' \in Int
    BY NewestIsSeen, PointedAssumption
  <2>2. ASSUME NEW i \in DOMAIN window PROVE window[i].at \in Int /\ window[i].at <= clock
    BY NewestIsSeen DEF PointedIInv, FramesSeen
  <2> QED
    BY <2>1, <2>2
<1>2. Len(window') <= 3 /\ \A i, j \in DOMAIN window' : i < j => window'[i].at <= window'[j].at
  BY DEF PointedIInv, WindowStands
<1>3. Free' \/ /\ request'.introducer \in TrackIds /\ request'.selected = Len(window')
               /\ window' # <<>> /\ Newest' = Newest /\ Newest.engaged = request'.introducer
  BY DEF Newest
<1>4. WindowStands'
  BY <1>2, <1>3 DEF WindowStands
<1> QED
  BY <1>1, <1>4 DEF PointedIInv

(* What the second look decides is what the newest frame and one before    *)
(* show.                                                                   *)
LEMMA DecisionIs ==
  ASSUME PointedIInv, ~ Free, NEW pose,
         pose = Decision(OfIntroducer(Seen, request.introducer), request.selected),
         pose.who # None
  PROVE  /\ pose = Newest.pose /\ Len(window) \in Seen /\ Newest.engaged = request.introducer
         /\ \E i \in 1..Len(window) - 1 :
              /\ i \in Seen /\ window[i].engaged = request.introducer
              /\ window[i].pose.who = pose.who /\ window[i].pose.arm = pose.arm
<1>1. request.selected = Len(window) /\ Newest.engaged = request.introducer
  BY DEF PointedIInv, WindowStands
<1>2. PICK seen : seen = OfIntroducer(Seen, request.introducer)
  OBVIOUS
<1>3. /\ seen \subseteq Seen /\ \A i \in seen : window[i].engaged = request.introducer
      /\ Seen \in SUBSET {1, 2, 3} /\ Seen \subseteq 1..Len(window)
      /\ Len(window) \in {0, 1, 2, 3}
  BY <1>2, NewestIsSeen DEF OfIntroducer, EngagedIn
<1>4. Unsure("target_unclear").who = None
  BY DEF Unsure
<1>5. /\ request.selected \in seen /\ pose = Newest.pose
      /\ IsStable(Cardinality(SamePair(seen, pose)))
  BY <1>1, <1>2, <1>4 DEF Decision, Newest
<1>6. SamePair(seen, pose) \in SUBSET {1, 2, 3} /\ SamePair(seen, pose) \subseteq seen
  BY <1>3 DEF SamePair
<1>7. PICK i, j \in SamePair(seen, pose) : i # j
  <2>1. IsFiniteSet(SamePair(seen, pose))
    BY <1>6, UpToThree
  <2> QED
    BY <1>5, <2>1, TwoAtLeast DEF IsStable, Required, Several
<1>8. PICK k \in SamePair(seen, pose) : k # Len(window)
  BY <1>7
<1>9. k \in 1..Len(window) /\ k \in Seen /\ window[k].engaged = request.introducer
  BY <1>3, <1>6
<1>10. window[k].pose.who = pose.who /\ window[k].pose.arm = pose.arm
  BY DEF SamePair
<1>11. k \in 1..Len(window) - 1
  BY <1>3, <1>8, <1>9
<1> QED
  BY <1>1, <1>3, <1>5, <1>9, <1>10, <1>11

LEMMA PointedStep ==
  PointedIInv /\ SeenTwice /\ [PointedNext]_pointedVars => PointedIInv' /\ SeenTwice'
<1> SUFFICES ASSUME PointedIInv, SeenTwice, [PointedNext]_pointedVars
             PROVE  PointedIInv' /\ SeenTwice'
  OBVIOUS
<1>1. /\ clock \in 0..MaxClock /\ clock \in Int
      /\ Free \/ /\ request.introducer \in TrackIds /\ request.selected = Len(window)
                 /\ window # <<>> /\ Newest.engaged = request.introducer
  <2>1. clock \in Int
    BY NewestIsSeen
  <2> QED
    BY <2>1 DEF PointedIInv, WindowStands
<1>2. CASE Update
  BY <1>2, UpdateStands
<1>3. CASE ClockTicks
  <2>1. window' = window /\ request' = request /\ answer' = NoAnswer /\ clock' = clock + 1
        /\ clock < MaxClock
    BY <1>3 DEF ClockTicks
  <2>2. clock' \in 0..MaxClock /\ clock <= clock'
    BY <1>1, <2>1, PointedAssumption
  <2>3. Free' <=> Free
    BY <2>1 DEF Free
  <2>4. SeenTwice'
    BY <2>1 DEF SeenTwice, Named, NoAnswer
  <2> QED
    BY <1>1, <2>1, <2>2, <2>3, <2>4, SameWindow
<1>4. CASE SelfIntroduction
  <2>1. PICK who : who = Introducer(Seen)
    OBVIOUS
  <2>2. /\ window' = window /\ request' = request /\ clock' = clock /\ Free
        /\ answer'.kind = "self" /\ answer'.who = who /\ answer'.introducer = who
    BY <1>4, <2>1 DEF SelfIntroduction
  <2>3. Free'
    BY <2>2 DEF Free
  <2>4. PointedIInv'
    BY <1>1, <2>2, <2>3, SameWindow
  <2>5. ASSUME who # None PROVE SeenTwice'
    <3>1. /\ Newest.engaged = who /\ Len(window) \in Seen
          /\ \E i \in 1..Len(window) - 1 : i \in Seen /\ window[i].engaged = who
      BY <2>1, <2>5, IntroducerIs
    <3>2. PICK i \in 1..Len(window) - 1 : i \in Seen /\ window[i].engaged = who
      BY <3>1
    <3>3. Age(window[i]) <= MaxAge /\ Age(Newest) <= MaxAge
      BY <3>1, <3>2 DEF Age, Seen, Newest
    <3> QED
      BY <2>2, <3>1, <3>2, <3>3 DEF SeenTwice, Age, Newest
  <2>6. who = None => SeenTwice'
    BY <2>2 DEF SeenTwice, Named
  <2> QED
    BY <2>4, <2>5, <2>6
<1>5. CASE ThirdPersonIntroduction
  <2>1. PICK who : who = Introducer(Seen)
    OBVIOUS
  <2>2. /\ window' = window /\ clock' = clock
        /\ \/ answer' = NoAnswer
           \/ answer' = [NoAnswer EXCEPT !.kind = "third", !.why = Refusal(Seen)]
    BY <1>5 DEF ThirdPersonIntroduction
  <2>3. answer'.who = None
    <3>1. /\ NoAnswer.who = None
          /\ [NoAnswer EXCEPT !.kind = "third", !.why = Refusal(Seen)].who = None
      BY DEF NoAnswer
    <3> QED
      BY <2>2, <3>1
  <2>4. SeenTwice'
    BY <2>3 DEF SeenTwice, Named
  <2>5. CASE who = None
    <3>1. Free'
      BY <1>5, <2>1, <2>5 DEF ThirdPersonIntroduction, Free
    <3> QED
      BY <1>1, <2>2, <2>4, <3>1, SameWindow
  <2>6. CASE who # None
    <3>1. request'.introducer = who /\ request'.selected = Max(Seen)
      BY <1>5, <2>1, <2>6 DEF ThirdPersonIntroduction
    <3>2. /\ who \in TrackIds /\ Newest.engaged = who /\ window # <<>>
          /\ Max(Seen) = Len(window)
      BY <2>1, <2>6, IntroducerIs
    <3> QED
      BY <1>1, <2>2, <2>4, <3>1, <3>2, SameWindow
  <2> QED
    BY <2>5, <2>6
<1>6. CASE StableThirdPersonPose
  <2>1. PICK pose : pose = Decision(OfIntroducer(Seen, request.introducer), request.selected)
    OBVIOUS
  <2>2. /\ window' = window /\ clock' = clock /\ ~ Free /\ request' = NoRequest
        /\ answer'.kind = "third" /\ answer'.who = pose.who
        /\ answer'.introducer = request.introducer
    BY <1>6, <2>1 DEF StableThirdPersonPose
  <2>3. Free'
    BY <2>2 DEF Free
  <2>4. PointedIInv'
    BY <1>1, <2>2, <2>3, SameWindow
  <2>5. ASSUME pose.who # None PROVE SeenTwice'
    <3>1. /\ pose = Newest.pose /\ Len(window) \in Seen /\ Newest.engaged = request.introducer
          /\ \E i \in 1..Len(window) - 1 :
               /\ i \in Seen /\ window[i].engaged = request.introducer
               /\ window[i].pose.who = pose.who /\ window[i].pose.arm = pose.arm
      BY <2>1, <2>2, <2>5, DecisionIs
    <3>2. PICK i \in 1..Len(window) - 1 :
            /\ i \in Seen /\ window[i].engaged = request.introducer
            /\ window[i].pose.who = pose.who /\ window[i].pose.arm = pose.arm
      BY <3>1
    <3>3. Age(window[i]) <= MaxAge /\ Age(Newest) <= MaxAge
      BY <3>1, <3>2 DEF Age, Seen, Newest
    <3> QED
      BY <2>2, <3>1, <3>2, <3>3 DEF SeenTwice, Age, Newest
  <2>6. pose.who = None => SeenTwice'
    BY <2>2 DEF SeenTwice, Named
  <2> QED
    BY <2>4, <2>5, <2>6
<1>7. CASE UNCHANGED pointedVars
  BY <1>7 DEF pointedVars, PointedIInv, WindowStands, Free, Newest, SeenTwice, Named, Age
<1> QED
  BY <1>2, <1>3, <1>4, <1>5, <1>6, <1>7 DEF PointedNext

(* One picture names nobody: newest and an earlier one, both fresh when    *)
(* the answer is given, show the introducer and the same arm.              *)
THEOREM NamedByTwoPictures == PointedSpec => []WellNamed
<1>1. PointedIInv /\ SeenTwice => WellNamed
  BY DEF PointedIInv, WellNamed
<1> QED
  BY <1>1, PointedStarts, PointedStep, PTL DEF PointedSpec

(* When the last two pictures agree, nobody before them matters.           *)
LEMMA SteadyIsFound ==
  ASSUME PointedIInv, Steady
  PROVE  /\ {Len(window) - 1, Len(window)} \subseteq EngagedIn(Seen, Newest.engaged)
         /\ Introducer(Seen) = Newest.engaged
<1> DEFINE n == Len(window)
           who == Newest.engaged
<1>1. n \in {2, 3} /\ DOMAIN window = 1..n
  BY NewestIsSeen DEF Steady
<1>2. n - 1 \in 1..n /\ n \in 1..n /\ n - 1 <= n
  BY <1>1
<1>3. n - 1 \in Seen
  BY <1>1, <1>2 DEF Steady, Previous, Age, Seen
<1>4. n \in Seen /\ Max(Seen) = n
  BY <1>3, NewestIsSeen
<1>5. window[n - 1].engaged = who /\ window[n].engaged = who
  BY DEF Steady, Agree, Previous, Newest
<1>6. {n - 1, n} \subseteq EngagedIn(Seen, who)
  BY <1>3, <1>4, <1>5 DEF EngagedIn
<1>7. who \in TrackIds
  BY <1>1, <1>2, NewestIsSeen DEF Steady, Newest, FramesSeen
<1>8. n - 1 # n
  <2>1. n \in Int
    BY <1>1
  <2> QED
    BY <2>1
<1> HIDE DEF n, who
<1>9. Several(EngagedIn(Seen, who))
  BY <1>6, <1>8 DEF Several
<1>10. StableTrack(Seen) = who
  BY <1>7, <1>9, NewestIsSeen, StableTrackIs
<1>11. LatestTarget(Seen) = who
  BY <1>4, <1>5 DEF LatestTarget
<1> QED
  BY <1>4, <1>6, <1>10, <1>11 DEF Introducer, n, who

LEMMA SteadyIsAnswered ==
  ASSUME PointedIInv, PointedNext, Steady, answer'.kind # "none"
  PROVE  /\ answer'.kind = "self" => answer'.who = Newest.engaged
         /\ answer'.kind = "third" => answer'.who = Newest.pose.who
<1>1. NoAnswer.kind = "none" /\ Newest.engaged # None
  BY DEF NoAnswer, Steady
<1>2. CASE Update \/ ClockTicks
  BY <1>1, <1>2 DEF Update, ClockTicks
<1>3. CASE SelfIntroduction
  BY <1>3, SteadyIsFound DEF SelfIntroduction
<1>4. CASE ThirdPersonIntroduction
  <2>1. answer' = NoAnswer
    BY <1>1, <1>4, SteadyIsFound DEF ThirdPersonIntroduction
  <2> QED
    BY <1>1, <2>1
<1>5. CASE StableThirdPersonPose
  <2>1. ~ Free /\ request.selected = Len(window) /\ request.introducer = Newest.engaged
    BY <1>5 DEF StableThirdPersonPose, PointedIInv, WindowStands
  <2>2. PICK seen : seen = OfIntroducer(Seen, request.introducer)
    OBVIOUS
  <2>3. Len(window) - 1 \in seen /\ Len(window) \in seen /\ seen \in SUBSET {1, 2, 3}
    BY <2>1, <2>2, NewestIsSeen, SteadyIsFound DEF OfIntroducer, EngagedIn
  <2>4. PICK pose : pose = Newest.pose
    OBVIOUS
  <2>5. {Len(window) - 1, Len(window)} \subseteq SamePair(seen, pose)
    BY <2>3, <2>4 DEF SamePair, Steady, Agree, Previous, Newest
  <2>6. SamePair(seen, pose) \in SUBSET {1, 2, 3} /\ Len(window) - 1 # Len(window)
    <3>1. Len(window) \in Int
      BY <2>3
    <3>2. Len(window) - 1 # Len(window)
      BY <3>1
    <3> QED
      BY <2>3, <3>2 DEF SamePair
  <2>7. IsStable(Cardinality(SamePair(seen, pose)))
    <3>1. IsFiniteSet(SamePair(seen, pose))
      BY <2>6, UpToThree
    <3>2. Several(SamePair(seen, pose))
      BY <2>5, <2>6 DEF Several
    <3> QED
      BY <3>1, <3>2, TwoAtLeast DEF IsStable, Required
  <2>8. Decision(seen, request.selected) = pose
    BY <2>1, <2>3, <2>4, <2>7 DEF Decision, Newest
  <2>9. answer'.kind = "third" /\ answer'.who = pose.who
    BY <1>5, <2>2, <2>8 DEF StableThirdPersonPose
  <2> QED
    BY <2>4, <2>9
<1> QED
  BY <1>2, <1>3, <1>4, <1>5 DEF PointedNext

(* Two agreeing pictures are enough, whatever came before them.            *)
THEOREM TwoPicturesSuffice == PointedSpec => TwoAreEnough
<1>1. PointedIInv /\ [PointedNext]_pointedVars
        => [Steady /\ answer'.kind # "none" =>
              /\ answer'.kind = "self" => answer'.who = Newest.engaged
              /\ answer'.kind = "third" => answer'.who = Newest.pose.who]_pointedVars
  BY SteadyIsAnswered
<1> QED
  BY <1>1, PointedStarts, PointedStep, PTL DEF PointedSpec, TwoAreEnough

-----------------------------------------------------------------------------
(* Whom a pose points at                                                   *)

LEMMA MaxIsGreatest ==
  ASSUME NEW S, IsFiniteSet(S), S # {}, S \subseteq Int
  PROVE  Max(S) \in S /\ \A y \in S : Max(S) >= y
<1> DEFINE Above(x) == {y \in S : y > x}
           T == {Above(x) : x \in S}
<1>1. T \subseteq FiniteSubsetsOf(S) /\ T # {}
  <2>1. \A x \in S : Above(x) \subseteq S /\ IsFiniteSet(Above(x))
    BY FS_Subset
  <2> HIDE DEF Above
  <2> QED
    BY <2>1 DEF FiniteSubsetsOf
<1>2. PICK m \in T : \A y \in T : ~ (<<y, m>> \in StrictSubsetOrdering(S))
  <2>1. IsWellFoundedOn(StrictSubsetOrdering(S), FiniteSubsetsOf(S))
    BY FS_StrictSubsetOrderingWellFounded
  <2> HIDE DEF T
  <2> QED
    BY <1>1, <2>1, WFMin
<1>3. PICK x \in S : m = Above(x)
  BY <1>2
<1>4. ASSUME NEW y \in S PROVE x >= y
  <2> SUFFICES ASSUME y > x PROVE FALSE
    OBVIOUS
  <2>1. Above(y) \subseteq Above(x) /\ y \in Above(x) /\ y \notin Above(y)
    <3>1. \A z \in Int : z > y => z > x
      OBVIOUS
    <3>2. ~ (y > y)
      OBVIOUS
    <3> QED
      BY <3>1, <3>2
  <2>2. Above(x) \subseteq S /\ Above(y) \in T
    OBVIOUS
  <2>3. <<Above(y), Above(x)>> \in StrictSubsetOrdering(S)
    <3> HIDE DEF Above
    <3> QED
      BY <2>1, <2>2 DEF StrictSubsetOrdering
  <2> QED
    BY <1>2, <1>3, <2>2, <2>3
<1> QED
  BY <1>4 DEF Max

Pointed(p) == {t \in p.visible \ {p.target} : Score(p, t) > 0}

Readable(p) ==
    IsFiniteSet(p.visible) /\ \A t \in p.visible \ {p.target} : Score(p, t) \in Int

(* Everybody else pointed at is behind by more than the margin.            *)
Wins(p, w) == \A u \in Pointed(p) \ {w} : Score(p, w) - Score(p, u) > 1

LEMMA ClearMeans ==
  ASSUME NEW p, Readable(p), Pointed(p) # {}
  PROVE  Clear(p, Pointed(p)) <=> \E w \in Pointed(p) : Wins(p, w)
<1> DEFINE P == Pointed(p)
           scores == {Score(p, t) : t \in P}
           best == {t \in P : Score(p, t) = Max(scores)}
<1>1. IsFiniteSet(P) /\ P # {} /\ \A t \in P : Score(p, t) \in Int
  <2>1. P \subseteq p.visible \ {p.target}
    BY DEF Pointed
  <2> QED
    BY <2>1, FS_Subset DEF Readable
<1> HIDE DEF P
<1>2. IsFiniteSet(scores) /\ scores # {} /\ scores \subseteq Int
  <2>1. [t \in P |-> Score(p, t)] \in Surjection(P, scores)
    BY DEF Surjection
  <2>2. scores # {} /\ scores \subseteq Int
    BY <1>1
  <2> HIDE DEF scores
  <2> QED
    BY <1>1, <2>1, <2>2, FS_Surjection
<1>3. \A t \in P : Score(p, t) \in scores
  OBVIOUS
<1>4. \A x \in scores : \E t \in P : x = Score(p, t)
  OBVIOUS
<1> HIDE DEF scores
<1>5. Max(scores) \in scores /\ \A x \in scores : Max(scores) >= x
  BY <1>2, MaxIsGreatest
<1>6. best \subseteq P /\ IsFiniteSet(best)
  BY <1>1, FS_Subset
<1>7. Clear(p, P) <=> \/ Cardinality(P) = 1
                      \/ Cardinality(best) = 1 /\ MarginOf(scores) > 1
  BY DEF Clear, scores
<1>8. MarginOf(scores) = Max(scores) - Max(scores \ {Max(scores)})
  BY DEF MarginOf
<1>9. ASSUME Clear(p, P) PROVE \E w \in P : Wins(p, w)
  <2>1. CASE Cardinality(P) = 1
    <3>1. PICK w : P = {w}
      BY <1>1, <2>1, FS_Singleton
    <3> QED
      BY <3>1 DEF Wins, P
  <2>2. CASE Cardinality(best) = 1 /\ MarginOf(scores) > 1
    <3>1. PICK w : best = {w}
      BY <1>6, <2>2, FS_Singleton
    <3>2. w \in P /\ Score(p, w) = Max(scores)
      BY <3>1
    <3>3. ASSUME NEW u \in P \ {w} PROVE Score(p, w) - Score(p, u) > 1
      <4>1. Score(p, u) # Max(scores)
        BY <3>1
      <4>2. PICK rest : rest = scores \ {Max(scores)}
        OBVIOUS
      <4>3. Score(p, u) \in rest /\ IsFiniteSet(rest) /\ rest \subseteq Int
        BY <1>2, <1>3, <4>1, <4>2, FS_Subset
      <4>4. Max(rest) >= Score(p, u) /\ Max(rest) \in Int
        BY <4>3, MaxIsGreatest
      <4>5. Max(scores) - Max(rest) > 1
        BY <1>8, <2>2, <4>2
      <4>6. Score(p, u) \in Int /\ Max(scores) \in Int
        BY <1>1, <1>2, <1>5
      <4> QED
        BY <3>2, <4>4, <4>5, <4>6
    <3> QED
      BY <3>2, <3>3 DEF Wins, P
  <2> QED
    BY <1>7, <1>9, <2>1, <2>2
<1>10. ASSUME NEW w \in P, Wins(p, w) PROVE Clear(p, P)
  <2>1. \A u \in P \ {w} : Score(p, w) - Score(p, u) > 1
    BY <1>10 DEF Wins, P
  <2>2. \A u \in P : Score(p, w) >= Score(p, u)
    BY <1>1, <2>1
  <2>3. Max(scores) = Score(p, w)
    <3>1. PICK t \in P : Max(scores) = Score(p, t)
      BY <1>4, <1>5
    <3>2. Max(scores) >= Score(p, w) /\ Score(p, w) >= Score(p, t)
      BY <1>3, <1>5, <2>2
    <3>3. Score(p, w) \in Int /\ Score(p, t) \in Int
      BY <1>1
    <3> QED
      BY <3>1, <3>2, <3>3
  <2>4. best = {w}
    BY <1>1, <2>1, <2>3
  <2>5. Cardinality(best) = 1
    BY <2>4, FS_Singleton
  <2>6. CASE P = {w}
    BY <1>7, <2>6, FS_Singleton
  <2>7. CASE P # {w}
    <3>1. PICK u \in P : u # w
      BY <2>7
    <3>2. PICK rest : rest = scores \ {Max(scores)}
      OBVIOUS
    <3>3. Score(p, u) \in rest
      BY <1>1, <1>3, <2>1, <2>3, <3>1, <3>2
    <3>4. IsFiniteSet(rest) /\ rest # {} /\ rest \subseteq Int
      BY <1>2, <3>2, <3>3, FS_Subset
    <3>5. Max(rest) \in rest
      BY <3>4, MaxIsGreatest
    <3>6. PICK t \in P : Max(rest) = Score(p, t)
      BY <1>4, <3>2, <3>5
    <3>7. t # w
      BY <2>3, <3>2, <3>5, <3>6
    <3>8. MarginOf(scores) > 1
      BY <1>8, <2>1, <2>3, <3>2, <3>6, <3>7
    <3> QED
      BY <1>7, <2>5, <3>8
  <2> QED
    BY <2>6, <2>7
<1> QED
  BY <1>9, <1>10 DEF P

(* A pose points at somebody if it points at them far better than at       *)
(* anybody else.                                                           *)
LEMMA PoseNames ==
  ASSUME NEW p, Readable(p)
  PROVE  /\ Pose(p).who # None => /\ p.arms # {} /\ Pose(p).who \in Pointed(p)
                                  /\ Wins(p, Pose(p).who)
         /\ p.arms # {} => \A w \in Pointed(p) : Wins(p, w) /\ w # None => Pose(p).who = w
<1> DEFINE First == CHOOSE t \in Pointed(p) : \A u \in Pointed(p) : Score(p, u) <= Score(p, t)
<1>1. \A why : Unsure(why).who = None
  BY DEF Unsure
<1>2. Pose(p).who = IF p.arms # {} /\ Pointed(p) # {} /\ Clear(p, Pointed(p)) THEN First ELSE None
  <2>1. CASE p.arms = {}
    BY <1>1, <2>1 DEF Pose
  <2>2. CASE p.arms # {} /\ Pointed(p) = {}
    BY <1>1, <2>2 DEF Pose, Pointed
  <2>3. CASE p.arms # {} /\ Pointed(p) # {} /\ ~ Clear(p, Pointed(p))
    BY <1>1, <2>3 DEF Pose, Pointed
  <2>4. CASE p.arms # {} /\ Pointed(p) # {} /\ Clear(p, Pointed(p))
    <3>1. Pose(p) = [why |-> "resolved", who |-> First, arm |-> Arm(p, First)]
      BY <2>4 DEF Pose, Pointed
    <3> HIDE DEF First
    <3> QED
      BY <2>4, <3>1
  <2> QED
    BY <2>1, <2>2, <2>3, <2>4
<1>3. \A t \in Pointed(p) : Score(p, t) \in Int
  BY DEF Pointed, Readable
<1>4. ASSUME NEW w \in Pointed(p), Wins(p, w) PROVE First = w
  <2>1. \A u \in Pointed(p) \ {w} : Score(p, w) - Score(p, u) > 1
    BY <1>4 DEF Wins
  <2>2. \A u \in Pointed(p) : Score(p, u) <= Score(p, w)
    BY <1>3, <2>1
  <2>3. ASSUME NEW t \in Pointed(p), \A u \in Pointed(p) : Score(p, u) <= Score(p, t)
        PROVE  t = w
    <3>1. Score(p, w) <= Score(p, t)
      BY <2>3
    <3> QED
      BY <1>3, <2>1, <3>1
  <2> QED
    BY <2>2, <2>3
<1> HIDE DEF First
<1>5. ASSUME Pointed(p) # {}, Clear(p, Pointed(p))
      PROVE  First \in Pointed(p) /\ Wins(p, First)
  BY <1>4, <1>5, ClearMeans
<1>6. ASSUME p.arms # {}, NEW w \in Pointed(p), Wins(p, w), w # None PROVE Pose(p).who = w
  BY <1>2, <1>4, <1>6, ClearMeans
<1> QED
  BY <1>2, <1>5, <1>6

(* Somebody who is meant is meant too without any one of the others: in    *)
(* any picture, with any scores (preview_pose_pointing_person).            *)
THEOREM BystandersSpoil ==
  ASSUME NEW p, Readable(p), NEW q, NEW t,
         q.visible = p.visible \ {t}, q.target = p.target, q.arms = p.arms, q.score = p.score,
         Pose(p).who # None, t # Pose(p).who
  PROVE  Pose(q).who = Pose(p).who
<1>0. Readable(q)
  BY FS_Subset DEF Readable, Score
<1>1. PICK w : w = Pose(p).who
  OBVIOUS
<1>2. p.arms # {} /\ w \in Pointed(p) /\ Wins(p, w)
  BY <1>1, PoseNames
<1>3. \A u : Score(q, u) = Score(p, u)
  BY DEF Score
<1>4. Pointed(q) = Pointed(p) \ {t}
  BY <1>3 DEF Pointed
<1>5. Wins(q, w) /\ w \in Pointed(q)
  BY <1>1, <1>2, <1>3, <1>4 DEF Wins
<1> QED
  BY <1>0, <1>1, <1>2, <1>5, PoseNames

LEMMA LineUpsAreReadable ==
  ASSUME NEW p \in LineUps
  PROVE  Readable(p)
<1>1. /\ p.target = 1 /\ p.visible = 1..4 /\ p.arms \in {{"left"}, {"left", "right"}}
      /\ p.score \in [{"left", "right"} -> [2..4 -> 0..3]]
  BY DEF LineUps, Scores
<1>2. ASSUME NEW u \in 2..4 PROVE Score(p, u) \in Int
  <2>1. PICK S : S = {p.score[arm][u] : arm \in p.arms}
    OBVIOUS
  <2>2. \A arm \in p.arms : p.score[arm][u] \in 0..3
    BY <1>1
  <2>3. S # {} /\ S \subseteq Nat /\ \A s \in S : s <= 3
    BY <1>1, <2>1, <2>2
  <2>4. IsFiniteSet(S)
    BY <2>3, FS_BoundedSetOfNaturals
  <2>5. S \subseteq Int
    BY <2>3
  <2>6. Max(S) \in Int
    BY <2>3, <2>4, <2>5, MaxIsGreatest
  <2> QED
    BY <2>1, <2>6 DEF Score
<1>3. IsFiniteSet(p.visible)
  <2>1. p.visible \subseteq Nat /\ \A i \in p.visible : i <= 4
    BY <1>1
  <2> QED
    BY <2>1, FS_BoundedSetOfNaturals
<1> QED
  BY <1>1, <1>2, <1>3 DEF Readable

(* Nobody is meant because of a bystander.                                 *)
THEOREM BystandersDecideNothing == PointedSpec => []BystandersOnlySpoil
<1>1. ASSUME NEW p \in LineUps, Pose(p).who # None, NEW t \in (2..4) \ {Pose(p).who}
      PROVE  Pose(Without(p, t)).who = Pose(p).who
  <2>1. PICK q : q = Without(p, t)
    OBVIOUS
  <2>2. q.visible = p.visible \ {t} /\ q.target = p.target /\ q.arms = p.arms /\ q.score = p.score
    BY <2>1 DEF Without, LineUps
  <2>3. Readable(p)
    BY LineUpsAreReadable
  <2> QED
    BY <1>1, <2>1, <2>2, <2>3, BystandersSpoil
<1>2. BystandersOnlySpoil
  BY <1>1 DEF BystandersOnlySpoil
<1> QED
  BY <1>2, PTL
=============================================================================
