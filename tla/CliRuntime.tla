------------------------------ MODULE CliRuntime ------------------------------
(***************************************************************************)
(* The robot-side CLI: RuntimeCoordinator.run_once and shutdown            *)
(* (runtime.py), FramePump (frame_pump.py) and                             *)
(* VisualEventsServiceClient.request_frame (service_client.py) on one      *)
(* asyncio loop, together with the actors they meet: the camera, the       *)
(* vision service at the far end of the WebSocket, the daemon thread that  *)
(* drains Botified frames to stdout, the DDS bridge and the clock.         *)
(*                                                                         *)
(* One step is the code between two suspension points.  Time is counted in *)
(* ticks: TimePasses lets one tick go by and needs run_once to have run    *)
(* since the last one, because the loop sleeps sleep_seconds (10 ms)       *)
(* between calls and nothing it awaits blocks the thread.                  *)
(***************************************************************************)
EXTENDS Integers, Sequences

CONSTANTS
  MaxFrames,             \* bound: frame ids the CLI hands out
  StaleAfter,            \* gaze_target.stale_ms, in ticks
  ResponseTimeout,       \* service.response_timeout_ms, in ticks
  QueueCap               \* botified.stdout_queue_max

ASSUME CliAssumption ==
  /\ MaxFrames \in Nat
  /\ StaleAfter \in Nat \ {0}
  /\ ResponseTimeout \in Nat \ {0}
  /\ QueueCap \in Nat

VARIABLES
  camera,     \* frames in the bridge's latest-frame slot
  slot,       \* frames in LatestFrameSlot
  nextFrame,  \* FramePump._next_frame_id
  task,       \* where the process_one task stands
  waited,     \* ticks since recv was called
  conn,       \* the client's WebSocket: none, open, or broken by the peer
  uplink,     \* frame ids sent and not yet served on this connection
  downlink,   \* answers sent and not yet read on this connection
  lastSent,   \* frame id of _last_sent_metadata, NoFrame for None
  sentAge,    \* ticks since _last_sent_timestamp_ms, Never for None
  lastMeta,   \* frame id of _last_metadata, NoFrame for None
  freshAge,   \* ticks since _last_fresh_publish_timestamp_ms, Never for None
  staleKey,   \* frame id in _stale_published_for_key, NoFrame for None
  sample,     \* the gaze target published last
  staleRun,   \* history: stale samples since the last fresh one, at most 2
  queued,     \* frames in the Botified stdout queue
  pipe,       \* our stdout: open or closed by its reader
  drain,      \* the drain thread's future: none, running, ok or broken
  bridge,     \* the DDS bridge process: up or failed
  phase,      \* the runtime loop and the stages of its shutdown
  exitCode,   \* how the program ends: 0, 3 (pipe closed) or an exception
  ticked      \* 1 if run_once has run since the last TimePasses

pumpVars  == <<slot, nextFrame, task, waited>>
linkVars  == <<conn, uplink, downlink>>
staleVars == <<lastSent, sentAge, lastMeta, freshAge, staleKey>>
gazeVars  == <<sample, staleRun>>
pipeVars  == <<queued, pipe, drain>>
loopVars  == <<phase, exitCode, ticked>>
vars == <<camera, pumpVars, linkVars, staleVars, gazeVars, pipeVars, bridge, loopVars>>

NoFrame == 0
Never   == -1
FrameIds == 1..MaxFrames
Age      == {Never} \cup 0..(StaleAfter + 1)   \* saturates: older is as stale

Sample == [kind: {"none", "fresh", "stale"}, frame: Nat]

(* What request_frame can read: a visual_state for some frame, an error    *)
(* message, or bytes it cannot decode or has no use for.                   *)
Answer == [kind: {"state"}, frame: FrameIds]
            \cup [kind: {"retryable", "fatal", "garbage"}, frame: {NoFrame}]

TaskStates == {"none", "connect", "send", "recv", "closing", "returned", "raised"}

Init ==
  /\ camera = 0 /\ slot = 0
  /\ nextFrame = 1 /\ task = "none" /\ waited = 0
  /\ conn = "none" /\ uplink = <<>> /\ downlink = <<>>
  /\ lastSent = NoFrame /\ sentAge = Never
  /\ lastMeta = NoFrame /\ freshAge = Never /\ staleKey = NoFrame
  /\ sample = [kind |-> "none", frame |-> NoFrame] /\ staleRun = 0
  /\ queued = 0 /\ pipe = "open" /\ drain = "none"
  /\ bridge = "up"
  /\ phase = "running" /\ exitCode = "none" /\ ticked = 0

-----------------------------------------------------------------------------
(* FramePump *)

InFlight == nextFrame - 1          \* frame_id of the running process_one

(* publish_stale_now: at most one stale sample per metadata key; sent is   *)
(* the frame of _last_sent_metadata when it is called.                     *)
SentMetaFirst(sent) == IF sent # NoFrame THEN sent ELSE lastMeta   \* mutant

StaleMeta(sent) == IF lastMeta # NoFrame THEN lastMeta ELSE sent

CanPublishStale(sent) == StaleMeta(sent) # NoFrame /\ staleKey # StaleMeta(sent)

PublishStaleNow(sent) ==
  /\ sample' = [kind |-> "stale", frame |-> StaleMeta(sent)]
  /\ staleKey' = StaleMeta(sent)
  /\ staleRun' = IF staleRun = 2 THEN 2 ELSE staleRun + 1

(* check_stale_deadline: the reference is the last fresh publication, or   *)
(* before any the last send.                                               *)
SendRestartsDeadline(sent) == IF sent # Never THEN sent ELSE freshAge  \* mutant

StaleReference(sent) == IF freshAge # Never THEN freshAge ELSE sent

DeadlineOffByOne(sent) == StaleReference(sent) > StaleAfter        \* mutant

DeadlineDue(sent) == StaleReference(sent) >= StaleAfter

(* BotifiedStdoutWriter.enqueue, for an answer with a frame for Botified   *)
(* or without: a full queue drops its oldest frame.                        *)
Enqueue == queued' \in {queued, IF queued < QueueCap THEN queued + 1 ELSE queued}

(* _publish_fresh_visual_state and what process_one does after it.         *)
PublishFresh(f) ==
  /\ sample' = [kind |-> "fresh", frame |-> f]
  /\ lastMeta' = f /\ freshAge' = 0 /\ staleKey' = NoFrame
  /\ lastSent' = NoFrame /\ sentAge' = Never
  /\ staleRun' = 0
  /\ Enqueue

-----------------------------------------------------------------------------
(* VisualEventsServiceClient.request_frame, inside the process_one task *)

TaskRuns == phase \in {"running", "reaping"}

(* _close_connection forgets the socket first and then awaits its close.   *)
KeepsConnection == task' = "closing" /\ UNCHANGED linkVars           \* mutant

CloseConnection ==
  /\ conn' = "none" /\ uplink' = <<>> /\ downlink' = <<>>
  /\ task' = "closing"

Connect ==
  /\ TaskRuns /\ task = "connect"
  /\ \/ conn' = "open" /\ task' = "send"
     \/ conn' = "none" /\ task' = "returned"
  /\ UNCHANGED <<camera, slot, nextFrame, waited, uplink, downlink, staleVars,
                 gazeVars, pipeVars, bridge, loopVars>>

Send ==
  /\ TaskRuns /\ task = "send"
  /\ \/ /\ task' = "recv" /\ waited' = 0
        /\ uplink' = IF conn = "open" THEN Append(uplink, InFlight) ELSE uplink
        /\ UNCHANGED <<conn, downlink>>
     \/ /\ conn = "broken"
        /\ CloseConnection
        /\ UNCHANGED waited
  /\ UNCHANGED <<camera, slot, nextFrame, staleVars, gazeVars, pipeVars, bridge,
                 loopVars>>

AnyState(a) == a.kind = "state"                                      \* mutant

AnswersRequest(a) == a.kind = "state" /\ a.frame = InFlight

(* The answer in hand, what request_frame and then process_one do with it. *)
HandleAnswer(a) ==
  \/ /\ AnswersRequest(a) /\ bridge = "up"
     /\ PublishFresh(a.frame)
     /\ task' = "returned"
     /\ downlink' = Tail(downlink)
     /\ UNCHANGED <<conn, uplink>>
  \/ /\ AnswersRequest(a) /\ bridge = "failed"
     /\ task' = "raised"                       \* gaze_publisher.publish raises
     /\ downlink' = Tail(downlink)
     /\ UNCHANGED <<conn, uplink, staleVars, gazeVars, queued>>
  \/ /\ a.kind = "retryable"
     /\ task' = "returned"
     /\ downlink' = Tail(downlink)
     /\ UNCHANGED <<conn, uplink, staleVars, gazeVars, queued>>
  \/ /\ \/ a.kind \in {"fatal", "garbage"}
        \/ a.kind = "state" /\ ~AnswersRequest(a)
     /\ CloseConnection
     /\ UNCHANGED <<staleVars, gazeVars, queued>>

Recv ==
  /\ TaskRuns /\ task = "recv" /\ downlink # <<>>
  /\ HandleAnswer(Head(downlink))
  /\ UNCHANGED <<camera, slot, nextFrame, waited, pipe, drain, bridge, loopVars>>

(* recv raises once the peer is gone and nothing it sent is left to read.  *)
RecvFails ==
  /\ TaskRuns /\ task = "recv" /\ conn = "broken" /\ downlink = <<>>
  /\ CloseConnection
  /\ UNCHANGED <<camera, slot, nextFrame, waited, staleVars, gazeVars, pipeVars,
                 bridge, loopVars>>

(* A late answer may already be there: it goes down with the connection.   *)
RecvTimeout ==
  /\ TaskRuns /\ task = "recv" /\ waited >= ResponseTimeout
  /\ CloseConnection
  /\ UNCHANGED <<camera, slot, nextFrame, waited, staleVars, gazeVars, pipeVars,
                 bridge, loopVars>>

CloseDone ==
  /\ TaskRuns /\ task = "closing"
  /\ task' = "returned"
  /\ UNCHANGED <<camera, slot, nextFrame, waited, linkVars, staleVars, gazeVars,
                 pipeVars, bridge, loopVars>>

-----------------------------------------------------------------------------
(* RuntimeCoordinator *)

TaskNeverReaped == task = "none"                                     \* mutant

(* _finish_process_task_if_done leaves no task.                            *)
TaskIdle == task \in {"none", "returned"}

(* run_once reads the camera, reaps a finished task and, when none is left *)
(* running, starts process_one up to its first await.                      *)
StartProcessTask ==
  LET frame == slot = 1 \/ camera = 1
  IN /\ camera' = 0
     /\ \/ /\ TaskIdle /\ frame
           /\ slot' = 0
           /\ nextFrame' = nextFrame + 1
           /\ task' = IF conn = "none" THEN "connect" ELSE "send"
           /\ lastSent' = nextFrame /\ sentAge' = 0
        \/ /\ TaskIdle /\ ~frame
           /\ task' = "none"
           /\ UNCHANGED <<slot, nextFrame, lastSent, sentAge>>
        \/ /\ ~TaskIdle
           /\ slot' = IF frame THEN 1 ELSE 0
           /\ UNCHANGED <<nextFrame, task, lastSent, sentAge>>

(* run_once.  The deadline passing and a drain thread that met a closed    *)
(* pipe both end in publish_stale_now; the second also ends the program.   *)
RunOnce ==
  /\ phase = "running" /\ bridge = "up"
  /\ StartProcessTask
  /\ LET publish == /\ DeadlineDue(sentAge') \/ drain = "broken"
                    /\ CanPublishStale(lastSent')
     IN \/ publish /\ PublishStaleNow(lastSent')
        \/ ~publish /\ UNCHANGED <<sample, staleKey, staleRun>>
  /\ \/ /\ drain = "broken"
        /\ drain' = "none" /\ exitCode' = "3" /\ phase' = "stopping"
     \/ /\ drain # "broken"
        /\ drain' = "running"
        /\ UNCHANGED <<exitCode, phase>>
  /\ ticked' = 1
  /\ UNCHANGED <<waited, linkVars, lastMeta, freshAge, queued, pipe, bridge>>

(* poll_latest, the first thing run_once does, raises once the bridge has  *)
(* failed: the loop unwinds with the process task still to be awaited.     *)
RunOnceRaises ==
  /\ phase = "running" /\ bridge = "failed"
  /\ exitCode' = "exception" /\ phase' = "stopping"
  /\ UNCHANGED <<camera, pumpVars, linkVars, staleVars, gazeVars, pipeVars, bridge,
                 ticked>>

(* stop_requested or max_ticks, at the top of _run_runtime_loop.           *)
StopRequested ==
  /\ phase = "running"
  /\ exitCode' = "0" /\ phase' = "stopping"
  /\ UNCHANGED <<camera, pumpVars, linkVars, staleVars, gazeVars, pipeVars, bridge,
                 ticked>>

AwaitsProcessTask ==                                                 \* mutant
  /\ phase = "stopping"
  /\ phase' = IF task = "none" THEN "draining" ELSE "reaping"
  /\ UNCHANGED <<camera, pumpVars, linkVars, staleVars, gazeVars, pipeVars, bridge,
                 exitCode, ticked>>

(* _shutdown_task: cancel the process task and await it.  CancelledError   *)
(* passes through request_frame, which leaves the connection to close_all. *)
(* On Python 3.11, the oldest the package allows, asyncio.wait_for returns *)
(* an answer it already holds instead: the cancel is swallowed.            *)
CancelProcessTask ==
  /\ phase = "stopping"
  /\ \/ /\ task # "raised"
        /\ task' = "none" /\ phase' = "draining"
        /\ UNCHANGED <<linkVars, staleVars, gazeVars, queued>>
     \/ /\ task = "recv" /\ downlink # <<>>
        /\ HandleAnswer(Head(downlink))
        /\ phase' = "reaping"
     \/ /\ task = "raised"
        /\ phase' = "reaping"
        /\ UNCHANGED <<task, linkVars, staleVars, gazeVars, queued>>
  /\ UNCHANGED <<camera, slot, nextFrame, waited, pipe, drain, bridge, exitCode,
                 ticked>>

(* The awaited task ends; its exception skips the drain task's shutdown.   *)
ReapProcessTask ==
  /\ phase = "reaping" /\ task \in {"returned", "raised"}
  /\ task' = "none"
  /\ \/ task = "returned" /\ phase' = "draining" /\ UNCHANGED <<exitCode, linkVars>>
     \/ /\ task = "raised" /\ phase' = "stopped" /\ exitCode' = "exception"
        /\ conn' = "none" /\ uplink' = <<>> /\ downlink' = <<>>
  /\ UNCHANGED <<camera, slot, nextFrame, waited, staleVars, gazeVars, pipeVars,
                 bridge, ticked>>

(* What the program ends with: a failed bridge makes publish_stale_now     *)
(* raise before the exit code is set, and an exception already on its way  *)
(* outranks a pipe found closed by the drain.                              *)
FinalExitCode(raises) ==
  IF exitCode = "exception" \/ raises THEN "exception"
  ELSE IF drain = "broken" THEN "3" ELSE exitCode

(* _shutdown_botified_drain_task on whatever became of the drain, and then *)
(* close_all.                                                              *)
EndDrain ==
  /\ phase' = "stopped" /\ drain' = "none"
  /\ conn' = "none" /\ uplink' = <<>> /\ downlink' = <<>>
  /\ LET publish == drain = "broken" /\ CanPublishStale(lastSent)
     IN /\ \/ publish /\ bridge = "up" /\ PublishStaleNow(lastSent)
           \/ ~(publish /\ bridge = "up") /\ UNCHANGED <<sample, staleKey, staleRun>>
        /\ exitCode' = FinalExitCode(publish /\ bridge = "failed")
  /\ UNCHANGED <<camera, pumpVars, lastSent, sentAge, lastMeta, freshAge, queued,
                 pipe, bridge, ticked>>

AwaitsDrain == phase = "draining" /\ drain # "running" /\ EndDrain    \* mutant

(* A drain that is still running after 10 ms is left behind.               *)
FinishShutdown == phase = "draining" /\ EndDrain

-----------------------------------------------------------------------------
(* The drain thread, and the actors outside the program *)

(* drain_available, one frame at a time: the queue runs empty, a frame is  *)
(* written, or a frame is taken and the write finds the pipe closed.  It   *)
(* outlives shutdown's 10 ms only as a daemon thread nobody listens to.    *)
DrainThread ==
  /\ drain = "running" /\ phase # "stopped"
  /\ \/ queued = 0 /\ drain' = "ok" /\ UNCHANGED queued
     \/ queued > 0 /\ pipe = "open" /\ queued' = queued - 1 /\ UNCHANGED drain
     \/ queued > 0 /\ pipe = "closed" /\ queued' = queued - 1 /\ drain' = "broken"
  /\ UNCHANGED <<camera, pumpVars, linkVars, staleVars, gazeVars, pipe, bridge,
                 loopVars>>

PipeCloses ==
  /\ pipe = "open" /\ phase # "stopped"
  /\ pipe' = "closed"
  /\ UNCHANGED <<camera, pumpVars, linkVars, staleVars, gazeVars, queued, drain,
                 bridge, loopVars>>

BridgeFails ==
  /\ bridge = "up" /\ phase # "stopped"
  /\ bridge' = "failed"
  /\ UNCHANGED <<camera, pumpVars, linkVars, staleVars, gazeVars, pipeVars, loopVars>>

(* The newest frame replaces one nobody polled.  Bound: MaxFrames.         *)
CameraFrame ==
  /\ phase = "running" /\ bridge = "up"
  /\ camera = 0 /\ nextFrame <= MaxFrames
  /\ camera' = 1
  /\ UNCHANGED <<pumpVars, linkVars, staleVars, gazeVars, pipeVars, bridge, loopVars>>

(* One message per frame, for any frame id the service has ever been sent. *)
ServiceAnswers ==
  /\ phase # "stopped" /\ conn = "open" /\ uplink # <<>>
  /\ \E a \in Answer :
       /\ a.frame < nextFrame
       /\ downlink' = Append(downlink, a)
  /\ uplink' = Tail(uplink)
  /\ UNCHANGED <<camera, pumpVars, conn, staleVars, gazeVars, pipeVars, bridge,
                 loopVars>>

ServiceDrops ==
  /\ phase # "stopped" /\ conn = "open"
  /\ conn' = "broken" /\ uplink' = <<>>
  /\ UNCHANGED <<camera, pumpVars, downlink, staleVars, gazeVars, pipeVars, bridge,
                 loopVars>>

Older(age, limit) == IF age = Never \/ age > limit THEN age ELSE age + 1

TimePasses ==
  /\ phase = "running" /\ ticked = 1
  /\ ticked' = 0
  /\ sentAge' = Older(sentAge, StaleAfter)
  /\ freshAge' = Older(freshAge, StaleAfter)
  /\ waited' = IF task = "recv" THEN Older(waited, ResponseTimeout - 1) ELSE 0
  /\ UNCHANGED <<camera, slot, nextFrame, task, linkVars, lastSent, lastMeta,
                 staleKey, gazeVars, pipeVars, bridge, phase, exitCode>>

Stopped == phase = "stopped" /\ UNCHANGED vars

Client == Connect \/ Send \/ Recv \/ RecvFails \/ RecvTimeout \/ CloseDone

Coordinator ==
  \/ RunOnce \/ RunOnceRaises \/ StopRequested
  \/ CancelProcessTask \/ ReapProcessTask \/ FinishShutdown

Environment ==
  \/ DrainThread \/ PipeCloses \/ BridgeFails \/ CameraFrame
  \/ ServiceAnswers \/ ServiceDrops \/ TimePasses \/ Stopped

Next == Client \/ Coordinator \/ Environment

(* The loop keeps calling run_once and shutdown runs to its end; connect,  *)
(* send and close have the library's own timeouts; time goes by.  Nothing  *)
(* is assumed of the camera, the service, the stdout reader or the drain   *)
(* thread, which a reader that stops reading blocks for ever.              *)
Fairness ==
  /\ WF_vars(RunOnce \/ RunOnceRaises)
  /\ WF_vars(CancelProcessTask) /\ WF_vars(ReapProcessTask) /\ WF_vars(FinishShutdown)
  /\ WF_vars(Connect) /\ WF_vars(Send) /\ WF_vars(Recv) /\ WF_vars(RecvTimeout)
  /\ WF_vars(CloseDone)
  /\ WF_vars(TimePasses)

Spec == Init /\ [][Next]_vars

FairSpec == Spec /\ Fairness

-----------------------------------------------------------------------------
(* Correctness *)

TypeOK ==
  /\ camera \in 0..1 /\ slot \in 0..1
  /\ nextFrame \in 1..(MaxFrames + 1)
  /\ task \in TaskStates
  /\ waited \in 0..ResponseTimeout
  /\ conn \in {"none", "open", "broken"}
  /\ uplink \in Seq(FrameIds) /\ downlink \in Seq(Answer)
  /\ lastSent \in 0..MaxFrames /\ lastMeta \in 0..MaxFrames
  /\ staleKey \in 0..MaxFrames
  /\ sentAge \in Age /\ freshAge \in Age
  /\ sample \in Sample /\ staleRun \in 0..2
  /\ queued \in 0..QueueCap /\ pipe \in {"open", "closed"}
  /\ drain \in {"none", "running", "ok", "broken"}
  /\ bridge \in {"up", "failed"}
  /\ phase \in {"running", "stopping", "reaping", "draining", "stopped"}
  /\ exitCode \in {"none", "0", "3", "exception"}
  /\ ticked \in 0..1

(* At most one frame is in flight, and whatever is on a connection belongs *)
(* to the request being waited for: request_frame closes the connection on *)
(* every path that leaves an answer unread, so a late answer can never be  *)
(* taken for the answer to the next frame.                                 *)
OneInFlight ==
  phase = "running" =>
    /\ Len(uplink) + Len(downlink) <= 1
    /\ uplink # <<>> => task = "recv" /\ Head(uplink) = InFlight
    /\ downlink # <<>> => task = "recv"

(* A fresh gaze target is always for a frame sent after the one behind the *)
(* previous fresh target, through timeouts, reconnects and answers for the *)
(* wrong frame: the robot never turns back to an older picture.            *)
PublishedFresh == sample' # sample /\ sample'.kind = "fresh"

GazeMovesForward ==
  [][PublishedFresh => sample'.frame > lastMeta]_vars

(* check_stale_deadline keeps its promise while requests hang, connections *)
(* fail and frames keep coming: one tick after the deadline at the latest, *)
(* the target last published is no longer a valid one.                     *)
ValidIsYoung ==
  phase = "running" /\ sample.kind = "fresh" => freshAge <= StaleAfter

(* Between two fresh targets at most one stale sample goes out, whichever  *)
(* of the deadline, a closed pipe and the shutdown ask for it.             *)
StaleOnce == lastMeta # NoFrame => staleRun <= 1

(* Both promises of the stale deadline: a valid target goes in time, and   *)
(* what withdraws it goes out once (frame_pump.py, check_stale_deadline).  *)
WithdrawnInTime == ValidIsYoung /\ StaleOnce

(* The step in which the CLI gives up because stdout is closed leaves no   *)
(* valid target (_handle_botified_pipe_closed), on whichever way it was    *)
(* noticed.  After it a valid target can only come from the step that      *)
(* cancels the process task, when its wait swallows the cancel, and for    *)
(* the frame in flight: shutdown itself waits for no further answer.       *)
AnswerInHand == phase = "stopping" /\ phase' # phase /\ sample'.frame = InFlight

PipeClosedWithdraws ==
  [][exitCode' = "3" /\ sample'.kind = "fresh" =>
       exitCode = "3" /\ (UNCHANGED sample \/ AnswerInHand)]_vars

(* protocol.md:356, on a closed stdout: "publish valid=false,state=stale   *)
(* once, then exit non-zero in a controlled way".  TLC refutes it: a       *)
(* cancelled process_one that holds its answer publishes it after that.    *)
PipeClosedEndsInvalid == exitCode = "3" => sample.kind # "fresh"

(* How the program ends is decided once and only outranked: a closed pipe  *)
(* outranks a requested stop, an exception outranks both.                  *)
ExitCodeOutranks ==
  [][exitCode' # exitCode => \/ exitCode = "none"
                             \/ exitCode = "0" /\ exitCode' = "3"
                             \/ exitCode' = "exception"]_vars

(* The runtime implements the promise made to the gaze topic's subscriber. *)
Watchdog == INSTANCE GazeWatchdog
              WITH last <- lastMeta, age <- freshAge,
                   stage <- IF phase = "running" THEN "live"
                            ELSE IF phase = "stopping" THEN "ending" ELSE "ended"

WatchdogSafety == Watchdog!GSpec

(* ... and keeps it in time: a valid target is withdrawn or replaced, it   *)
(* never just stays on the topic while the loop runs.                      *)
WatchdogFair == Watchdog!GFairSpec

(* No request wedges the pump: a frame polled while another is in flight   *)
(* is sent in the end, whatever the service does or fails to do.           *)
FramesKeepFlowing == slot = 1 ~> (slot = 0 \/ phase # "running")

(* Shutdown always ends, also when stdout's reader has stopped reading and *)
(* the drain thread is blocked for good.                                   *)
ShutdownEnds == phase # "running" ~> phase = "stopped"

-----------------------------------------------------------------------------
(* What the proofs of the safety properties need besides TypeOK; every     *)
(* conjunct says how the bookkeeping of one part stays in step.            *)

SendsWithinBound ==
  /\ camera = 1 \/ slot = 1 => nextFrame <= MaxFrames
  /\ task \in {"connect", "send", "recv"} => nextFrame >= 2

FreshBeforeSends ==
  /\ lastMeta < nextFrame
  /\ task \in {"connect", "send", "recv"} => lastMeta < InFlight
  /\ lastMeta = NoFrame <=> freshAge = Never

(* The stale key is the last fresh frame exactly when that was withdrawn.  *)
StaleBookkeeping ==
  /\ sample.kind = "fresh" => lastMeta # NoFrame
  /\ lastMeta # NoFrame =>
       \/ sample = [kind |-> "fresh", frame |-> lastMeta]
          /\ staleKey = NoFrame /\ staleRun = 0
       \/ sample = [kind |-> "stale", frame |-> lastMeta]
          /\ staleKey = lastMeta /\ staleRun = 1

DeadlineKept ==
  phase = "running" /\ sample.kind = "fresh" =>
    freshAge < (IF ticked = 1 THEN StaleAfter ELSE StaleAfter + 1)

EndIsFinal ==
  /\ exitCode = "none" <=> phase = "running"
  /\ phase = "reaping" => task \in {"closing", "returned", "raised"}
  /\ phase \in {"draining", "stopped"} => task = "none"

IInv ==
  /\ TypeOK /\ SendsWithinBound /\ OneInFlight /\ FreshBeforeSends
  /\ StaleBookkeeping /\ DeadlineKept /\ EndIsFinal
=============================================================================
