--------------------------- MODULE CliRuntimeProofs ---------------------------
(***************************************************************************)
(* Safety of CliRuntime for every value of its constants.                  *)
(***************************************************************************)
EXTENDS CliRuntime, TLAPS

LEMMA EmptyIsSeq == ASSUME NEW S PROVE <<>> \in Seq(S)
  OBVIOUS

LEMMA InitIInv == Init => IInv
  BY CliAssumption
  DEF Init, IInv, TypeOK, SendsWithinBound, OneInFlight, FreshBeforeSends,
      StaleBookkeeping, DeadlineKept, EndIsFinal, NoFrame, Never, FrameIds, Age,
      Sample, Answer, TaskStates, InFlight

(* Every step keeps the types; the bound on frame ids is what the send     *)
(* bookkeeping is for.                                                     *)
LEMMA TypeStep == TypeOK /\ SendsWithinBound /\ [Next]_vars => TypeOK'
<1> SUFFICES ASSUME TypeOK, SendsWithinBound, [Next]_vars PROVE TypeOK'
  OBVIOUS
<1> USE CliAssumption DEF TypeOK, NoFrame, Never, FrameIds, Age, Sample, TaskStates,
        InFlight, pumpVars, linkVars, staleVars, gazeVars, pipeVars, loopVars
<1>1. CASE Connect
  BY <1>1 DEF Connect
<1>2. CASE Send
  <2>1. nextFrame - 1 \in 1..MaxFrames
    BY <1>2 DEF Send, SendsWithinBound
  <2>2. Append(uplink, nextFrame - 1) \in Seq(1..MaxFrames)
    BY <2>1
  <2>3. CASE CloseConnection /\ UNCHANGED waited
    BY <1>2, <2>3, EmptyIsSeq DEF Send, CloseConnection
  <2>4. CASE /\ task' = "recv" /\ waited' = 0
             /\ uplink' \in {uplink, Append(uplink, nextFrame - 1)}
             /\ UNCHANGED <<conn, downlink>>
    <3>1. uplink' \in Seq(1..MaxFrames)
      BY <2>2, <2>4
    <3>2. UNCHANGED <<camera, slot, nextFrame, staleVars, gazeVars, pipeVars, bridge,
                      loopVars, conn, downlink>>
      BY <1>2, <2>4 DEF Send
    <3> HIDE DEF FrameIds
    <3> QED
      BY <2>4, <3>1, <3>2 DEF FrameIds
  <2> QED
    BY <1>2, <2>3, <2>4 DEF Send
<1>3. ASSUME NEW a \in Answer, HandleAnswer(a), downlink # <<>>
      PROVE  /\ task' \in TaskStates
             /\ conn' \in {"none", "open", "broken"}
             /\ uplink' \in Seq(FrameIds) /\ downlink' \in Seq(Answer)
             /\ lastSent' \in 0..MaxFrames /\ lastMeta' \in 0..MaxFrames
             /\ staleKey' \in 0..MaxFrames
             /\ sentAge' \in Age /\ freshAge' \in Age
             /\ sample' \in Sample /\ staleRun' \in 0..2
             /\ queued' \in 0..QueueCap
  <2>1. a.kind = "state" => a.frame \in 1..MaxFrames
    BY DEF Answer
  <2>2. Tail(downlink) \in Seq(Answer)
    BY <1>3
  <2>3. CASE PublishFresh(a.frame) /\ a.kind = "state" /\ task' = "returned"
             /\ downlink' = Tail(downlink) /\ UNCHANGED <<conn, uplink>>
    BY <2>1, <2>2, <2>3 DEF PublishFresh, Enqueue
  <2>4. CASE CloseConnection /\ UNCHANGED <<staleVars, gazeVars, queued>>
    BY <2>4 DEF CloseConnection
  <2>5. CASE /\ task' \in {"raised", "returned"} /\ downlink' = Tail(downlink)
             /\ UNCHANGED <<conn, uplink, staleVars, gazeVars, queued>>
    BY <2>2, <2>5
  <2> QED
    BY <1>3, <2>3, <2>4, <2>5 DEF HandleAnswer, AnswersRequest
<1>4. downlink # <<>> => Head(downlink) \in Answer
  OBVIOUS
<1>5. CASE Recv
  BY <1>3, <1>4, <1>5 DEF Recv
<1>6. CASE RecvFails
  BY <1>6 DEF RecvFails, CloseConnection
<1>7. CASE RecvTimeout
  BY <1>7 DEF RecvTimeout, CloseConnection
<1>8. CASE CloseDone
  BY <1>8 DEF CloseDone
<1>9. CASE RunOnce
  <2>1. /\ camera' \in 0..1 /\ slot' \in 0..1
        /\ nextFrame' \in 1..(MaxFrames + 1)
        /\ task' \in TaskStates
        /\ lastSent' \in 0..MaxFrames /\ sentAge' \in Age
    BY <1>9 DEF RunOnce, StartProcessTask, TaskIdle, SendsWithinBound
  <2>2. sample' \in Sample /\ staleKey' \in 0..MaxFrames /\ staleRun' \in 0..2
    BY <1>9, <2>1 DEF RunOnce, PublishStaleNow, StaleMeta
  <2> QED
    BY <1>9, <2>1, <2>2 DEF RunOnce
<1>10. CASE RunOnceRaises
  BY <1>10 DEF RunOnceRaises
<1>11. CASE StopRequested
  BY <1>11 DEF StopRequested
<1>12. CASE CancelProcessTask
  <2>1. CASE HandleAnswer(Head(downlink)) /\ downlink # <<>> /\ phase' = "reaping"
    BY <1>3, <1>4, <1>12, <2>1 DEF CancelProcessTask
  <2> QED
    BY <1>12, <2>1 DEF CancelProcessTask
<1>13. CASE ReapProcessTask
  BY <1>13, EmptyIsSeq DEF ReapProcessTask
<1>14. CASE FinishShutdown
  <2>1. sample' \in Sample /\ staleKey' \in 0..MaxFrames /\ staleRun' \in 0..2
    BY <1>14 DEF FinishShutdown, EndDrain, FinalExitCode, PublishStaleNow, StaleMeta
  <2>2. exitCode' \in {"none", "0", "3", "exception"}
    BY <1>14 DEF FinishShutdown, EndDrain, FinalExitCode
  <2> QED
    BY <1>14, <2>1, <2>2 DEF FinishShutdown, EndDrain, FinalExitCode
<1>15. CASE DrainThread
  BY <1>15 DEF DrainThread
<1>16. CASE PipeCloses
  BY <1>16 DEF PipeCloses
<1>17. CASE BridgeFails
  BY <1>17 DEF BridgeFails
<1>18. CASE CameraFrame
  BY <1>18 DEF CameraFrame
<1>19. CASE ServiceAnswers
  BY <1>19 DEF ServiceAnswers
<1>20. CASE ServiceDrops
  BY <1>20 DEF ServiceDrops
<1>21. CASE TimePasses
  BY <1>21 DEF TimePasses, Older
<1>22. CASE UNCHANGED vars
  BY <1>22 DEF vars
<1> QED
  BY <1>1, <1>2, <1>5, <1>6, <1>7, <1>8, <1>9, <1>10, <1>11, <1>12, <1>13, <1>14,
     <1>15, <1>16, <1>17, <1>18, <1>19, <1>20, <1>21, <1>22
  DEF Next, Client, Coordinator, Environment, Stopped

(* A frame is polled only while an id is left for it.                      *)
LEMMA SendsStep == IInv /\ [Next]_vars => SendsWithinBound'
<1> SUFFICES ASSUME IInv, [Next]_vars PROVE SendsWithinBound'
  OBVIOUS
<1> USE CliAssumption DEF IInv, TypeOK, SendsWithinBound, NoFrame, Never, FrameIds, Age,
                          Sample, TaskStates, InFlight,
        pumpVars, linkVars, staleVars, gazeVars, pipeVars, loopVars
<1>1. CASE RunOnce
  BY <1>1 DEF RunOnce, StartProcessTask, TaskIdle
<1>2. CASE CameraFrame
  BY <1>2 DEF CameraFrame
<1>3. CASE Recv
  BY <1>3 DEF Recv, HandleAnswer, AnswersRequest, PublishFresh, Enqueue, CloseConnection,
              TaskRuns
<1>4. CASE CancelProcessTask
  BY <1>4 DEF CancelProcessTask, HandleAnswer, AnswersRequest, PublishFresh, Enqueue,
              CloseConnection
<1>5. CASE \/ Connect \/ Send \/ RecvFails \/ RecvTimeout \/ CloseDone
          \/ RunOnceRaises \/ StopRequested \/ ReapProcessTask \/ FinishShutdown \/ DrainThread
          \/ PipeCloses \/ BridgeFails \/ ServiceAnswers \/ ServiceDrops \/ TimePasses
          \/ UNCHANGED vars
  BY <1>5 DEF Connect, TaskRuns, Send, CloseConnection, RecvFails, RecvTimeout,
            CloseDone, RunOnceRaises, StopRequested, ReapProcessTask, FinishShutdown,
            EndDrain, FinalExitCode, DrainThread,
            PipeCloses, BridgeFails, ServiceAnswers, ServiceDrops, TimePasses, Older,
            vars
<1> QED
  BY <1>1, <1>2, <1>3, <1>4, <1>5 DEF Next, Client, Coordinator, Environment, Stopped

(* One request at a time: a send finds the link empty, an answer empties   *)
(* it, and every other way out of recv closes it.                          *)
LEMMA InFlightStep == IInv /\ [Next]_vars => OneInFlight'
<1> SUFFICES ASSUME IInv, [Next]_vars PROVE OneInFlight'
  OBVIOUS
<1> USE CliAssumption DEF IInv, TypeOK, OneInFlight, SendsWithinBound, NoFrame, Never,
                          FrameIds, Age, Sample, TaskStates, InFlight,
        pumpVars, linkVars, staleVars, gazeVars, pipeVars, loopVars
<1>1. CASE Connect
  BY <1>1 DEF Connect, TaskRuns
<1>2. CASE Send
  BY <1>2 DEF Send, CloseConnection, TaskRuns
<1>3. CASE Recv
  BY <1>3 DEF Recv, HandleAnswer, AnswersRequest, PublishFresh, Enqueue, CloseConnection,
              TaskRuns
<1>4. CASE RecvFails
  BY <1>4 DEF RecvFails, CloseConnection, TaskRuns
<1>5. CASE RecvTimeout
  BY <1>5 DEF RecvTimeout, CloseConnection, TaskRuns
<1>6. CASE RunOnce
  BY <1>6 DEF RunOnce, StartProcessTask, TaskIdle
<1>7. CASE ServiceAnswers
  BY <1>7 DEF ServiceAnswers
<1>8. CASE ServiceDrops
  BY <1>8 DEF ServiceDrops
<1>9. CASE \/ CloseDone \/ RunOnceRaises \/ StopRequested \/ CancelProcessTask \/ ReapProcessTask
          \/ FinishShutdown \/ DrainThread \/ PipeCloses \/ BridgeFails \/ CameraFrame
          \/ TimePasses
          \/ UNCHANGED vars
  BY <1>9 DEF CloseDone, RunOnceRaises, StopRequested, CancelProcessTask, HandleAnswer,
              AnswersRequest, PublishFresh, Enqueue,
            CloseConnection, ReapProcessTask, FinishShutdown, EndDrain, FinalExitCode,
            DrainThread, PipeCloses, BridgeFails,
            CameraFrame, TimePasses, Older, vars
<1> QED
  BY <1>1, <1>2, <1>3, <1>4, <1>5, <1>6, <1>7, <1>8, <1>9 DEF Next, Client, Coordinator,
                                                              Environment, Stopped

(* The last fresh frame was sent before the one in flight.                 *)
LEMMA FreshStep == IInv /\ [Next]_vars => FreshBeforeSends'
<1> SUFFICES ASSUME IInv, [Next]_vars PROVE FreshBeforeSends'
  OBVIOUS
<1> USE CliAssumption DEF IInv, TypeOK, FreshBeforeSends, SendsWithinBound, NoFrame, Never,
                          FrameIds, Age, Sample, TaskStates, InFlight,
        pumpVars, linkVars, staleVars, gazeVars, pipeVars, loopVars
<1>1. CASE Recv
  BY <1>1 DEF Recv, HandleAnswer, AnswersRequest, PublishFresh, Enqueue, CloseConnection,
              TaskRuns
<1>2. CASE RunOnce
  BY <1>2 DEF RunOnce, StartProcessTask, TaskIdle
<1>3. CASE CancelProcessTask
  BY <1>3 DEF CancelProcessTask, HandleAnswer, AnswersRequest, PublishFresh, Enqueue,
              CloseConnection
<1>4. CASE TimePasses
  BY <1>4 DEF TimePasses, Older
<1>5. CASE \/ Connect \/ Send \/ RecvFails \/ RecvTimeout \/ CloseDone
          \/ RunOnceRaises \/ StopRequested \/ ReapProcessTask \/ FinishShutdown \/ DrainThread
          \/ PipeCloses \/ BridgeFails \/ CameraFrame \/ ServiceAnswers \/ ServiceDrops
          \/ UNCHANGED vars
  BY <1>5 DEF Connect, TaskRuns, Send, CloseConnection, RecvFails, RecvTimeout,
            CloseDone, RunOnceRaises, StopRequested, ReapProcessTask, FinishShutdown,
            EndDrain, FinalExitCode, DrainThread,
            PipeCloses, BridgeFails, CameraFrame, ServiceAnswers, ServiceDrops, vars
<1> QED
  BY <1>1, <1>2, <1>3, <1>4, <1>5 DEF Next, Client, Coordinator, Environment, Stopped

(* publish_stale_now and the fresh publication are the only ones to touch  *)
(* the stale key, and keep it in step with the sample.                     *)
LEMMA StaleStep == IInv /\ [Next]_vars => StaleBookkeeping'
<1> SUFFICES ASSUME IInv, [Next]_vars PROVE StaleBookkeeping'
  OBVIOUS
<1> USE CliAssumption DEF IInv, TypeOK, StaleBookkeeping, FreshBeforeSends, NoFrame, Never,
                          FrameIds, Age, Sample, TaskStates, InFlight,
        pumpVars, linkVars, staleVars, gazeVars, pipeVars, loopVars
<1>1. CASE Recv
  BY <1>1 DEF Recv, HandleAnswer, AnswersRequest, PublishFresh, Enqueue, CloseConnection,
              TaskRuns
<1>2. CASE RunOnce
  BY <1>2 DEF RunOnce, StartProcessTask, TaskIdle, PublishStaleNow, CanPublishStale,
              StaleMeta,
            DeadlineDue, StaleReference
<1>3. CASE CancelProcessTask
  BY <1>3 DEF CancelProcessTask, HandleAnswer, AnswersRequest, PublishFresh, Enqueue,
              CloseConnection
<1>4. CASE FinishShutdown
  BY <1>4 DEF FinishShutdown, EndDrain, FinalExitCode, PublishStaleNow, CanPublishStale,
              StaleMeta
<1>5. CASE \/ Connect \/ Send \/ RecvFails \/ RecvTimeout \/ CloseDone
          \/ RunOnceRaises \/ StopRequested \/ ReapProcessTask \/ DrainThread \/ PipeCloses
          \/ BridgeFails \/ CameraFrame \/ ServiceAnswers \/ ServiceDrops \/ TimePasses
          \/ UNCHANGED vars
  BY <1>5 DEF Connect, TaskRuns, Send, CloseConnection, RecvFails, RecvTimeout,
            CloseDone, RunOnceRaises, StopRequested, ReapProcessTask, DrainThread, PipeCloses,
            BridgeFails, CameraFrame, ServiceAnswers, ServiceDrops, TimePasses, Older,
            vars
<1> QED
  BY <1>1, <1>2, <1>3, <1>4, <1>5 DEF Next, Client, Coordinator, Environment, Stopped

(* run_once withdraws the target in the tick its deadline falls in.        *)
LEMMA DeadlineStep == IInv /\ [Next]_vars => DeadlineKept'
<1> SUFFICES ASSUME IInv, [Next]_vars PROVE DeadlineKept'
  OBVIOUS
<1> USE CliAssumption DEF IInv, TypeOK, DeadlineKept, StaleBookkeeping, FreshBeforeSends,
                          NoFrame, Never, FrameIds, Age, Sample, TaskStates, InFlight,
        pumpVars, linkVars, staleVars, gazeVars, pipeVars, loopVars
<1>1. CASE Recv
  BY <1>1 DEF Recv, HandleAnswer, AnswersRequest, PublishFresh, Enqueue, CloseConnection,
              TaskRuns
<1>2. CASE RunOnce
  BY <1>2 DEF RunOnce, StartProcessTask, TaskIdle, PublishStaleNow, CanPublishStale,
              StaleMeta,
            DeadlineDue, StaleReference
<1>3. CASE CancelProcessTask
  BY <1>3 DEF CancelProcessTask, HandleAnswer, AnswersRequest, PublishFresh, Enqueue,
              CloseConnection
<1>4. CASE TimePasses
  BY <1>4 DEF TimePasses, Older
<1>5. CASE \/ Connect \/ Send \/ RecvFails \/ RecvTimeout \/ CloseDone
          \/ RunOnceRaises \/ StopRequested \/ ReapProcessTask \/ FinishShutdown \/ DrainThread
          \/ PipeCloses \/ BridgeFails \/ CameraFrame \/ ServiceAnswers \/ ServiceDrops
          \/ UNCHANGED vars
  BY <1>5 DEF Connect, TaskRuns, Send, CloseConnection, RecvFails, RecvTimeout,
            CloseDone, RunOnceRaises, StopRequested, ReapProcessTask, FinishShutdown,
            EndDrain, FinalExitCode, PublishStaleNow,
            CanPublishStale, StaleMeta, DrainThread, PipeCloses, BridgeFails, CameraFrame,
            ServiceAnswers, ServiceDrops, vars
<1> QED
  BY <1>1, <1>2, <1>3, <1>4, <1>5 DEF Next, Client, Coordinator, Environment, Stopped

(* Once decided, the end is not revoked.                                   *)
LEMMA EndStep == IInv /\ [Next]_vars => EndIsFinal'
<1> SUFFICES ASSUME IInv, [Next]_vars PROVE EndIsFinal'
  OBVIOUS
<1> USE CliAssumption DEF IInv, TypeOK, EndIsFinal, NoFrame, Never, FrameIds, Age, Sample,
                          TaskStates, InFlight,
        pumpVars, linkVars, staleVars, gazeVars, pipeVars, loopVars
<1>1. CASE RunOnce
  BY <1>1 DEF RunOnce, StartProcessTask, TaskIdle
<1>2. CASE CancelProcessTask
  BY <1>2 DEF CancelProcessTask, HandleAnswer, AnswersRequest, PublishFresh, Enqueue,
              CloseConnection
<1>3. CASE ReapProcessTask
  BY <1>3 DEF ReapProcessTask
<1>4. CASE FinishShutdown
  BY <1>4 DEF FinishShutdown, EndDrain, FinalExitCode
<1>5. CASE \/ Connect \/ Send \/ Recv \/ RecvFails \/ RecvTimeout
          \/ CloseDone \/ RunOnceRaises \/ StopRequested \/ DrainThread \/ PipeCloses
          \/ BridgeFails \/ CameraFrame \/ ServiceAnswers \/ ServiceDrops \/ TimePasses
          \/ UNCHANGED vars
  BY <1>5 DEF Connect, TaskRuns, Send, CloseConnection, Recv, HandleAnswer, AnswersRequest,
            PublishFresh, Enqueue, RecvFails, RecvTimeout, CloseDone, RunOnceRaises,
            StopRequested,
            DrainThread, PipeCloses, BridgeFails, CameraFrame, ServiceAnswers, ServiceDrops,
            TimePasses, Older, vars
<1> QED
  BY <1>1, <1>2, <1>3, <1>4, <1>5 DEF Next, Client, Coordinator, Environment, Stopped

THEOREM Invariance == Spec => []IInv
<1>1. IInv /\ [Next]_vars => TypeOK'
  BY TypeStep DEF IInv
<1>2. IInv /\ [Next]_vars => IInv'
  BY <1>1, SendsStep, InFlightStep, FreshStep, StaleStep, DeadlineStep, EndStep DEF IInv
<1> QED
  BY InitIInv, <1>2, PTL DEF Spec

(* All the variables keep their types.                                     *)
THEOREM TypeCorrect == Spec => []TypeOK
<1>1. IInv => TypeOK
  BY DEF IInv
<1> QED
  BY Invariance, <1>1, PTL

(* A late answer is never read as the answer to the next frame: the link   *)
(* carries at most the request being waited for or its answer.             *)
THEOREM RequestsDoNotCross == Spec => []OneInFlight
<1>1. IInv => OneInFlight
  BY DEF IInv
<1> QED
  BY Invariance, <1>1, PTL

(* A valid gaze target outlives its deadline by one tick at most, however  *)
(* requests hang, time out and reconnect (check_stale_deadline).           *)
THEOREM ValidTargetsAreYoung == Spec => []ValidIsYoung
<1>1. IInv => ValidIsYoung
  BY CliAssumption DEF IInv, DeadlineKept, ValidIsYoung, TypeOK, Age, Never
<1> QED
  BY Invariance, <1>1, PTL

(* At most one stale sample per fresh target (publish_stale_now's key).    *)
THEOREM StalePublishedOnce == Spec => []StaleOnce
<1>1. IInv => StaleOnce
  BY DEF IInv, StaleBookkeeping, StaleOnce
<1> QED
  BY Invariance, <1>1, PTL

(* The two together: what withdraws a target comes in time, and once.      *)
THEOREM TargetsAreWithdrawnInTime == Spec => []WithdrawnInTime
<1>1. ValidIsYoung /\ StaleOnce => WithdrawnInTime
  BY DEF WithdrawnInTime
<1> QED
  BY ValidTargetsAreYoung, StalePublishedOnce, <1>1, PTL

(* Fresh targets move forward in frame order (request_frame's frame_id     *)
(* check and process_one's counter).                                       *)
THEOREM FreshTargetsMoveForward == Spec => GazeMovesForward
<1>1. IInv /\ [Next]_vars => [PublishedFresh => sample'.frame > lastMeta]_vars
  <2> SUFFICES ASSUME IInv, Next, PublishedFresh PROVE sample'.frame > lastMeta
    OBVIOUS
  <2> USE CliAssumption DEF IInv, TypeOK, FreshBeforeSends, NoFrame, InFlight, FrameIds,
          PublishedFresh, pumpVars, linkVars, staleVars, gazeVars, pipeVars, loopVars
  <2>1. CASE Recv
    BY <2>1 DEF Recv, HandleAnswer, AnswersRequest, PublishFresh, Enqueue
  <2>2. CASE CancelProcessTask
    BY <2>2 DEF CancelProcessTask, HandleAnswer, AnswersRequest, PublishFresh, Enqueue
  <2>3. CASE RunOnce \/ FinishShutdown
    BY <2>3 DEF RunOnce, FinishShutdown, EndDrain, FinalExitCode, PublishStaleNow
  <2> QED
    BY <2>1, <2>2, <2>3
    DEF Next, Client, Coordinator, Environment, Stopped, vars, Connect, Send, RecvFails,
        RecvTimeout, CloseDone, RunOnceRaises, StopRequested, ReapProcessTask,
        DrainThread, PipeCloses, BridgeFails, CameraFrame, ServiceAnswers,
        ServiceDrops, TimePasses
<1> QED
  BY Invariance, <1>1, PTL DEF Spec, GazeMovesForward

(* How the program ends is decided once: 3 only replaces a requested stop, *)
(* an exception replaces either (_run_runtime_loop, shutdown).             *)
THEOREM ExitCodesOutrank == Spec => ExitCodeOutranks
<1> DEFINE Outranks == \/ exitCode = "none"
                       \/ exitCode = "0" /\ exitCode' = "3"
                       \/ exitCode' = "exception"
<1>1. IInv /\ [Next]_vars => [exitCode' # exitCode => Outranks]_vars
  <2> SUFFICES ASSUME IInv, Next, exitCode' # exitCode PROVE Outranks
    OBVIOUS
  <2> USE DEF IInv, TypeOK, EndIsFinal
  <2>1. CASE RunOnce \/ RunOnceRaises \/ StopRequested
    BY <2>1 DEF RunOnce, RunOnceRaises, StopRequested
  <2>2. CASE ReapProcessTask \/ FinishShutdown
    BY <2>2 DEF ReapProcessTask, FinishShutdown, EndDrain, FinalExitCode
  <2> QED
    BY <2>1, <2>2
    DEF Next, Client, Coordinator, Environment, Stopped, vars, loopVars, Connect, Send,
        Recv, RecvFails, RecvTimeout, CloseDone, CancelProcessTask, DrainThread,
        PipeCloses, BridgeFails, CameraFrame, ServiceAnswers, ServiceDrops, TimePasses
<1> QED
  BY Invariance, <1>1, PTL DEF Spec, ExitCodeOutranks

(* The only step after the decision to end that publishes a fresh target   *)
(* is the one that cancels the process task, when its wait swallows the    *)
(* cancel; publish_stale_now is all else that touches the gaze topic.      *)
LEMMA FreshAfterTheEnd ==
  ASSUME IInv, Next, phase # "running"
  PROVE  \/ UNCHANGED <<sample, lastMeta, freshAge>>
         \/ PublishStaleNow(lastSent) /\ UNCHANGED <<lastMeta, freshAge>>
         \/ CancelProcessTask /\ PublishFresh(InFlight) /\ task = "recv" /\ phase' = "reaping"
<1> USE DEF IInv, EndIsFinal, TypeOK, pumpVars, linkVars, staleVars, gazeVars, pipeVars,
        loopVars
<1>1. CASE Recv
  BY <1>1 DEF Recv, TaskRuns
<1>2. CASE CancelProcessTask
  BY <1>2 DEF CancelProcessTask, HandleAnswer, AnswersRequest
<1>3. CASE FinishShutdown
  BY <1>3 DEF FinishShutdown, EndDrain, FinalExitCode
<1> QED
  BY <1>1, <1>2, <1>3
  DEF Next, Client, Coordinator, Environment, Stopped, vars, Connect, Send, RecvFails,
      RecvTimeout, CloseDone, RunOnce, RunOnceRaises, StopRequested, ReapProcessTask,
      DrainThread, PipeCloses, BridgeFails, CameraFrame, ServiceAnswers, ServiceDrops,
      TimePasses

(* A closed pipe withdraws whatever target is valid, and only the answer   *)
(* of the request being cancelled may come after it                        *)
(* (_handle_botified_pipe_closed, _shutdown_task).                         *)
THEOREM ClosedPipeWithdraws == Spec => PipeClosedWithdraws
<1> DEFINE Withdrawn == exitCode' = "3" /\ sample'.kind = "fresh" =>
                          exitCode = "3" /\ (UNCHANGED sample \/ AnswerInHand)
<1>1. IInv /\ [Next]_vars => [Withdrawn]_vars
  <2> SUFFICES ASSUME IInv, Next, exitCode' = "3", sample'.kind = "fresh"
               PROVE  exitCode = "3" /\ (UNCHANGED sample \/ AnswerInHand)
    OBVIOUS
  <2> USE DEF IInv, EndIsFinal, StaleBookkeeping, TypeOK, NoFrame
  <2>1. CASE exitCode = "3"
    <3>1. phase # "running"
      BY <2>1
    <3>2. CASE CancelProcessTask /\ PublishFresh(InFlight) /\ phase' = "reaping"
      BY <2>1, <3>2 DEF CancelProcessTask, PublishFresh, AnswerInHand
    <3> QED
      BY <2>1, <3>1, <3>2, FreshAfterTheEnd DEF PublishStaleNow
  <2>2. CASE exitCode # "3"
    <3>1. RunOnce \/ FinishShutdown
      BY <2>2
      DEF Next, Client, Coordinator, Environment, Stopped, vars, loopVars, Connect,
          Send, Recv, RecvFails, RecvTimeout, CloseDone, RunOnceRaises, StopRequested,
          CancelProcessTask, ReapProcessTask, DrainThread, PipeCloses, BridgeFails,
          CameraFrame, ServiceAnswers, ServiceDrops, TimePasses
    <3>2. CASE RunOnce
      BY <2>2, <3>2 DEF RunOnce, PublishStaleNow, CanPublishStale, StaleMeta
    <3>3. CASE FinishShutdown
      BY <2>2, <3>3 DEF FinishShutdown, EndDrain, FinalExitCode, PublishStaleNow,
                        CanPublishStale, StaleMeta
    <3> QED
      BY <3>1, <3>2, <3>3
  <2> QED
    BY <2>1, <2>2
<1> QED
  BY Invariance, <1>1, PTL DEF Spec, PipeClosedWithdraws

-----------------------------------------------------------------------------
(* The refinement *)

(* The runtime keeps the promise made to the gaze topic's subscriber: the  *)
(* steps that publish map to Fresh, Withdraw and NoAnswerYet, the clock to *)
(* Tick, the decision to end and the cancelling of the last request to End *)
(* (or to Fresh, when the wait swallows the cancel), and all else stutters.*)
THEOREM ImplementsWatchdog == Spec => WatchdogSafety
<1> USE CliAssumption DEF NoFrame, Never
<1>1. Init => Watchdog!GInit
  BY DEF Init, Watchdog!GInit
<1>2. IInv /\ [Next]_vars => [Watchdog!GNext]_(Watchdog!gvars)
  <2> SUFFICES ASSUME IInv, [Next]_vars
               PROVE  Watchdog!GNext \/ UNCHANGED Watchdog!gvars
    OBVIOUS
  <2> USE DEF IInv, TypeOK, SendsWithinBound, StaleBookkeeping, FreshBeforeSends,
          EndIsFinal, Age, pumpVars, linkVars, staleVars, gazeVars, pipeVars, loopVars
  <2>1. CASE Recv
    <3>1. phase = "running"
      BY <2>1 DEF Recv, TaskRuns
    <3>2. CASE PublishFresh(InFlight) /\ task = "recv"
      <4>1. InFlight \in 1..MaxFrames /\ InFlight > lastMeta
        BY <3>2 DEF InFlight
      <4> QED
        BY <2>1, <3>1, <3>2, <4>1 DEF Recv, PublishFresh, Enqueue, Watchdog!GNext,
                                      Watchdog!Fresh
    <3>3. CASE UNCHANGED <<staleVars, gazeVars>>
      BY <2>1, <3>3 DEF Recv, Watchdog!gvars
    <3> QED
      BY <2>1, <3>2, <3>3 DEF Recv, HandleAnswer, AnswersRequest
  <2>2. ASSUME NEW sent \in 0..MaxFrames, PublishStaleNow(sent), CanPublishStale(sent),
               freshAge >= StaleAfter \/ phase' # "running" \/ lastMeta = 0,
               \/ phase = "running" /\ phase' \in {"running", "stopping"}
               \/ phase = "draining" /\ phase' = "stopped",
               UNCHANGED <<lastMeta, freshAge>>
        PROVE  Watchdog!GNext
    <3>1. CASE lastMeta = 0
      BY <2>2, <3>1 DEF PublishStaleNow, CanPublishStale, StaleMeta, Watchdog!GNext,
                        Watchdog!NoAnswerYet, Watchdog!Onward
    <3>2. CASE lastMeta # 0
      BY <2>2, <3>2 DEF PublishStaleNow, CanPublishStale, StaleMeta, Watchdog!GNext,
                        Watchdog!Withdraw, Watchdog!Overdue, Watchdog!WithdrawAtEnd,
                        Watchdog!Onward
    <3> QED
      BY <3>1, <3>2
  <2>3. CASE RunOnce
    <3>1. lastSent' \in 0..MaxFrames
      BY <2>3 DEF RunOnce, StartProcessTask, TaskIdle
    <3>2. CASE PublishStaleNow(lastSent') /\ CanPublishStale(lastSent')
               /\ (DeadlineDue(sentAge') \/ drain = "broken")
      <4>1. phase = "running" /\ phase' \in {"running", "stopping"}
        BY <2>3 DEF RunOnce
      <4>2. freshAge >= StaleAfter \/ phase' # "running" \/ lastMeta = 0
        BY <2>3, <3>2 DEF RunOnce, DeadlineDue, StaleReference
      <4>3. UNCHANGED <<lastMeta, freshAge>>
        BY <2>3 DEF RunOnce
      <4> QED
        BY <2>2, <3>1, <3>2, <4>1, <4>2, <4>3
    <3>3. CASE UNCHANGED sample
      BY <2>3, <3>3 DEF RunOnce, Watchdog!gvars, Watchdog!GNext, Watchdog!End,
                        Watchdog!Onward
    <3> QED
      BY <2>3, <3>2, <3>3 DEF RunOnce
  <2>4. CASE FinishShutdown
    <3>1. CASE PublishStaleNow(lastSent) /\ CanPublishStale(lastSent)
      BY <2>2, <2>4, <3>1 DEF FinishShutdown, EndDrain, FinalExitCode
    <3>2. CASE UNCHANGED sample
      BY <2>4, <3>2 DEF FinishShutdown, EndDrain, FinalExitCode, Watchdog!gvars
    <3> QED
      BY <2>4, <3>1, <3>2 DEF FinishShutdown, EndDrain, FinalExitCode
  <2>5. CASE TimePasses
    BY <2>5 DEF TimePasses, Older, DeadlineKept, Watchdog!gvars, Watchdog!GNext,
                Watchdog!Tick
  <2>6. CASE RunOnceRaises \/ StopRequested \/ ReapProcessTask
    BY <2>6 DEF RunOnceRaises, StopRequested, ReapProcessTask, Watchdog!GNext,
                Watchdog!gvars, Watchdog!End, Watchdog!Onward
  <2>8. CASE CancelProcessTask
    <3>1. phase = "stopping" /\ phase' \in {"draining", "reaping"}
      BY <2>8 DEF CancelProcessTask
    <3>2. CASE PublishFresh(InFlight) /\ task = "recv"
      <4>1. InFlight \in 1..MaxFrames /\ InFlight > lastMeta
        BY <3>2 DEF InFlight
      <4> QED
        BY <3>1, <3>2, <4>1 DEF PublishFresh, Enqueue, Watchdog!GNext, Watchdog!Fresh
    <3>3. CASE UNCHANGED <<sample, lastMeta, freshAge>>
      BY <3>1, <3>3 DEF Watchdog!GNext, Watchdog!End, Watchdog!Onward
    <3> QED
      BY <2>8, <3>1, <3>2, <3>3, FreshAfterTheEnd
      DEF CancelProcessTask, HandleAnswer, AnswersRequest, CloseConnection
  <2>7. CASE \/ Connect \/ Send \/ RecvFails \/ RecvTimeout \/ CloseDone \/ DrainThread
             \/ PipeCloses \/ BridgeFails \/ CameraFrame \/ ServiceAnswers
             \/ ServiceDrops \/ UNCHANGED vars
    BY <2>7 DEF Connect, Send, RecvFails, RecvTimeout, CloseDone, DrainThread,
                PipeCloses, BridgeFails, CameraFrame, ServiceAnswers, ServiceDrops,
                vars, Watchdog!gvars
  <2> QED
    BY <2>1, <2>3, <2>4, <2>5, <2>6, <2>7, <2>8 DEF Next, Client, Coordinator, Environment,
                                             Stopped
<1> QED
  BY Invariance, <1>1, <1>2, PTL DEF Spec, WatchdogSafety, Watchdog!GSpec
=============================================================================
