----------------------------- MODULE DdsBridge -----------------------------
(***************************************************************************)
(* The two ends of the DDS bridge and the pipes between them: the process  *)
(* object of the CLI (bridge_process.py: its users on one thread, a reader *)
(* of stdout, a writer of stdin) and the native program (runtime_loop.cpp: *)
(* DDS callbacks, an emitter, a reader of stdin and the main thread).      *)
(* Camera frames and gaze targets are numbered in the order they are made. *)
(***************************************************************************)
EXTENDS Integers, Sequences, SequencesExt

CONSTANTS
    MaxCamera, MaxTargets,   \* bounds: frames of the camera, targets sent
    PipeRoom                 \* lines that fit into a pipe

ASSUME BridgeAssumption == {MaxCamera, MaxTargets} \subseteq Nat /\ PipeRoom \in Nat \ {0}

Stop == -1      \* _STOP_WRITER, and the error line among the camera lines
ErrorLine == -1

VARIABLES
    py,       \* the object: started, close's progress, fatal reason, latest camera frame,
              \* the last one taken and the last target sent
    queue,    \* _writer_queue, of one place: 0 when empty
    writer,   \* _write_stdin: where it is, and its item
    reader,   \* _read_stdout: where it is
    proc,     \* the child: its state, exit code and pending signal
    down, up, \* its stdin and stdout
    state,    \* RuntimeLoopState
    emitter,  \* EmitterLoop: where it is, and the lines it has taken
    stdin,    \* StdinLoop: where it is, and its line
    main,     \* RunRuntimeLoop
    dds       \* the camera's last frame, the last target published, error lines written

pyVars == <<py, queue, writer, reader>>
nativeVars == <<state, emitter, stdin, main>>
vars == <<pyVars, proc, down, up, nativeVars, dds>>

NoState ==
    [camera |-> 0, error |-> FALSE, exitCode |-> 0, stop |-> FALSE, emitterStop |-> FALSE]
NoWriter == [pc |-> "none", item |-> 0]
NoEmitter == [pc |-> "none", lines |-> <<>>]
NoStdin == [pc |-> "none", line |-> 0]

Init ==
    /\ py = [started |-> FALSE, close |-> "open", fatal |-> "none", latest |-> 0, taken |-> 0,
             sent |-> 0]
    /\ queue = 0 /\ writer = NoWriter /\ reader = "none"
    /\ proc = [state |-> "none", code |-> 0, signal |-> "none"]
    /\ down = <<>> /\ up = <<>>
    /\ state = NoState /\ emitter = NoEmitter /\ stdin = NoStdin /\ main = "none"
    /\ dds = [camera |-> 0, published |-> 0, errors |-> 0]

Alive == py.close # "dead"
Closed == py.close # "open"
Running == proc.state = "running"
Exited == proc.state = "exited"

-----------------------------------------------------------------------------
(* The users of the process object, on one thread *)

Start ==
    /\ Alive /\ ~ Closed /\ ~ py.started
    /\ py' = [py EXCEPT !.started = TRUE]
    /\ proc' = [proc EXCEPT !.state = "running"]
    /\ writer' = [writer EXCEPT !.pc = "get"] /\ reader' = "read"
    /\ main' = "start" /\ emitter' = [emitter EXCEPT !.pc = "wait"]
    /\ UNCHANGED <<queue, down, up, state, stdin, dds>>

\* The call is refused when closed, not started or failed; a child found dead is a failure.
Healthy == py.started /\ ~ Closed /\ py.fatal = "none"
FindsItDead ==
    /\ Healthy /\ Exited
    /\ py' = [py EXCEPT !.fatal = "exited"]
    /\ UNCHANGED <<queue, writer, reader, proc, down, up, nativeVars, dds>>

PollLatestCamera ==
    /\ Healthy /\ Running /\ py.latest # 0
    /\ py' = [py EXCEPT !.taken = py.latest, !.latest = 0]
    /\ UNCHANGED <<queue, writer, reader, proc, down, up, nativeVars, dds>>

\* _put_latest_writer_line, _put_writer_stop: whatever waits makes room.
Latest(line) == line

SendGazeTarget ==
    /\ Healthy /\ Running /\ py.sent < MaxTargets
    /\ py' = [py EXCEPT !.sent = @ + 1]
    /\ queue' = Latest(py.sent + 1)
    /\ UNCHANGED <<writer, reader, proc, down, up, nativeVars, dds>>

\* _mark_fatal: the first reason stands, and none is given after close.
Marked(reason) == IF Closed \/ py.fatal # "none" THEN py.fatal ELSE reason

-----------------------------------------------------------------------------
(* close() *)

CloseStep(from, to) == py.close = from /\ py' = [py EXCEPT !.close = to]

BeginClose ==
    /\ CloseStep("open", "stop")
    /\ UNCHANGED <<queue, writer, reader, proc, down, up, nativeVars, dds>>

PutWriterStop ==
    /\ CloseStep("stop", IF py.started THEN "terminate" ELSE "done")
    /\ queue' = Latest(Stop)
    /\ UNCHANGED <<writer, reader, proc, down, up, nativeVars, dds>>

Terminate ==
    /\ CloseStep("terminate", "wait")
    /\ proc' = IF Running THEN [proc EXCEPT !.signal = "term"] ELSE proc
    /\ UNCHANGED <<queue, writer, reader, down, up, nativeVars, dds>>

NotKilled == proc.signal  \* mutant
\* A child that has not ended in time is killed.
SignalAfterWait == IF Running THEN "kill" ELSE proc.signal

WaitForChild ==
    /\ CloseStep("wait", "join")
    /\ proc' = [proc EXCEPT !.signal = SignalAfterWait]
    /\ UNCHANGED <<queue, writer, reader, down, up, nativeVars, dds>>

\* Every join has a timeout, so close returns with or without the threads.
JoinThreads ==
    /\ CloseStep("join", "done")
    /\ UNCHANGED <<queue, writer, reader, proc, down, up, nativeVars, dds>>

-----------------------------------------------------------------------------
(* The threads of the process object *)

WriterGet ==
    /\ Alive /\ writer.pc = "get" /\ queue # 0
    /\ writer' = IF queue = Stop THEN [pc |-> "ended", item |-> 0]
                 ELSE [pc |-> "write", item |-> queue]
    /\ queue' = 0
    /\ UNCHANGED <<py, reader, proc, down, up, nativeVars, dds>>

OneShot == "ended"  \* mutant
AfterWrite == "get"

\* A full pipe holds the writer; a broken one ends it.
WriterWrite ==
    /\ Alive /\ writer.pc = "write"
    /\ \/ /\ Exited
          /\ py' = [py EXCEPT !.fatal = Marked("write")]
          /\ writer' = [pc |-> "ended", item |-> 0]
          /\ UNCHANGED down
       \/ /\ Running /\ Len(down) < PipeRoom
          /\ down' = Append(down, writer.item)
          /\ writer' = [pc |-> AfterWrite, item |-> 0]
          /\ UNCHANGED py
    /\ UNCHANGED <<queue, reader, proc, up, nativeVars, dds>>

\* _handle_stdout_line
ReadLine ==
    /\ Alive /\ reader = "read" /\ up # <<>>
    /\ py' = IF Head(up) = ErrorLine THEN [py EXCEPT !.fatal = Marked("error")]
             ELSE IF Closed THEN py ELSE [py EXCEPT !.latest = Head(up)]
    /\ up' = Tail(up)
    /\ UNCHANGED <<queue, writer, reader, proc, down, nativeVars, dds>>

SilentEof == "ended"  \* mutant
AfterEof == IF Closed \/ py.fatal # "none" THEN "ended" ELSE "eof"

\* _mark_stdout_eof: the exit code is waited for without the lock (what the message then
\* says of it is left out).
ReadEof ==
    /\ Alive /\ reader = "read" /\ up = <<>> /\ Exited
    /\ reader' = AfterEof
    /\ UNCHANGED <<py, queue, writer, proc, down, up, nativeVars, dds>>

MarkEof ==
    /\ Alive /\ reader = "eof"
    /\ py' = [py EXCEPT !.fatal = Marked("exited")]
    /\ reader' = "ended"
    /\ UNCHANGED <<queue, writer, proc, down, up, nativeVars, dds>>

-----------------------------------------------------------------------------
(* The native program *)

\* With the process its threads are gone, and the lines it has not read.
Exits(code) ==
    /\ proc' = [proc EXCEPT !.state = "exited", !.code = code]
    /\ down' = <<>>
    /\ state' = NoState /\ emitter' = NoEmitter /\ stdin' = NoStdin /\ main' = "none"

\* EnqueueFatal: a later error takes the place of one that is not emitted yet.
Failing(s) == [s EXCEPT !.error = TRUE, !.exitCode = 1, !.stop = TRUE]

\* The callbacks are set before Start opens the channels one by one, so samples come
\* before it returns; closing a channel waits for a callback that is running (external).
CallbacksSet == main \in {"start", "wait"}
\* Targets are published between the end of Start and Close.
ChannelsOpen == main = "wait"

StartBackend(ok) ==
    /\ Running /\ main = "start"
    /\ IF ok
       THEN /\ main' = "wait" /\ stdin' = [stdin EXCEPT !.pc = "poll"]
            /\ UNCHANGED state
       ELSE /\ main' = "joinEmitter"
            /\ state' = [Failing(state) EXCEPT !.emitterStop = TRUE]
            /\ UNCHANGED stdin
    /\ UNCHANGED <<pyVars, proc, down, up, emitter, dds>>

\* OnCameraFrame: a frame takes the place of one that is not emitted yet.
CameraFrame ==
    /\ Running /\ CallbacksSet /\ dds.camera < MaxCamera
    /\ dds' = [dds EXCEPT !.camera = @ + 1]
    /\ state' = IF state.stop THEN state ELSE [state EXCEPT !.camera = dds.camera + 1]
    /\ UNCHANGED <<pyVars, proc, down, up, emitter, stdin, main>>

MappingFails ==
    /\ Running /\ CallbacksSet
    /\ state' = Failing(state)
    /\ UNCHANGED <<pyVars, proc, down, up, emitter, stdin, main, dds>>

StaysPending == state.camera  \* mutant
CameraAfterTake == 0

Pending == (IF state.camera # 0 THEN <<state.camera>> ELSE <<>>)
           \o (IF state.error THEN <<ErrorLine>> ELSE <<>>)

\* The emitter ends only when nothing is pending.
EmitterEnds(lines) == lines = <<>> /\ state.emitterStop

EmitterTake ==
    /\ Running /\ emitter.pc = "wait"
    /\ Pending # <<>> \/ state.emitterStop
    /\ IF EmitterEnds(Pending)
       THEN emitter' = [emitter EXCEPT !.pc = "ended"] /\ UNCHANGED state
       ELSE /\ emitter' = [pc |-> "write", lines |-> Pending]
            /\ state' = [state EXCEPT !.camera = CameraAfterTake, !.error = FALSE]
    /\ UNCHANGED <<pyVars, proc, down, up, stdin, main, dds>>

EmitterWrite ==
    /\ Running /\ Alive /\ emitter.pc = "write" /\ Len(up) < PipeRoom
    /\ up' = Append(up, Head(emitter.lines))
    /\ dds' = IF Head(emitter.lines) = ErrorLine THEN [dds EXCEPT !.errors = 1] ELSE dds
    /\ emitter' = IF Len(emitter.lines) = 1 THEN [pc |-> "wait", lines |-> <<>>]
                  ELSE [emitter EXCEPT !.lines = Tail(@)]
    /\ UNCHANGED <<pyVars, proc, down, state, stdin, main>>

\* A line of stdin; once a stop is asked for, no more of them.
StdinRead ==
    /\ Running /\ stdin.pc = "poll" /\ ~ state.stop
    /\ IF down # <<>>
       THEN /\ stdin' = [pc |-> "line", line |-> Head(down)]
            /\ down' = Tail(down) /\ UNCHANGED state
       ELSE /\ ~ Alive
            /\ stdin' = [pc |-> "ended", line |-> 0]
            /\ state' = [state EXCEPT !.stop = TRUE] /\ UNCHANGED down
    /\ UNCHANGED <<pyVars, proc, up, emitter, main, dds>>

\* HandleGazeTargetLine, under the backend's mutex: a closed channel refuses the target.
PublishGaze(ok) ==
    /\ Running /\ stdin.pc = "line"
    /\ ok => ChannelsOpen
    /\ IF ok
       THEN /\ dds' = [dds EXCEPT !.published = stdin.line]
            /\ stdin' = [pc |-> "poll", line |-> 0] /\ UNCHANGED state
       ELSE /\ state' = Failing(state)
            /\ stdin' = [pc |-> "ended", line |-> 0] /\ UNCHANGED dds
    /\ UNCHANGED <<pyVars, proc, down, up, emitter, main>>

\* The reader polls with a timeout, so it hears of a stop without a line.
HearsOfStop == state.stop

StdinStops ==
    /\ Running /\ stdin.pc = "poll" /\ HearsOfStop
    /\ stdin' = [stdin EXCEPT !.pc = "ended"]
    /\ UNCHANGED <<pyVars, proc, down, up, state, emitter, main, dds>>

CloseBackend ==
    /\ Running /\ main = "wait" /\ state.stop
    /\ main' = "joinStdin"
    /\ UNCHANGED <<pyVars, proc, down, up, state, emitter, stdin, dds>>

JoinStdin ==
    /\ Running /\ main = "joinStdin" /\ stdin.pc = "ended"
    /\ main' = "joinEmitter"
    /\ state' = [state EXCEPT !.emitterStop = TRUE]
    /\ UNCHANGED <<pyVars, proc, down, up, emitter, stdin, dds>>

JoinEmitter ==
    /\ Running /\ main = "joinEmitter" /\ emitter.pc = "ended"
    /\ Exits(state.exitCode)
    /\ UNCHANGED <<pyVars, up, dds>>

-----------------------------------------------------------------------------
(* The operating system *)

\* A signal ends the child, the kill for certain; so does a write to a pipe nobody reads.
Dies ==
    /\ Running
    /\ proc.signal # "none" \/ (~ Alive /\ emitter.pc = "write")
    /\ Exits(2)
    /\ UNCHANGED <<pyVars, up, dds>>

Crashes ==
    /\ Running /\ proc.signal = "none" /\ Alive
    /\ Exits(2)
    /\ UNCHANGED <<pyVars, up, dds>>

\* The CLI dies: its threads with it, and the ends of its pipes are closed.
CliDies ==
    /\ Alive /\ py.started
    /\ py' = [py EXCEPT !.close = "dead", !.latest = 0]
    /\ queue' = 0 /\ writer' = NoWriter /\ reader' = "none" /\ up' = <<>>
    /\ UNCHANGED <<proc, down, nativeVars, dds>>

-----------------------------------------------------------------------------
Users == Start \/ FindsItDead \/ PollLatestCamera \/ SendGazeTarget \/ BeginClose
CloseSteps == PutWriterStop \/ Terminate \/ WaitForChild \/ JoinThreads
Writer == WriterGet \/ WriterWrite
Reader == ReadLine \/ ReadEof \/ MarkEof
Emitter == EmitterTake \/ EmitterWrite
Stdin == StdinRead \/ StdinStops \/ \E ok \in BOOLEAN : PublishGaze(ok)
Main == CloseBackend \/ JoinStdin \/ JoinEmitter \/ \E ok \in BOOLEAN : StartBackend(ok)
Dds == CameraFrame \/ MappingFails

Next == Users \/ CloseSteps \/ Writer \/ Reader \/ Emitter \/ Stdin \/ Main \/ Dds
        \/ Dies \/ Crashes \/ CliDies

\* Threads run, a killed child ends and one that writes to nobody does; users, DDS and a
\* terminated child owe nothing.
Killed == proc.signal = "kill" \/ ~ Alive
Spec == Init /\ [][Next]_vars
        /\ WF_vars(CloseSteps) /\ WF_vars(Writer) /\ WF_vars(Reader)
        /\ WF_vars(Emitter) /\ WF_vars(Stdin) /\ WF_vars(Main) /\ WF_vars(Killed /\ Dies)

-----------------------------------------------------------------------------
\* What waits in the queue is the newest target, what is on its way a frame or target
\* there was, and a started bridge has all its threads.
TypeOK ==
    /\ py.taken \in 0..dds.camera /\ py.latest \in 0..dds.camera /\ py.sent \in 0..MaxTargets
    /\ queue \in {Stop, 0, py.sent}
    /\ Len(down) <= PipeRoom /\ Len(up) <= PipeRoom
    /\ ToSet(down) \subseteq 1..py.sent
    /\ ToSet(up) \subseteq {ErrorLine} \cup 1..dds.camera
    /\ py.fatal \in {"none", "exited", "write", "error"}
    /\ writer.pc = "none" <=> ~ py.started \/ ~ Alive

\* Error lines stand between the camera lines wherever they come.
Increasing(line) ==
    \A i, j \in DOMAIN line : i < j /\ ErrorLine \notin {line[i], line[j]} => line[i] < line[j]
Some(n) == IF n > 0 THEN <<n>> ELSE <<>>

\* Through three slots and a pipe, a camera frame is taken once and none after a later
\* one; through a slot, a pipe and two threads, targets are published likewise.  A slot
\* only gives way to what is newer.
InOrder ==
    /\ Increasing(<<py.taken>> \o Some(py.latest) \o up \o emitter.lines \o Some(state.camera))
    /\ Increasing(<<dds.published>> \o Some(stdin.line) \o down \o Some(writer.item)
                  \o Some(queue))

\* Neither side ever meets anything older than what it had.
OnlyNewer == TypeOK /\ InOrder

\* The bridge never fails in silence: a program that ends with code 1 has written an
\* error line, however late the error came.
FatalIsTold == Exited /\ proc.code = 1 => dds.errors = 1

\* What the users are told first stays what they are told, and a child or a pipe that
\* close() has ended is no failure.
ReasonStands == [][py.fatal # "none" \/ Closed => py'.fatal = py.fatal]_vars

\* The last target sent is published, unless the bridge fails or is closed: no full
\* pipe and no order of threads keeps it waiting.
NewestIsPublished ==
    \A n \in 1..MaxTargets :
      py.sent = n ~> dds.published >= n \/ py.sent > n \/ Closed \/ state.stop \/ Exited

\* A bridge that has begun to stop ends, so does one whose CLI has died, and after
\* close() neither the child nor a thread is left.
NothingIsLeft ==
    (Running /\ (state.stop \/ ~ Alive)) \/ (py.started /\ py.close = "done")
      ~> Exited /\ (py.close = "done" => writer.pc = "ended" /\ reader = "ended")

\* The users of a bridge that is gone come to know of it.
LossIsNoticed == Exited ~> Closed \/ py.fatal # "none"

\* A failure is told by whoever finds it, once and by the first reason.
FailuresAreTold == []FatalIsTold /\ ReasonStands /\ LossIsNoticed
=============================================================================
