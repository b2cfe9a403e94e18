# visual-events: formal models

TLA+ modules that model the parts of visual-events whose correctness depends on
order, time and failure, TLC configurations that check them on small instances, and
proofs of the main properties for every value of the constants, checked by TLAPS.
`PROJECT.json` maps every definition to the lines it models.

## The system

A robot runs the **CLI** (`src/src/visual_events_cli`): it takes camera frames from a
native DDS bridge process, sends them one at a time over a WebSocket to the
**server** (`src/src/visual_events_server`), turns each `visual_state` it gets back
into a gaze target published through the bridge, and writes notable events as
Botified frames to its stdout. The server tracks people, selects whom to attend to,
detects events, and remembers people it was taught.

| Component | State | Operations | What makes it correct |
|---|---|---|---|
| Runtime coordinator, frame pump, service client (`runtime.py`, `frame_pump.py`, `service_client.py`) | latest frame, the process task, WebSocket, clocks of the stale deadline, stale key, drain future, exit code | `run_once`, `process_one`, `request_frame`, `publish_stale_now`, `check_stale_deadline`, `shutdown` | one request in flight; targets move forward in frame order; a valid target is withdrawn in time and once; shutdown ends and says why |
| DDS bridge process (`dds/bridge_process.py`) | latest frame and head state, fatal/EOF/closed flags, writer queue, three threads | `start`, `close`, `poll_latest_camera`, `send_gaze_target`, stdout and stdin threads | the latest gaze line is delivered; failure is reported once it is known and never taken back; close ends and leaves nothing behind |
| Native DDS bridge (`src/native/dds_bridge/src/runtime_loop.cpp`, `unitree_channel_runtime.cpp`) | slots for the latest camera frame, head state and error, exit code, stop flags, open channels | DDS callbacks, emitter thread, stdin reader, shutdown in order | what comes later never comes first; an error is told before the program ends with it; it always ends |
| Gaze target mapper (`target_mapper.py`) | none | `map_visual_state_to_gaze_target` | valid only if the target exists in the frame it is said to be in |
| Botified mapper and gate (`botified_output.py`) | seen ids, pending events, last emission per key, left marks, emission times | `frames_from_visual_state` | an event id at most once, same-key gap, rate limits, one `left` per visit |
| Botified stdout writer (`botified_output.py`) | deque, set of queued frames, drop count | `enqueue` (event loop), `drain_available` (thread) | bounded deque, order kept, no frame twice; the set refuses only what is queued or was taken |
| WebSocket stream (`app.py`) | camera of the connection, its session | receive loop | one answer per message, in order |
| Stream session (`processor.py`) | last frame id and time, tracker, selector, engine | `process_frame`, `reset` | the three are reset together; a failed frame changes nothing else |
| Tracker (`tracking/byte_tracker.py`) | tracks, next id, lost ages | `update`, `reset` | an id belongs to one track; a lost track is revived or forgotten in time |
| Attention selector (`attention/selector.py`) | mode, target, hold time | `update`, `reset` | no flapping; target among the tracks |
| Event engine (`events/engine.py`) | person slots, per-event stability and cooldown, id counter | `update`, `reset` | every rising edge once, cooldowns, nobody who was told of is forgotten, left only when gone, no motion seen while the head turns |
| Memory service (`memory/service.py`) | frame cache, overlay, pending queries and recalls per stream, completed events, teach slots, lifecycle | `observe_visual_state`, `drain_completed_events`, `identify_current`, `teach_*`, `merge_*`, `correct_identity`, `link_external_user`, `close` | each event delivered once, no identity for the wrong person, close waits for all who use the store |
| Identity overlay, frame cache | records and pending marks per (connection, camera, track), frames | `put_*`, `register_pending`, `clear_pending`, `project`, `purge` | a name is shown only for the track it was found for, and not after its time |
| Memory store, retriever (`memory/store.py`, `memory/retriever.py`) | SQLite tables and crop files | profiles, embeddings, promotion, links, negative matches; nearest vectors | one person per external user, an anonymous profile merged at most once, nobody remembered twice or forgotten, no row without its crop, a margin that is real |
| Target resolver (`memory/target_resolver.py`, the windows in `service.py`) | none of its own; the last three frames | `preview_pose_pointing_person`, the interaction window | whoever is named was meant, in the newest frame and one before it |
| Memory event gate, API contract (`memory/events.py`, `memory/api_contract.py`) | last emission per camera, event and person | `allow`; request validation | cooldowns |
| Protocol, configuration, metrics, embedding and inference backends, tools | | | parsing, models and wiring: see "Not modelled" |

They interact through: the WebSocket between CLI and server; the stdin/stdout pipes
between CLI and bridge; stdout towards Botified; threads of the CLI (drain, bridge
reader and writer), of the native bridge (emitter, stdin, DDS callbacks) and of the server (executor threads for queries and recalls, one
for teaching) that share objects with an asyncio loop; HTTP requests to the memory
service that meet the stream on the same loop.

## What is modelled

### `CliRuntime.tla`: the CLI's event loop and everything it waits for

One step is the code between two suspension points of the asyncio loop.

| Model | Code |
|---|---|
| `camera`, `slot` | the bridge's latest frame; `LatestFrameSlot._frame` (0 or 1 frame: the newest replaces the older) |
| `task`, `waited` | where `_process_task` stands inside `process_one` / `request_frame`; time since `recv` |
| `conn`, `uplink`, `downlink` | `_websocket` and what is in transit on it; a broken connection still holds what the peer had sent |
| `lastSent`, `sentAge`, `lastMeta`, `freshAge`, `staleKey` | `_last_sent_metadata`, `_last_sent_timestamp_ms`, `_last_metadata`, `_last_fresh_publish_timestamp_ms`, `_stale_published_for_key`; times as ages in ticks, metadata as the frame id |
| `sample` | the gaze target handed to `send_gaze_target` last |
| `queued`, `pipe`, `drain` | stdout queue length, stdout's reader, the drain future |
| `phase`, `exitCode` | `_run_runtime_loop` and the stages of `_shutdown_and_close_resources` |
| `RunOnce` | all of `run_once`: camera, finished task, new task up to its first await, stale deadline, drain future |
| `Connect` ... `CloseDone`, `HandleAnswer` | each exit of `request_frame`, with what `process_one` does after it |
| `CancelProcessTask`, `ReapProcessTask`, `FinishShutdown` | `shutdown` and `close_all` |
| `DrainThread`, `PipeCloses`, `BridgeFails`, `CameraFrame`, `ServiceAnswers`, `ServiceDrops`, `TimePasses` | the other actors |

A visual_state is its frame id, since every property asks only which frame an answer
or a target belongs to. The service may answer with any frame id it was ever sent,
with an error of either kind, or with garbage: `request_frame` has a branch for each.
`asyncio.wait_for` of Python 3.11, which `pyproject.toml` allows, returns the result it already
holds when it is cancelled; later versions cancel. `CancelProcessTask` has both outcomes, in every
run: a task that holds its answer may publish it after the end was decided. What is left to
promise is `PipeClosedWithdraws`; what `protocol.md:356` promises is violated (`pipe_closed`).

`GazeWatchdog.tla` is what a subscriber of the gaze topic is promised, in four
variables; `CliRuntime` implements it with `last <- lastMeta`, `age <- freshAge` and `stage`, which is
"live" while the loop runs, "ending" until the process task is cancelled, and "ended" from then on
(`WatchdogSafety`, `WatchdogFair`). While it ends a subscriber may get the answer that was in hand.

### `BotifiedGate.tla`, `BotifiedWriter.tla`: from event to stdout

`BotifiedGate` is `BotifiedEventMapper`. `frames_from_visual_state` runs without a
suspension point; its steps are spread over actions (`BeginFrame`, one `Handle` per event,
one `Flush` per waiting event that is due, `EndFrame`) only so that each is readable, and no
other action comes between them. An event is its id, its kind, its key and its aliases;
text, evidence and the picture of the scene are left out. Properties compare what was
emitted with what was known of every alias of the person: `SaidOnce` (`EmittedOnce`,
`LeftOnce`) and `Limits` (`GapKept`, `RateLimits`).

`BotifiedWriter` is the deque and the set that the event loop (`enqueue`) and the drain
thread (`drain_available`) share without a lock: every read or write of either is a step
(the interpreter makes each of them atomic and nothing more). Only the deque has a limit. When the
thread takes a frame before `enqueue` has put it into the set, it stays in the set; the history
`taken` (what the thread took since it was queued last) is what `QueueInv` says the set may hold
beyond the deque. `CliRuntime` only counts
queued frames; it leaves out the exception that the writer may raise (`enq.at = "raised"`).

### From detection to event: `TrackFeed`, `Attention`, `PersonFeed` and what implements them

One WebSocket has one session, and `app.py` awaits `process_frame` before it receives again:
inside a session nothing is concurrent. What is hard is time: the frames' own timestamps
and ids, which may stand still, jump or go back, decide everything that is remembered.

| Promise | Kept by | In between |
|---|---|---|
| `TrackFeed`: ids in order, one track each; a track that was out of sight for longer than the TTL is gone | `Tracker`: `Infer` (what the backend finds, as levels of confidence and overlap), `UpdateTracks` (expiry, the two passes of `_match_candidates`, new tracks) | property `TracksAsPromised` |
| `PersonFeed`: such tracks, and a target that `Attention` allows: held, stable, or nobody | `StreamSession`: `Answer`, `InferenceFails`, the selector with its challenger, on top of `TrackFeed` | property `AttentionAsPromised` |
| | `EventEngine`: on top of `PersonFeed` | |

Each component runs on the promise of the one before it, which is shown to be kept by its
detailed model. This is what makes the engine checkable: its own memory is large, and
with the tracker and the selector in detail beneath it would be out of reach.

`EventEngine` keeps its memory in one record `eng` (a reset replaces it as a whole), field
by field the dictionaries and sets of `_reset_state`. What the geometry decides is a choice:
which newcomer is close enough to take over which slot (`Takeovers`), and what can be
seen of each person (`Sights`), restricted by the length of the motion history that
`_oldest_reference` asks for. The history of a track is its oldest timestamp; that it is
pruned after `history_ms` can only make fewer sights possible. All events without a
geometry of their own (`appeared`, `left`, `target`) are exact.
Assumed: `cooldown_ms` at least 1 (then one event of a kind is left per frame, `Emitted`), and
the same stability thresholds in selector and engine, as in the defaults, so that a stable
person is a target and the engine's fallback without a target is not reached.

`MCStreamSession` and `MCEventEngine` add the histories that `NoFlapping`,
`NoMotionFromTheHead` and `ToldOnce` are about.

### `DdsBridge.tla`: both ends of the bridge and the pipes between them

| Model | Code |
|---|---|
| `py`, `queue`, `writer`, `reader` | `DdsBridgeProcess`: its users on one thread, `_writer_queue` of one place, `_write_stdin`, `_read_stdout` |
| `down`, `up`, `proc` | the child's stdin and stdout with room for `PipeRoom` lines, its state, exit code and pending signal |
| `state`, `emitter`, `stdin`, `main` | `RuntimeLoopState`, `EmitterLoop`, `StdinFdLoop`, `RunRuntimeLoop` |
| `dds` | what DDS gave and got |
| `BeginClose`, `PutWriterStop`, `Terminate`, `SignalAfterWait`, `WaitForChild`, `JoinThreads` | the stages of `close`, each of which may meet anything of the others |
| `Dies`, `Crashes`, `CliDies` | the child ends by a signal, by itself, or loses its CLI |

Frames and targets are numbers in the order they are made; a slot or queue of one place may
only give way to a larger number, so one invariant (`OnlyNewer`) follows a frame or a target
through all slots, pipes and threads. DDS callbacks come from the moment `Start` opens the first
channel (`CallbacksSet`), targets are published only after it has returned (`ChannelsOpen`). Head states use the camera's slot logic and are left out.

### The memory of the server: four views of `memory/service.py`

`service.py` is one object with four kinds of trouble. Each module keeps the part of its
state that one of them needs, and leaves the others' steps out or open.

| Module | About | Left to the others |
|---|---|---|
| `MemoryService` | lifecycle: the one background query of a stream and who waits for it, event recalls, identify and teach requests with timeouts and cancellation, the teach semaphore, `close` | what a job finds and writes |
| `MemoryOverlay` | names: `identity_overlay.py`, `frame_cache.py`, and every writer of the overlay (query, recalls, identify, teach), against the clock and resets of the tracker | the store |
| `MemoryStore` on `Retriever` | rows: every call of the store between two of which another thread may come, in the order the service makes them; crop files; crashes and crops that cannot be deleted | who calls when |
| `PointedTarget` | whom a request means: the last three frames and the two looks a request takes at them | what is done with the person |

`MemoryService`: a step is what the event loop runs between two awaits, or what a thread does
to be seen by it. `QueryDone` carries a timing assumption: a query with events takes longer
than the loop takes to wake those who waited for the query before; without it a copy of old
events may push out new ones from a queue of `QueueSize`.

`MemoryOverlay`: a track id means another person after a reset, which the overlay does not
hear of. `about` and `putIn` are histories: in which generation a face was seen, and in which
its name was put. `StaleNamesFade` says how long an old name may last and who may still put one:
of the writers only identify asks, at the moment of putting, whether the frame is still the one
it looked at (`IdentifyNamesTheCurrent`, which is about the overlay: the HTTP answer of identify
is no part of the model); a recall asks and puts in two steps, queries and teach requests do not
ask.

`MemoryStore`: a vector is the face it was computed from, and three levels of likeness say
what `Retriever` makes of two of them (same, just above the threshold, below it). SQLite is
external: one call is one transaction, and a crash comes between calls. A crash, and a crop that
stays because writing or deleting it failed (`CropLeft`), are `mishaps`: each may leave one crop that
no row names. An embedding,
a gate and a familiarity count are choices where they depend on more than the tables.
The exceptions that `Conserved` makes are written into it: whoever had looked a face up before
the first memory of it was stored (`overtaken`) may store a second one.

`PointedTarget`: the window is the sequence of the last three frames as the service reads them, and a
look at it sees the places whose frames are not too old (`Seen`), where the code filters lists of
frames. A picture is who is engaged and how well each arm points at whom, in steps of
`ambiguous_score_margin`; how a score comes from joints and boxes is data. The modes for a
point or a box are not reached through the API contract (`kind` is a person or a scene), a
snapshot is always there, and `_fresh_cached_frame` asks for the age of the frame the first
look found, so it is part of that look. The window is not cleared by a reset of the
tracker; the model has no reset because track ids are all it would change.

Operators whose line ends in the comment `mutant` are wrong variants of the definition
that follows them; no specification uses them. `PROJECT.json` names, for every
property, the variant that breaks it.

## Runs

| Run | Instance | Shows |
|---|---|---|
| `cli` | 3 frames, deadline 2, response timeout 3 ticks, queue 1 | all safety properties of the CLI, and that it implements `GazeWatchdog` with its fairness; under `FairSpec`: no request wedges the pump (`FramesKeepFlowing`), and shutdown ends with drain thread and reader blocked for ever (`ShutdownEnds`) |
| `pipe_closed` | the same with 2 frames | violated: a valid target after the stale sample of the closed pipe, where `protocol.md:356` says the stale sample is what it ends with |
| `gate` | 4 events, two people, batches of 2, limits of 2 and 1, time 5 | nothing is said twice, and every limit holds at once |
| `writer` | 3 frames, queue of 2, 5 offers | order, no loss, no repetition, what the set may hold, the queue drains |
| `tracker` | 2 detections at 3 confidences, 2 tracks, 3 overlaps, time 3, 2 frame ids | the matching is the one without a better claim; `TrackFeed` is implemented |
| `session` | 3 tracks, 2 areas, 2 confidences, time 4 | where the robot looks and when it turns; `PersonFeed` is implemented |
| `events` | 2 tracks, a motion and another condition, time 4 in steps of 1 and 2, cooldown 2 | who is told of and when |
| `bridge` | 2 camera frames, 2 targets, pipes of one line | order end to end, the reason told, the last target published, nothing left after an end |
| `memory_service` | 2 teach requests (one with two crops), 1 identify request, 2 queries, queue of 2, 1 slot | no event lost or told more often than somebody waited, slots given back, `close` ends and the store outlives what it should |
| `memory_overlay` | 1 track id, 3 frames, 2 generations, time 2, lifetime 1 | pending means pending and ends; whose name an answer may give, and for how long |
| `memory_store` | 2 faces that look alike, 2 streams, 2 queries of one or two tracks, 2 people, 2 anonymous profiles, 2 names, 1 account, 1 mishap | who is remembered, once; what was settled stays settled; the retriever over all tables of 4 vectors with a window of 2 |
| `pointed_target` | 3 tracks, age limit 1, time 3; line-ups of four people | who is named was meant, and who is meant twice is named |

Bounds. CLI: two frames make a late answer to the first meet the request of the second;
the third makes a connection fail between them. The response timeout is longer than
the deadline, as in the defaults (1000 ms and 250 ms), so that a stale sample comes
while a request is still waiting. A queue of one is full, and is empty, at once. Ages
saturate one past the deadline: older is as stale. Gate: one id more than `MaxSeen`, so
that ids are forgotten and come again; the clock goes past both windows. Writer: more offers
than frames, so that a frame is offered while it is queued, in the thread's hands, written,
and again. Tracker: every order of overlaps and classes of confidence of two detections and
two tracks, `LostTtl` 1 so that a track is seen at, after and before its end; equal
timestamps and both ways of going back. Session: the challenger changes, and is confirmed, within
time 4; the third track is there so that one can be held while two compete. Events: two
tracks share a slot or have one each, leave in one frame, and the second departure is told
after the cooldown of the first; the constants keep the order of the defaults
(`lost_hold_ms` 600 < `reacquire_alias_window_ms` 1200 < `left_lost_ms` 1500 < `cooldown_ms` 5000) as far
as these small numbers allow. In `events` a frame is always later than the last or starts
over at 0: equal timestamps and frame ids are the business of `tracker`. Bridge: a pipe of one
line is full after each write, so every writer blocks; two of each line are enough for one to
be evicted, one to be in a pipe and the order to be wrong. Memory service: the second query
runs while requests still wait for the first; a request with two crops goes through the
semaphore twice and meets the other there; with one slot the queue is full at once. Overlay: a
recall of the first frame can end after one of the second, and the third is of another
generation; `Ttl` 1 of time 2 lets a name expire while its frame is still fresh or the other way
round. Store: one query may see the same face twice, two streams the same face at once, and the
other face is close enough to be taken for it; two rows of each kind let a duplicate be made.
Streams, faces and names are interchangeable (`SYMMETRY`; the run has no liveness property).
Pointing: three frames are what `FrameCache` keeps for a request, so all windows occur, with each
frame at, before or past its age limit between the two looks.

Deadlock is not checked where a program may come to rest: the server's models when no
frame or request comes, the bridge after its end, the writer after its offers.

Fairness. In `CliRuntime`: the loop calls `run_once` again (it only
sleeps), shutdown goes on, connect, send and close end because the `websockets` library bounds
them, `recv` ends by its own timeout, time goes by. Nothing is assumed of the camera,
the service, stdout's reader or the drain thread, which that reader can block. In
`BotifiedWriter`, for `QueueDrains` alone: `enqueue` returns, `run_once` keeps starting
threads, and the thread runs, that is, stdout is read or closed. In `DdsBridge`: threads run, a
killed child ends, and one that writes to nobody ends by `SIGPIPE`; users, DDS and a child that
was only asked to terminate owe nothing. In `MemoryService`: threads end what they began, timers
go off and the loop runs what is ready; nothing of frames, requests, or when `close` is called. In
`MemoryOverlay`: the loop ends the frame it has begun and recalls end. The other models are about
safety only: a session acts when a frame comes, and no frame is ever owed.

## Met while reading and not given a run

What the code does that its documents, or a reader, would not expect, apart from `pipe_closed`. The models contain
these behaviours (a property that would exclude one of them is not among the runs'), unless
it is said where they are left out.

CLI:
- `protocol.md:330` promises a stale sample within 250 ms of losing the connection. Until the
  first fresh target `check_stale_deadline` measures from the last *send* (`frame_pump.py:83`),
  which every new frame restarts; a camera faster than the deadline keeps it from expiring.
- A frame the thread takes between `append` and `add` of `enqueue` (`botified_output.py:507-515`) stays in
  `_queued_frames` for ever: the same text is refused from then on, counted as dropped, and the
  set has no limit (`max_queue_size` is that of the deque).
- The server numbers events from 1 in every session, and the gate, whose memory of ids
  (`botified_output.py:200`) outlives the connection, drops new events as repetitions.
- `popleft` on a deque that the other side has just emptied (`botified_output.py:503`, `:514`): the
  `IndexError` is not handled on either side. `BotifiedWriter` has it (`enq.at` or `thread.at` =
  "raised").
- `protocol.md:329` asks for a quiet second after a reconnection, of which neither `FramePump` nor
  `BotifiedEventMapper` knows.
- `close` of the bridge evicts the line that waits in the writer's queue and terminates the child, so
  the last target may not be published; a second `EnqueueFatal` overwrites an error that was not
  yet written; users may be told the exit code instead of the error line, whichever thread is first.

Session and events:
- A person reacquired under a new track is reported as left by the age of the old, lost track
  (`engine.py:472`; `server-development-plan.md:229` says after the lost TTL).
- Two frames with one timestamp make a missed track count as visible (`byte_tracker.py:174`,
  `protocol.md:172`); a lost track that comes back after a newcomer took its slot shares the slot
  with it (`engine.py:996`).

Memory:
- Two streams that see one new face create two anonymous profiles; two queries that count one
  profile lose a count; a crash between a profile and its embedding leaves the profile without one.
- A person with more vectors of one face than the window holds is never recognised by it
  (`Undecided`), and inactive anonymous vectors that crowd the fetch leave a margin unverified.
- `correct_identity` denies one vector (`service.py:1185`), not the person, and denies it for the right
  person too; it does not clear the overlay, so the old name stays for its lifetime.
- Promoting and merging refuse an account that belongs to somebody else, `link_external_user` takes it
  over in silence.
- `identify_current` answers with the person it found as `current:<camera>:active_target` also when the
  frame is no longer the current one (`service.py:608`); only the overlay is spared.
- A crop that cannot be deleted after a failed write stays: the `OSError` is logged
  (`service.py:1405`).
- A recall that ends late puts its name without the check being repeated; an unusable face overwrites a
  name that was just taught; a teach request names the track of the frame it started from.
- The evidence of a teach request is built after its crop was written and before the `try` that would
  take it back (`service.py:914`).
- Events that were drained are lost when something after it in `_attach_memory_events` raises
  (`app.py:475`).
- `resolve_target` and a later teach request decide each on the window of its own time.

## Proofs

Eight modules; each EXTENDS the modules of the components it is about and is
for every value of the constants, from the assumptions the modules state about them. Each
invariant `Inv` is proved as `Init => IInv`, `IInv /\ [Next]_vars => IInv'`, `IInv => Inv`, with a
lemma per part of `IInv` and a case per action that can disturb it; action properties follow from
`IInv` of the step.

`CliRuntimeProofs`, with swallowed cancellation.

- `Invariance`: `IInv` adds to `TypeOK` and `OneInFlight`:
  `SendsWithinBound` (ids stay below the bound), `FreshBeforeSends` (the last fresh
  frame is older than the one in flight, which is what makes targets move forward),
  `StaleBookkeeping` (sample, stale key and their count agree), `DeadlineKept` (a valid
  target is younger than the deadline once `run_once` has run in the tick) and
  `EndIsFinal`.
- `TypeCorrect`, `RequestsDoNotCross`, `ValidTargetsAreYoung`, `StalePublishedOnce`,
  `TargetsAreWithdrawnInTime` (the two together), `FreshTargetsMoveForward`,
  `ExitCodesOutrank` follow; the run leaves `TypeOK` and `ExitCodeOutranks` to the proofs.
- `ClosedPipeWithdraws` and `ImplementsWatchdog`, without any assumption about cancellation, rest on
  `FreshAfterTheEnd`: once the end is decided a fresh target comes only from the step that
  cancels the process task, and answers the frame in flight. `EndIsFinal` says where the task can be
  in each stage of shutdown.

`BotifiedWriterProofs`: `QueueHoldsEachFrameOnce`, `FramesAreDelivered`. Deque and set share no
lock, so that the set holds what the deque holds is true only up to where `enqueue` and
`drain_available` are: `MembersMatch` says for each of their places who is in the deque, in the set or
in somebody's hands, and `MembersAccounted` that whatever else the set holds was taken by the thread
(nothing bounds that). `NumbersGrow` orders stdout, the thread's hands and the deque. `CallsAddUp`
counts every call as refused, at work or appended.

`BotifiedGateProofs`: `LimitsHold`, `NothingSaidTwice`. The limits are about what was said, the code
remembers deques and maps that it prunes: `Remembers` says that the timestamps kept are those of the last
frames and that all others are older than a minute, which also serves the limit per second
because `Second <= Minute` (`BoundsAssumption`). `KeysRemember` does it for the gap.
`OneTrace` (an id not forgotten waits or was written, once), `DeparturesMarked` (a departure is
marked under every alias until something else is said of the person) and `WaitingApart` are
what saying once needs. An id the code drops from its bounded memory counts as forgotten, with
`MaxSeen = 0` at once.

`DdsBridgeProofs`: `NothingOlderComes`, `ErrorIsWritten`, `FirstReasonStands`. Frames and targets
pass six places each; `CameraWay` and `TargetWay` order each place against all later ones
(`Before`), for a slot that is overwritten stays newer than everything ahead of it.
`ErrorOnItsWay` follows the error from the state over the emitter's lines to stdout, and says that
the emitter ends only after everybody who could report one. Of `FailuresAreTold` these two prove
the safety part (`FatalIsTold`, `ReasonStands`); that failures are noticed stays with TLC.

`MemoryServiceProofs`: `LimitsAreKept`, `StoreClosesLast`, `EventsReachTheStream`. The parts:
queries start one after the other and the entry of the stream is the latest (`InSequence`), each slot
of the semaphore is accounted for (`SlotsConserved`), request and job are where each can be with
the other there (`JobsMatch`), every stage of `close` has left nobody behind (`CloseWaits`), and
a query's events are handed out once per request that collected it (`Counted`).
`EventsReachTheStream` adds `Kept`, that what an earlier query found was told before the next
started, and assumes `RoomForOne`: a `queue_size` below the events of a single query loses
some of them by design (`deque(maxlen)`), so nothing more general is true. A query has two events at
most (`Yields`), which is what the default of `config.py:56` has room for.
`Teachers` and `Identifiers` are finite, since they are counted.

`MemoryOverlayProofs`: `PendingMeansIt`, `IdentifyIsCurrent`, `NamesOfBeforeFade`. `JobsHaveFrames`
(whoever works has a frame there was) and `InTime` (a record of an earlier generation was put before
the reset; an identify request that still sees its frame is in its frame's generation) are what
makes the check of the frame in `identify` enough.

Its second part is about `PointedTarget`: `NamedByTwoPictures`, `TwoPicturesSuffice`,
`BystandersDecideNothing`, for any set of pictures of people of `TrackIds`, and any age limit.

- `PointedIInv` adds to `WindowStands` that the window holds readings of pictures and none of the future.
  Since times do not go back, the frames a look sees are the newest ones (`NewestIsSeen`), and a frame
  selected in the first look is either still the newest in the second or no longer seen.
- Two frames of three have most of the votes: whoever is in two of them is alone in that
  (`StableTrackIs`), so the order in which `Counter.most_common` settles a tie never matters. With
  a longer window this would not be true, and `TwoAreEnough` with it.
- `BystandersDecideNothing` rests on `ClearMeans`: a pose is clear exactly when one person's score
  is more than the margin above everybody else's, which leaving out somebody else does not
  change: `BystandersSpoil`, for any picture with finitely many people and scores that are numbers,
  of which the run's line-ups are some.

`MemoryStoreProofs`: `TablesAgree`, `FamiliarityIsEarned`, `SettledForGood`, `NobodyForgotten`,
`MemoriesAreConserved`, `MatchesAreClear`.

- `Integrity` is not inductive. A vector copied from a profile needs that profile merged with that very
  face (`VectorsStand`), which needs that a query that will store an embedding is the only one
  to do so and finds the profile without one (`Stands`, `OneCreator`), that what was looked up is
  still there when it is used, and that a teach request about to commit brings an id and a
  crop nobody uses (`TeachingStands`).
- `NobodyForgotten` holds for any window. `MemoriesAreConserved` assumes `Fits`, that a search sees the
  whole table: beyond the window somebody with many vectors hides behind them and is
  remembered twice (see above). `Missed` is its invariant: whoever found nobody and was not
  overtaken since would have found the only one there is.
- `MatchesAreClear`: whoever is taken for a person is so by the margin against the whole table, not
  only against the window, for any window (`MatchesWithinAreClear`). The reason is that a vector
  the window leaves out is no nearer than the ones in it. `MarginsAreReal` is the same of
  the window of two vectors through which the run looks (`MarginIsReal`), narrower than what one
  person may have, and needs that the retriever of the run's instance is the one of the lemma.
- `StoreAssumption` keeps `None` apart from rows and names, since code and model test for it.

`PerceptionProofs` EXTENDS the modules of engine, session and tracker.

- `TracksAsTheTrackerPromises`: every step of `Tracker` is a step of `TrackFeed` or a stutter, whatever
  is matched; a frame has no more detections than `TrackFeed` starts tracks (`TrackerAssumption`).
  `TracksStand` bounds ids and times; tracks younger than the frame and distinct
  new ids come from it. The assumption of `TrackFeed` that `None` is neither a number nor a frame
  is needed because `Regressed` compares with `None`.
- `MatchesAreStable`: after an update the matched pairs are exactly those that overlap and lose neither
  their track nor their detection to a matched pair served before them (`BestOff`). A set of
  matches with this property for one pass (`Greedy`) is unique (`GreedyIsUnique`: take the
  first pair in the order of the sort on which two of them differ), there is one
  (`GreedyExists`, from a smallest set of pairs without), and so the fold of `MatchCandidates`, whose
  recursive function is a `CHOOSE`, is one that exists (`ExhaustionExists`) and gives it
  (`MatchingIsGreedy`). No induction theorem is used: a finite set has a smallest subset that is
  a counterexample (`SmallestSet`). `BothPassesMatch` puts the two passes together.
- `SessionKeepsItsPromise`: `process_frame` implements `PersonFeed`. `SwitchingInTime`: the
  target changes hands to somebody who outgrew it all along. Its invariant is `SelectorStands`:
  a challenger has outgrown the target in every frame since before it became the challenger.
  They use the order of the areas and `AreaRatio >= 100` (`SelectorAssumption`). That there is
  a best candidate for the selector's `CHOOSE` follows from the candidates being finite.
- `EverybodyIsKnown`: the tables of the engine (slots, last seen, last told, left) fit together and new
  slots are as many as the ids that need one (`MemoryStands`), so that a person who is gone is told to have
  left unless the cooldown puts it off.
- `MotionOnlyAtRest`: motion history is kept for no longer than the head rests (`HeadStands`).
  `ToldOnTheRise`: what was told and holds is active for the slot (`HeldStands`).

Model-checked only:

- Liveness: `FramesKeepFlowing`, `WatchdogFair`, `ShutdownEnds`, `QueueDrains`, `CloseEnds`, `PendingEnds`,
  `NewestIsPublished`, `NothingIsLeft` and the last part of `FailuresAreTold` (`LossIsNoticed`).

All other properties of the passing runs are theorems. Liveness needs `ENABLED`, which the prover does not
have.

## Plan

| Step | Modules | State of it |
|---|---|---|
| 1 | `CliRuntime`, `GazeWatchdog`, `CliRuntimeProofs` | modelled and proved |
| 2 | `BotifiedGate`, `BotifiedWriter` and their proofs | modelled and proved |
| 3 | `TrackFeed`, `Tracker`, `Attention`, `PersonFeed`, `StreamSession`, `EventEngine`, `PerceptionProofs` | modelled and proved |
| 4 | `MemoryService`, `MemoryOverlay` and their proofs | modelled and proved |
| 5 | `Retriever`, `MemoryStore`, `MemoryStoreProofs`; `PointedTarget` | modelled and proved; the proofs of `PointedTarget` are in `MemoryOverlayProofs` |
| 6 | `DdsBridge`, `DdsBridgeProofs` | modelled and proved |

No module with a theorem reaches a `RECURSIVE` operator.

## Not modelled

- Embedding and inference backends, overlaps of boxes, the geometry of events and of pointing:
  numerical code; the models take its outcome as a choice or as data.
- Scenes (`teach_scene`, `_query_scene`) and conversation summaries: rows that are added and read
  and that nothing else depends on. The cooldown of `MemoryEventGate` is a choice of
  `MemoryStore`; the recognition report is bookkeeping for tests.
- Gaze target mapper: a pure function of one answer; what it makes of an answer is a fresh sample.
- Head states of the bridge, which share the camera's slot logic, and `bridge_abi.cpp` and
  `bridge_protocol.py`, which convert between structs and lines.
- Protocol parsing, configuration, metrics, command line: no state a property could relate.
- Tools and tests: harnesses, demos and evidence generators (more than half of the repository's lines)
  that drive the system from outside and are no part of it. They are why the map names only a
  seventh of all lines, though about a third of the lines of CLI, server and native bridge.
- What a slot shared by two visible tracks should mean (`engine.py:996`): no document says;
  `ToldOnce` names the case as its exception.
- Wall clock steps: the models' clock only goes forward (`frame_pump.py:164`).
