--------------------------- MODULE MCEventEngine ---------------------------
(***************************************************************************)
(* EventEngine with the history its properties are about: for how long the *)
(* head rests, and which conditions were told and have held ever since.    *)
(***************************************************************************)
EXTENDS EventEngine, FiniteSetsExt

CONSTANT MaxStep  \* bound: how much later than the last one a frame is

VARIABLES
    rest,   \* history: for how long frames show the head at rest, up to MotionSpan,
            \* None when the last one did not
    held    \* history: track and condition, told and true in every frame since

MCInit == Init /\ rest = None /\ held = {}

StillHeld(old, head, sight) ==
    {h \in old \cup {<<p.id, p.kind>> : p \in {q \in out' : q.kind \in Conditions}} :
       /\ h[1] \in VisibleIds(trk') => h \in sight
       /\ h[1] \in DOMAIN trk'.tracks
       /\ head = "moving" => h[2] \notin MotionEvents
       /\ \A j \in VisibleIds(trk') : eng'.slotOf[j] = eng'.slotOf[h[1]] => j = h[1]}

Continues(frame) == trk.stamp # None /\ ~ Regressed(trk.stamp, frame)

\* A stream starts, and starts over, at time 0, since what a session remembers is
\* only compared with the frame's own time; then a frame comes MaxStep or less later.
Timely(frame) ==
    IF Continues(frame) THEN frame.ts - trk.stamp.ts \in 1..MaxStep ELSE frame.ts = 0

Rest(frame, head) ==
    CASE head = "moving" -> None
      [] head = "stationary" /\ ~ (Continues(frame) /\ rest # None) -> 0
      [] OTHER -> Min({MotionSpan, rest + frame.ts - trk.stamp.ts})

AnswerFrame ==
    \E frame \in Frames, head \in {"stationary", "moving"} :
      /\ Timely(frame)
      /\ \E a \in Answers(frame) :
           /\ Observe(a[1], a[2])
           /\ \E noted \in Knowledge(frame, a[1], a[2], head) :
                \E sight \in Sights(noted, a[1]) :
                  /\ Update(noted, a[1], a[2], sight)
                  /\ held' = StillHeld(IF Regressed(trk.stamp, frame) THEN {} ELSE held,
                                       head, sight)
      /\ rest' = Rest(frame, head)

FailFrame == \E frame \in Frames : Restart(frame) /\ rest' = None /\ held' = {}

MCNext == AnswerFrame \/ FailFrame
MCSpec == MCInit /\ [][MCNext]_<<vars, rest, held>>

\* A robot that turns its head sees everybody move.  What it says about motion rests
\* on frames taken with the head at rest, for as long as the motion takes.
NoMotionFromTheHead ==
    \A p \in out : p.kind \in MotionEvents => rest = MotionSpan

\* Rising edge: what was told of a person is not told again while it goes on, whatever
\* the cooldown.  (Two tracks in sight that share a slot are another matter.)
ToldOnce ==
    [][\A p \in out' : <<p.id, p.kind>> \in held /\ trk'.stamp # None
                       /\ ~ Regressed(trk.stamp, trk'.stamp)
         => \E j \in VisibleIds(trk') \ {p.id} : eng'.slotOf[j] = eng'.slotOf[p.id]
      ]_<<vars, rest, held>>
=============================================================================
