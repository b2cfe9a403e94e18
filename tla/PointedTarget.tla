--------------------------- MODULE PointedTarget ---------------------------
(***************************************************************************)
(* The person whom a teach or resolve request means: somebody introduces   *)
(* themself, or points at somebody else.  FrameCache keeps the last frames *)
(* of the stream; the request takes what they agree on.  A frame is what   *)
(* MemoryService reads in it: who is engaged and whom that person points   *)
(* at.  The event loop answers a request without a frame in between, but   *)
(* the clock goes on, and it is read once for each look at the window.     *)
(***************************************************************************)
EXTENDS Integers, Sequences, FiniteSets, FiniteSetsExt

CONSTANTS
    TrackIds,           \* track ids
    MaxAge,             \* frame_cache_seconds
    MaxClock            \* bound: the clock

ASSUME PointedAssumption == TrackIds \subseteq Nat \ {0} /\ {MaxAge, MaxClock} \subseteq Nat

None == 0
Required == 2           \* engaged frames, and pointing frames, that make a target stable

-----------------------------------------------------------------------------
(* A picture: the attention target and whether the scene is available to   *)
(* it, the people in sight, the arms that can be read (with the hand far   *)
(* enough from the shoulder) and how well each of them points at a person. *)

Engaged(p) == IF p.available /\ p.target \in p.visible THEN p.target ELSE None

\* Scores in steps of ambiguous_score_margin; 0 is not pointed at.
Score(p, t) == Max({p.score[arm][t] : arm \in p.arms})
\* The left arm is tried first, and the right one has to be better.
Arm(p, t) == IF "left" \in p.arms /\ p.score["left"][t] = Score(p, t) THEN "left" ELSE "right"

FromTheLast(scores) == Max(scores) - Min(scores)  \* mutant
MarginOf(scores) == LET best == Max(scores) IN best - Max(scores \ {best})
\* Two people of one score have no margin.
Clear(p, pointed) ==
    \/ Cardinality(pointed) = 1
    \/ LET scores == {Score(p, t) : t \in pointed}
           best   == {t \in pointed : Score(p, t) = Max(scores)}
       IN Cardinality(best) = 1 /\ MarginOf(scores) > 1

Unsure(why) == [why |-> why, who |-> None, arm |-> "none"]

\* preview_pose_pointing_person for the person engaged.
Pose(p) ==
    LET pointed == {t \in p.visible \ {p.target} : Score(p, t) > 0}
    IN CASE p.arms = {} -> Unsure("pose_unclear")
         [] p.arms # {} /\ pointed = {} -> Unsure("target_unclear")
         [] p.arms # {} /\ pointed # {} /\ ~ Clear(p, pointed) -> Unsure("multiple_candidates")
         [] OTHER ->
              LET t == CHOOSE t \in pointed : \A u \in pointed : Score(p, u) <= Score(p, t)
              IN [why |-> "resolved", who |-> t, arm |-> Arm(p, t)]

\* What the service reads in a picture.
Reading(p) ==
    [engaged |-> Engaged(p),
     pose |-> IF Engaged(p) = None THEN Unsure("no_active_interaction_target") ELSE Pose(p)]

-----------------------------------------------------------------------------
CONSTANT Pictures       \* that the camera takes

ASSUME PicturesAssumption == \A p \in Pictures : p.visible \subseteq TrackIds

VARIABLES
    clock,      \* the clock of the service
    window,     \* _snapshot_windows_by_stream of this stream
    request,    \* a third person introduction between its two looks: the introducer, and
                \* the place in the window of the frame selected
    answer      \* of the last step: whom a request got, or why not

pointedVars == <<clock, window, request, answer>>

NoRequest == [introducer |-> None, selected |-> 0]
NoAnswer == [kind |-> "none", who |-> None, introducer |-> None, why |-> "none"]

PointedInit == clock = 0 /\ window = <<>> /\ request = NoRequest /\ answer = NoAnswer

Free == request = NoRequest

\* _snapshot_window_size
LastFrames(frames) == IF Len(frames) > 3 THEN Tail(frames) ELSE frames

Readings == {Reading(p) : p \in Pictures}

Update ==
    /\ Free
    /\ \E r \in Readings :
         window' = LastFrames(Append(window, [at |-> clock, engaged |-> r.engaged,
                                              pose |-> r.pose]))
    /\ answer' = NoAnswer
    /\ UNCHANGED <<clock, request>>

ClockTicks ==
    /\ clock < MaxClock
    /\ clock' = clock + 1
    /\ answer' = NoAnswer
    /\ UNCHANGED <<window, request>>

\* A look at the window sees the frames, by their places, that are not too old.
Seen == {i \in DOMAIN window : clock - window[i].at <= MaxAge}

EngagedIn(seen, t) == {i \in seen : window[i].engaged = t}

\* Counter.most_common: by count, then by first appearance.
StableTrack(seen) ==
    LET often == {t \in TrackIds : Cardinality(EngagedIn(seen, t)) >= Required}
        Before(t, u) ==
          LET n == Cardinality(EngagedIn(seen, t))
              m == Cardinality(EngagedIn(seen, u))
          IN n > m \/ (n = m /\ Min(EngagedIn(seen, t)) <= Min(EngagedIn(seen, u)))
    IN IF often = {} THEN None ELSE CHOOSE t \in often : \A u \in often : Before(t, u)

\* The newest frame decides, and nobody is engaged when nobody is engaged in it.
LatestTarget(seen) == window[Max(seen)].engaged

\* _request_interaction_snapshot: the introducer, or nobody.
Introducer(seen) ==
    IF seen # {} /\ StableTrack(seen) = LatestTarget(seen) THEN StableTrack(seen) ELSE None

Refusal(seen) ==
    IF seen = {} THEN "stale_interaction" ELSE "no_active_interaction_target"

SelfIntroduction ==
    /\ Free /\ window # <<>>
    /\ LET who == Introducer(Seen)
       IN answer' = [kind |-> "self", who |-> who, introducer |-> who,
                     why |-> IF who # None THEN "resolved" ELSE Refusal(Seen)]
    /\ UNCHANGED <<clock, window, request>>

\* _third_person_introduction_target: the first look, for the introducer.
ThirdPersonIntroduction ==
    /\ Free /\ window # <<>>
    /\ LET who == Introducer(Seen)
       IN IF who = None
          THEN /\ answer' = [NoAnswer EXCEPT !.kind = "third", !.why = Refusal(Seen)]
               /\ UNCHANGED request
          ELSE /\ request' = [introducer |-> who, selected |-> Max(Seen)]
               /\ answer' = NoAnswer
    /\ UNCHANGED <<clock, window>>

OfAnybody(seen, introducer) == seen  \* mutant
OfIntroducer(seen, introducer) == EngagedIn(seen, introducer)

AllThree(n) == n >= 3  \* mutant
\* _REQUIRED_POSE_SNAPSHOT_COUNT
IsStable(n) == n >= Required

SamePair(seen, pose) ==
    {i \in seen : window[i].pose.who = pose.who /\ window[i].pose.arm = pose.arm}

\* _third_person_pose_window_decision: the second look, at a later time.  The frame
\* selected may have become too old by then.
Decision(seen, selected) ==
    LET pose == window[selected].pose
    IN IF selected \notin seen THEN Unsure("target_unclear")
       ELSE IF pose.who # None /\ ~ IsStable(Cardinality(SamePair(seen, pose)))
       THEN Unsure("target_unclear")
       ELSE pose

StableThirdPersonPose ==
    /\ ~ Free
    /\ LET pose == Decision(OfIntroducer(Seen, request.introducer), request.selected)
       IN answer' = [kind |-> "third", who |-> pose.who, introducer |-> request.introducer,
                     why |-> pose.why]
    /\ request' = NoRequest
    /\ UNCHANGED <<clock, window>>

PointedNext ==
    \/ Update \/ ClockTicks
    \/ SelfIntroduction \/ ThirdPersonIntroduction \/ StableThirdPersonPose

PointedSpec == PointedInit /\ [][PointedNext]_pointedVars

-----------------------------------------------------------------------------
Newest == window[Len(window)]

\* The window holds at most three readings in the order of their times, and a request
\* between its looks has an introducer engaged in the newest of them.
WindowStands ==
    /\ clock \in 0..MaxClock
    /\ Len(window) <= 3
    /\ \A i, j \in DOMAIN window : i < j => window[i].at <= window[j].at
    /\ ~ Free => /\ request.introducer \in TrackIds /\ request.selected = Len(window)
                /\ window # <<>> /\ Newest.engaged = request.introducer

Age(f) == clock - f.at
Named == answer.who # None

\* A name is given by the newest picture and one before it, neither too old when the
\* answer is given: both show the same person engaged and, for somebody who is
\* introduced, the same arm pointing from that person to them.
SeenTwice ==
    Named => \E i \in 1..Len(window) - 1 :
      /\ \A f \in {window[i], Newest} :
           /\ Age(f) <= MaxAge /\ f.engaged = answer.introducer
           /\ answer.kind = "third" => f.pose.who = answer.who
      /\ answer.kind = "third" => window[i].pose.arm = Newest.pose.arm

\* The window is what it should be, and one picture of it names nobody.
WellNamed == WindowStands /\ SeenTwice

Agree(f, g) == f.engaged = g.engaged /\ f.pose = g.pose
Previous == window[Len(window) - 1]
Steady ==
    /\ Len(window) >= 2 /\ Agree(Previous, Newest)
    /\ Newest.engaged # None /\ Age(Previous) <= MaxAge

\* The last two pictures are enough, whatever came before them: somebody engaged in both
\* is found, and so is the person pointed at in both.
TwoAreEnough ==
    [][Steady /\ answer'.kind # "none" =>
         /\ answer'.kind = "self" => answer'.who = Newest.engaged
         /\ answer'.kind = "third" => answer'.who = Newest.pose.who]_pointedVars
=============================================================================
