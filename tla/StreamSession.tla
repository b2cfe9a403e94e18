--------------------------- MODULE StreamSession ---------------------------
(***************************************************************************)
(* BackendVisualStreamSession.process_frame of one WebSocket, with the     *)
(* AttentionSelector on top of tracks as TrackFeed promises them.  A       *)
(* connection hands in its frames one at a time, and all of process_frame  *)
(* that changes state lies on one side of the await of inference.          *)
(***************************************************************************)
EXTENDS Attention

CONSTANTS
    Areas,          \* how large a person can look
    Certainties,    \* how sure the detector can be
    AreaRatio,      \* switch_area_ratio, in per cent
    SwitchConfirm   \* switch_confirm_ms

ASSUME SelectorAssumption ==
    /\ Areas \subseteq Nat /\ Certainties \subseteq Nat
    /\ AreaRatio \in Nat /\ AreaRatio >= 100
    /\ SwitchConfirm \in Nat

VARIABLES
    sel,       \* the selector: target, challenger, since when, last frame
    lastFrame  \* the session's own _last_frame_id and _last_timestamp_ms

sessionVars == <<trk, sel, lastFrame>>

NoSelection == [target |-> None, challenger |-> None, since |-> None, stamp |-> None]

SessionInit == TrackInit /\ sel = NoSelection /\ lastFrame = None

-----------------------------------------------------------------------------
(* AttentionSelector *)

\* What the picture shows of the people in sight.
Looks(t) == [VisibleIds(t) -> [area : Areas, conf : Certainties]]

Score(l) == l.area * l.conf
Precedes(look, i, j) ==
    \/ Score(look[i]) > Score(look[j])
    \/ /\ Score(look[i]) = Score(look[j])
       /\ \/ look[i].area > look[j].area
          \/ look[i].area = look[j].area /\ i < j
Best(people, look) ==
    CHOOSE i \in people : \A j \in people \ {i} : Precedes(look, i, j)

Challengers(people, current, look) ==
    {i \in people \ {current} : 100 * look[i].area >= AreaRatio * look[current].area}

WithoutChallenger(s) == [s EXCEPT !.challenger = None, !.since = None]

SinceTheFirst(s, challenger, now) == IF s.since = None THEN now ELSE s.since \* mutant
\* _challenger_since_ms once this frame's challenger is known
Since(s, challenger, now) == IF challenger = s.challenger THEN s.since ELSE now

MoreThan(now, since) == now - since > SwitchConfirm  \* mutant
Confirmed(now, since) == now - since >= SwitchConfirm

Contested(s, t, look) ==
    LET rivals == Challengers(StablePeople(t), s.target, look)
        rival  == Best(rivals, look)
        since  == Since(s, rival, t.stamp.ts)
    IN IF rivals = {} THEN WithoutChallenger(s)
       ELSE IF Confirmed(t.stamp.ts, since)
       THEN [WithoutChallenger(s) EXCEPT !.target = rival]
       ELSE [s EXCEPT !.challenger = rival, !.since = since]

IsHeld(s, t) == HeldLost(s.target, t)

Select(s, t, look) ==
    IF s.target \in StablePeople(t) THEN Contested(s, t, look)
    ELSE IF IsHeld(s, t) THEN WithoutChallenger(s)
    ELSE [NoSelection EXCEPT !.target = IF StablePeople(t) = {} THEN None
                                        ELSE Best(StablePeople(t), look)]

UpdateSelector(s, t, look) ==
    [Select(IF Regressed(s.stamp, t.stamp) THEN NoSelection ELSE s, t, look)
       EXCEPT !.stamp = t.stamp]

-----------------------------------------------------------------------------
(* process_frame *)

KeepsSelector(frame) ==  \* mutant
    [trk |-> IF Regressed(lastFrame, frame) THEN NoTracks ELSE trk,
     sel |-> sel,
     lastFrame |-> IF Regressed(lastFrame, frame) THEN None ELSE lastFrame]
\* The session once reset() was called for a frame that goes back.
Continued(frame) ==
    IF Regressed(lastFrame, frame)
    THEN [trk |-> NoTracks, sel |-> NoSelection, lastFrame |-> None]
    ELSE [trk |-> trk, sel |-> sel, lastFrame |-> lastFrame]

Answer(frame, look) ==
    /\ trk' \in NextTracks(Continued(frame).trk, frame)
    /\ look \in Looks(trk')
    /\ sel' = UpdateSelector(Continued(frame).sel, trk', look)
    /\ lastFrame' = frame

InferenceFails(frame) ==
    /\ trk' = Continued(frame).trk
    /\ sel' = Continued(frame).sel
    /\ lastFrame' = Continued(frame).lastFrame

-----------------------------------------------------------------------------
\* The session's parts are what they should be, and see the same last frame, also
\* after a reset whose own frame then fails.
SessionTypeOK ==
    /\ sel.target \in 1..MaxTrackId \cup {None}
    /\ sel.challenger \in 1..MaxTrackId \cup {None}
    /\ sel.since \in 0..MaxTime \cup {None}
    /\ sel.stamp = lastFrame /\ trk.stamp = lastFrame

\* A switch is not put off: once the same person has been the best challenger for
\* switch_confirm_ms, that person is the target and no longer a challenger.
SwitchIsNotPutOff ==
    sel.challenger # None => sel.stamp.ts - sel.since < SwitchConfirm

\* Whom the event engine is told of is whom Attention allows, through resets, failed
\* inference and frames that go back.
Feed == INSTANCE PersonFeed WITH target <- sel.target
AttentionAsPromised == Feed!PersonSpec
=============================================================================
