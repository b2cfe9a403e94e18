----------------------------- MODULE PersonFeed -----------------------------
(***************************************************************************)
(* What a stream session hands its event engine with every frame: tracks   *)
(* as TrackFeed promises them, and a target as Attention promises it.      *)
(***************************************************************************)
EXTENDS Attention

VARIABLE target

PersonInit == TrackInit /\ target = None

\* The target of the stream that the frame continues or starts.
Before(frame) == IF Regressed(trk.stamp, frame) THEN None ELSE target

\* A frame that is answered with the tracks t and the target g.
Answers(frame) ==
    UNION {{t} \X NextTargets(Before(frame), t) : t \in NextTracks(trk, frame)}

Observe(t, g) == trk' = t /\ target' = g

\* A frame behind the last one whose inference fails: all is forgotten.
StartOver(frame) ==
    /\ Regressed(trk.stamp, frame)
    /\ trk' = NoTracks
    /\ target' = None

PersonNext ==
    \E frame \in Frames :
        \/ \E a \in Answers(frame) : Observe(a[1], a[2])
        \/ StartOver(frame)
PersonSpec == PersonInit /\ [][PersonNext]_<<trk, target>>
=============================================================================
