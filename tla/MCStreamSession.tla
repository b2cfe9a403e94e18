-------------------------- MODULE MCStreamSession --------------------------
(***************************************************************************)
(* StreamSession with the history that its main property is about: since   *)
(* when each rival has outgrown the target in every frame.                 *)
(***************************************************************************)
EXTENDS StreamSession

VARIABLE larger  \* history: whom the rivals outgrow, and since when each does

NoRivals == [of |-> None, since |-> <<>>]

\* The target that the frame finds.
TargetBefore(frame) == Continued(frame).sel.target

Outgrown(frame, look) ==
    IF TargetBefore(frame) \notin StablePeople(trk') THEN NoRivals
    ELSE LET seen == IF larger.of = TargetBefore(frame) THEN larger.since ELSE <<>>
         IN [of |-> TargetBefore(frame),
             since |-> [i \in Challengers(StablePeople(trk'), TargetBefore(frame), look) |->
                          IF i \in DOMAIN seen THEN seen[i] ELSE frame.ts]]

RivalInit == SessionInit /\ larger = NoRivals

ProcessFrame ==
    \E frame \in Frames :
      \E next \in NextTracks(Continued(frame).trk, frame) :
        \E look \in Looks(next) :
          /\ trk' = next
          /\ Answer(frame, look)
          /\ larger' = Outgrown(frame, look)

FrameFails ==
    \E frame \in Frames :
      /\ InferenceFails(frame)
      /\ larger' = IF Regressed(lastFrame, frame) THEN NoRivals ELSE larger

RivalNext == ProcessFrame \/ FrameFails
RivalSpec == RivalInit /\ [][RivalNext]_<<sessionVars, larger>>

\* The robot does not look back and forth: while the target stays in sight, it turns
\* only to somebody who was clearly larger in every frame of switch_confirm_ms.
NoFlapping ==
    [][ /\ sel.target \in StablePeople(trk') /\ sel'.target # sel.target
        /\ ~ Regressed(lastFrame, trk'.stamp)
        => /\ sel'.target \in DOMAIN larger'.since
           /\ trk'.stamp.ts - larger'.since[sel'.target] >= SwitchConfirm
      ]_<<sessionVars, larger>>

\* The robot turns to a larger person after switch_confirm_ms, no sooner and no later,
\* with the selector and the tracker at the same frame.
SwitchesInTime == [](SessionTypeOK /\ SwitchIsNotPutOff) /\ NoFlapping
=============================================================================
