-------------------------- MODULE MCPointedTarget --------------------------
EXTENDS PointedTarget

Scores == 0..3

\* Pictures of the tracks: an attention target that is held, or in sight; the
\* arms of the person engaged.
ScoresOf(tracks) == [{"left", "right"} -> [tracks -> Scores]]
MCPictures ==
    LET Sets == {[target |-> 0, available |-> FALSE, visible |-> {}, arms |-> {},
                  score |-> [arm \in {"left", "right"} |-> [t \in TrackIds |-> 0]]]}
    IN Sets \cup
       {p \in [target : TrackIds, available : BOOLEAN, visible : SUBSET TrackIds,
               arms : SUBSET {"left", "right"}, score : ScoresOf(TrackIds)] :
          /\ p.available => p.target \in p.visible
          /\ \A t \in TrackIds, arm \in {"left", "right"} :
               t \notin p.visible \ {p.target} \/ arm \notin p.arms => p.score[arm][t] = 0}

\* Pictures with three people to point at.
LineUps ==
    [target : {1}, available : {TRUE}, visible : {1..4}, arms : {{"left"}, {"left", "right"}},
     score : [{"left", "right"} -> [2..4 -> Scores]]]
Without(p, t) == [p EXCEPT !.visible = @ \ {t}]

\* A bystander may make it unclear who is meant, but nobody is meant because of one:
\* without any of the others it is the same person, in every line-up and for both arms.
BystandersOnlySpoil ==
    PointedInit => \A p \in LineUps :
                LET who == Pose(p).who
                IN who # None => \A t \in (2..4) \ {who} : Pose(Without(p, t)).who = who
=============================================================================
