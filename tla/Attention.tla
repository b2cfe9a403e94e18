----------------------------- MODULE Attention -----------------------------
(***************************************************************************)
(* What AttentionSelector promises: whom the robot may attend to after a   *)
(* frame, given whom it attended to before it.  Which of several stable    *)
(* people is chosen, and when the choice changes, is left open.            *)
(***************************************************************************)
EXTENDS TrackFeed

CONSTANTS
    MinAge,   \* stable_min_age_ms
    LostHold  \* lost_hold_ms

ASSUME AttentionAssumption == {MinAge, LostHold} \subseteq Nat

StablePeople(t) ==
    {i \in VisibleIds(t) : /\ t.tracks[i].hits >= MinHits
                           /\ t.stamp.ts - t.tracks[i].first >= MinAge}

\* Out of sight, and not for long.
HeldLost(id, t) ==
    id \in DOMAIN t.tracks /\ Lost(t.tracks[id], t.stamp) \in 1..LostHold

NextTargets(prev, t) ==
    IF HeldLost(prev, t) THEN {prev}
    ELSE IF StablePeople(t) = {} THEN {None}
    ELSE StablePeople(t)
=============================================================================
