---------------------------- MODULE EventEngine ----------------------------
(***************************************************************************)
(* EventEngine.update on what PersonFeed hands it: which semantic events a *)
(* frame brings.  The geometry behind an event (passing, approaching,      *)
(* stopping, waving; whether two boxes are close) is left open; what the   *)
(* engine remembers about people, and when it speaks, is not.              *)
(*                                                                         *)
(* A person is a slot: a track that starts close to where somebody was     *)
(* last seen a moment ago takes over that slot.                            *)
(***************************************************************************)
EXTENDS PersonFeed

CONSTANTS
    Conditions,   \* the events with a rising edge
    MotionEvents, \* MOTION_SENSITIVE_EVENTS, those that need a head at rest
    Cooldown,     \* cooldown_ms
    AliasWindow,  \* reacquire_alias_window_ms
    LeftLost,     \* left_lost_ms
    MotionSpan    \* the shortest of passing, approach and stop_duration_ms

ASSUME EngineAssumption ==
    /\ {AliasWindow, LeftLost, MotionSpan} \subseteq Nat
    /\ Cooldown \in Nat \ {0}
    /\ MotionEvents \subseteq Conditions
    /\ {"appeared", "left", "target"} \cap Conditions = {}

VARIABLES
    eng,  \* what the engine remembers
    out   \* the events of the last answered frame

vars == <<trk, target, eng, out>>

Kinds == {"appeared", "left", "target"} \cup Conditions

NoMemory ==
    [slotOf   |-> <<>>,  \* _track_person_slots
     nextSlot |-> 1,     \* _next_person_slot
     aliasAt  |-> <<>>,  \* _track_alias_assigned_ms
     seen     |-> <<>>,  \* _slot_last_seen_ms
     lastId   |-> <<>>,  \* _slot_last_track_id
     motion   |-> <<>>,  \* oldest timestamp in _motion_histories, per track
     appeared |-> {}, salient |-> {}, left |-> {},  \* the three sets of slots
     active   |-> {},    \* _active_conditions
     lastKind |-> <<>>,  \* _last_event_by_type_ms
     lastTold |-> <<>>,  \* _last_person_event_ms
     prev     |-> None]  \* _last_attention_track_id

Init == PersonInit /\ eng = NoMemory /\ out = {}

\* f with the values of g wherever g has one
Updated(f, g) == [x \in DOMAIN f \cup DOMAIN g |-> IF x \in DOMAIN g THEN g[x] ELSE f[x]]

-----------------------------------------------------------------------------
(* Slots *)

\* A slot that somebody in sight has is not up for being taken over.
SlotsInSight(e, t) == {e.slotOf[i] : i \in VisibleIds(t) \cap DOMAIN e.slotOf}
Reusable(e, t) ==
    {s \in DOMAIN e.seen \ SlotsInSight(e, t) : t.stamp.ts - e.seen[s] =< AliasWindow}

Newcomers(e, t) == VisibleIds(t) \ DOMAIN e.slotOf

\* Who takes over whose slot; no slot is taken over twice.
Takeovers(e, t) ==
    UNION {{f \in [ids -> Reusable(e, t)] : \A i, j \in ids : f[i] = f[j] => i = j} :
             ids \in SUBSET Newcomers(e, t)}

\* _next_person_slot once the ids got slots of their own
SlotAfter(e, ids) == e.nextSlot + Cardinality(ids)

WithSlots(e, t, takeover) ==
    LET fresh == Newcomers(e, t) \ DOMAIN takeover
        new   == [i \in fresh |-> SlotAfter(e, {j \in fresh : j < i})]
    IN [e EXCEPT !.slotOf   = Updated(Updated(@, takeover), new),
                 !.nextSlot = SlotAfter(e, fresh),
                 !.aliasAt  = Updated(@, [i \in DOMAIN takeover |-> t.stamp.ts])]

\* _observe_tracks once everybody in sight has a slot; with a moving head nothing
\* is kept of how people move.
KeepsMotion(e, t, head) ==  \* mutant
    Updated([i \in VisibleIds(t) |-> t.stamp.ts], e.motion)
Motion(e, t, head) ==
    IF head = "moving" THEN <<>>
    ELSE Updated([i \in VisibleIds(t) |-> t.stamp.ts], e.motion)

ClearsEvery(e, head) == IF head = "moving" THEN {} ELSE e.active  \* mutant
StillActive(e, head) ==
    IF head = "moving" THEN {a \in e.active : a[2] \notin MotionEvents} ELSE e.active

Noted(e, t, g, head) ==
    LET slots == {e.slotOf[i] : i \in VisibleIds(t)}
        Latest(s) == CHOOSE i \in VisibleIds(t) :
                       /\ e.slotOf[i] = s
                       /\ \A j \in VisibleIds(t) : e.slotOf[j] = s => j =< i
    IN [e EXCEPT !.seen   = Updated(@, [s \in slots |-> t.stamp.ts]),
                 !.lastId = Updated(@, [s \in slots |-> Latest(s)]),
                 !.motion = Motion(e, t, head),
                 !.active = StillActive(e, head),
                 !.salient = @ \cup {e.slotOf[i] : i \in {g} \cap StablePeople(t)}]

-----------------------------------------------------------------------------
(* Proposals *)

Proposal(kind, id) == [kind |-> kind, id |-> id]

Appearing(e, t, g) ==
    {Proposal("appeared", i) :
       i \in {j \in {g} \cap StablePeople(t) : e.slotOf[j] \notin e.appeared}}

\* For how long the slot's person is gone: the slot itself, or any track of it.
GoneFor(e, t, s) ==
    LET lost == {t.stamp.ts - e.seen[s]} \cup
                {Lost(t.tracks[i], t.stamp) :
                   i \in {j \in DOMAIN t.tracks : e.slotOf[j] = s}}
    IN CHOOSE d \in lost : \A x \in lost : x =< d

Leaving(e, t) ==
    {Proposal("left", e.lastId[s]) :
       s \in {r \in e.salient \ (e.left \cup SlotsInSight(e, t)) :
                GoneFor(e, t, r) >= LeftLost}}

\* What can be seen of the people in sight: a motion needs a history long enough.
Sights(e, t) ==
    SUBSET {w \in VisibleIds(t) \X Conditions :
              w[2] \in MotionEvents => /\ w[1] \in DOMAIN e.motion
                                       /\ t.stamp.ts - e.motion[w[1]] >= MotionSpan}

\* Each condition is looked at for everybody in sight, in the order of their ids: where
\* it does not hold, it is no longer active for the slot.
Over(e, t, sight) ==
    {<<e.slotOf[w[1]], w[2]>> : w \in (VisibleIds(t) \X Conditions) \ sight}

\* Where it holds and is not active, it is proposed: the rising edge.
Rising(e, t, sight) ==
    {Proposal(w[2], w[1]) :
       w \in {v \in sight :
                \/ <<e.slotOf[v[1]], v[2]>> \notin e.active
                \/ \E j \in VisibleIds(t) : /\ j < v[1] /\ e.slotOf[j] = e.slotOf[v[1]]
                                            /\ <<j, v[2]>> \notin sight}}

Turning(e, t, g) ==
    {Proposal("target", i) :
       i \in {j \in {g} \cap VisibleIds(t) : e.prev \notin {None, j}}}

-----------------------------------------------------------------------------
(* _emit_if_allowed *)

KeyOf(e, p) == <<IF p.kind = "target" THEN p.id ELSE e.slotOf[p.id], p.kind>>

Within(span, f, x, now) == x \in DOMAIN f /\ now - f[x] < span

Allowed(e, p, now) ==
    LET key == KeyOf(e, p)
    IN /\ ~ Within(Cooldown, e.lastKind, p.kind, now)
       /\ ~ (/\ p.kind # "target" /\ key \in DOMAIN e.lastTold
             /\ Within(AliasWindow + 1, e.aliasAt, p.id, now))
       /\ ~ Within(Cooldown, e.lastTold, key, now)

\* Departures come in the order of their slots, all else in that of the tracks.
Earlier(e, p, q) ==
    IF p.kind = "left" THEN e.slotOf[p.id] < e.slotOf[q.id] ELSE p.id < q.id

\* One event puts its kind on cooldown, for the rest of the frame too.
Emitted(e, props, now) ==
    LET allowed == {p \in props : Allowed(e, p, now)}
    IN {p \in allowed : \A q \in allowed \ {p} : q.kind = p.kind => Earlier(e, p, q)}

SlotsTold(e, events, kind) == {KeyOf(e, p)[1] : p \in {q \in events : q.kind = kind}}

EveryLeaving(e, props, events) == SlotsTold(e, props, "left")  \* mutant
Departed(e, props, events) == SlotsTold(e, events, "left")

Told(e, props, events, now) ==
    [e EXCEPT
       !.lastKind = Updated(@, [k \in {p.kind : p \in events} |-> now]),
       !.lastTold = Updated(@, [k \in {KeyOf(e, p) : p \in events} |-> now]),
       !.appeared = @ \cup SlotsTold(e, events, "appeared"),
       !.salient  = @ \cup SlotsTold(e, events, "appeared"),
       !.left     = @ \cup Departed(e, props, events),
       !.active   = @ \cup {KeyOf(e, p) : p \in {q \in events : q.kind \in Conditions}}]

-----------------------------------------------------------------------------

\* The rest of update, for a frame with the tracks t and the target g.
Update(noted, t, g, sight) ==
    LET quiet  == [noted EXCEPT !.active = @ \ Over(noted, t, sight)]
        props  == Appearing(noted, t, g) \cup Leaving(noted, t)
                    \cup Rising(noted, t, sight) \cup Turning(noted, t, g)
        events == Emitted(quiet, props, t.stamp.ts)
    IN /\ out' = events
       /\ eng' = [Told(quiet, props, events, t.stamp.ts) EXCEPT !.prev = g]

Remembered(frame) == IF Regressed(trk.stamp, frame) THEN NoMemory ELSE eng

\* What the engine knows of the people in sight before it proposes anything.
Knowledge(frame, t, g, head) ==
    {Noted(WithSlots(Remembered(frame), t, takeover), t, g, head) :
       takeover \in Takeovers(Remembered(frame), t)}

Restart(frame) == StartOver(frame) /\ eng' = NoMemory /\ out' = {}

-----------------------------------------------------------------------------
\* What the engine remembers fits together: everybody in the picture has a slot,
\* and what is told of a slot is told of one that exists.
TypeOK ==
    /\ DOMAIN trk.tracks \subseteq DOMAIN eng.slotOf
    /\ {eng.slotOf[i] : i \in DOMAIN eng.slotOf} \subseteq 1..eng.nextSlot - 1
    /\ DOMAIN eng.seen = 1..eng.nextSlot - 1
    /\ eng.left \cup eng.appeared \subseteq eng.salient
    /\ eng.salient \subseteq DOMAIN eng.seen
    /\ \A p \in out : p.kind \in Kinds /\ p.id \in DOMAIN eng.slotOf

\* Nobody is forgotten: who was told of and is gone for left_lost_ms has been reported
\* as left, unless another departure is still cooling down.
NobodyIsForgotten ==
    \A s \in eng.salient \ SlotsInSight(eng, trk) :
        /\ <<s, "left">> \notin DOMAIN eng.lastTold
        /\ trk.stamp.ts - eng.seen[s] >= LeftLost
        => Within(Cooldown, eng.lastKind, "left", trk.stamp.ts)

\* The engine knows everybody in the picture, and loses nobody out of it untold.
KnowsEverybody == TypeOK /\ NobodyIsForgotten
=============================================================================
