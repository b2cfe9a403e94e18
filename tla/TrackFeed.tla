----------------------------- MODULE TrackFeed -----------------------------
(***************************************************************************)
(* What ByteTrackStyleTracker promises those who use its tracks: an id     *)
(* names one track until the stream starts over, ids are given out in      *)
(* order, and a track that was not seen for longer than the lost TTL is    *)
(* gone for good.  Which track a detection belongs to is left open.        *)
(*                                                                         *)
(* Time is the frames' own: a frame is its timestamp and its id, and a     *)
(* frame that is behind the last one in either starts the stream over.     *)
(***************************************************************************)
EXTENDS Integers, FiniteSets

CONSTANTS
    None,
    LostTtl,   \* lost_ttl_ms
    MinHits,   \* stable_min_hits: more hits than that are all alike
    MaxTime,   \* bound on the timestamps
    MaxFrameId,\* bound on the frame ids
    MaxNew,    \* most tracks a frame starts
    MaxTrackId \* bound on the ids given out

ASSUME TrackAssumption ==
    /\ {LostTtl, MaxTime, MaxFrameId, MaxNew, MaxTrackId} \subseteq Nat
    /\ MinHits \in Nat \ {0}
    /\ None \notin Int \cup [ts : Nat, fid : Nat]

VARIABLE trk   \* the tracks, the next id and the frame of the last update

Frames == [ts : 0..MaxTime, fid : 0..MaxFrameId]
Tracks == [first : 0..MaxTime, seen : 0..MaxTime, hits : 1..MinHits]

NoTracks == [tracks |-> <<>>, nextId |-> 1, stamp |-> None]

Regressed(stamp, frame) ==
    stamp # None /\ (frame.ts < stamp.ts \/ frame.fid < stamp.fid)

\* lost_ms of a snapshot taken with the frame; a matched track was seen in it.
Lost(track, frame) == frame.ts - track.seen

Capped(n) == IF n < MinHits THEN n ELSE MinHits

Started(frame) == [first |-> frame.ts, seen |-> frame.ts, hits |-> 1]
SeenAgain(track, frame) ==
    [track EXCEPT !.seen = frame.ts, !.hits = Capped(track.hits + 1)]

\* The tracks after the frame, of which `seen` were matched and `n` are new.
Observed(old, frame, kept, seen, n) ==
    [tracks |-> [i \in kept \cup (old.nextId .. old.nextId + n - 1) |->
                   IF i >= old.nextId THEN Started(frame)
                   ELSE IF i \in seen THEN SeenAgain(old.tracks[i], frame)
                   ELSE old.tracks[i]],
     nextId |-> old.nextId + n,
     stamp |-> frame]

\* The tracker's own _should_reset.
Current(old, frame) == IF Regressed(old.stamp, frame) THEN NoTracks ELSE old
Unexpired(tracks, frame) == {i \in DOMAIN tracks : Lost(tracks[i], frame) =< LostTtl}

NextTracks(old, frame) ==
    LET base == Current(old, frame)
        kept == Unexpired(base.tracks, frame)
    IN {Observed(base, frame, kept, seen, n) :
          seen \in SUBSET kept,
          n \in {k \in 0..MaxNew : base.nextId + k =< MaxTrackId + 1}}

\* lost_ms = 0: what every reader of the tracks takes for "visible"
VisibleIds(t) == {i \in DOMAIN t.tracks : Lost(t.tracks[i], t.stamp) = 0}

TrackInit == trk = NoTracks
TrackNext == \E frame \in Frames : trk' \in NextTracks(trk, frame)
TrackSpec == TrackInit /\ [][TrackNext]_trk
=============================================================================
