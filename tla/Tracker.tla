------------------------------ MODULE Tracker ------------------------------
(***************************************************************************)
(* ByteTrackStyleTracker.update: which track a detection belongs to.       *)
(* Confidences and overlaps are levels, since the code only compares them. *)
(***************************************************************************)
EXTENDS TrackFeed, Folds

CONSTANTS
    MaxCandidates, \* most detections above low_conf in a frame
    Confidences,   \* their confidence levels
    HighConf,      \* high_conf
    NewTrackConf,  \* new_track_conf
    Overlaps,      \* levels of the overlap of a detection with a track
    MatchIou       \* match_iou

ASSUME TrackerAssumption ==
    /\ MaxCandidates \in Nat /\ MaxCandidates =< MaxNew
    /\ Confidences \subseteq Nat /\ Overlaps \subseteq Nat
    /\ {HighConf, NewTrackConf, MatchIou} \subseteq Nat

VARIABLES
    job,    \* what inference found in the frame under way, or None
    match   \* history: the matches (track, candidate) of the last frame

trackerVars == <<trk, job, match>>

TrackerInit == TrackInit /\ job = None /\ match = {}

Conflict(p, q) == p[1] = q[1] \/ p[2] = q[2]

\* the sort key of _match_candidates: overlap first, then the older track
Closer(iou, p, q) ==
    \/ iou[p] > iou[q]
    \/ iou[p] = iou[q] /\ (p[1] < q[1] \/ (p[1] = q[1] /\ p[2] < q[2]))

Matchable(ids, cands, iou) == {p \in ids \X cands : iou[p] >= MatchIou}

LastTried(iou, pairs) == CHOOSE p \in pairs : \A q \in pairs \ {p} : Closer(iou, q, p)

\* The pairs in the order of their keys: each is a match unless an earlier one took its
\* track or its detection.
MatchCandidates(pairs, iou) ==
    MapThenFoldSet(LAMBDA p, m : IF \E q \in m : Conflict(p, q) THEN m ELSE m \cup {p},
                   {}, LAMBDA p : p, LAMBDA S : LastTried(iou, S), pairs)

High(conf) == {c \in DOMAIN conf : conf[c] >= HighConf}
Matched(found) == {p[1] : p \in found}
Taken(found) == {p[2] : p \in found}

OnePass(ids, conf, iou) == MatchCandidates(Matchable(ids, DOMAIN conf, iou), iou) \* mutant
Match(ids, conf, iou) ==
    LET high == MatchCandidates(Matchable(ids, High(conf), iou), iou)
        low  == MatchCandidates(
                  Matchable(ids \ Matched(high), DOMAIN conf \ High(conf), iou), iou)
    IN high \cup low

KeepsExpired(tracks, frame) == DOMAIN tracks  \* mutant
\* The tracks that are still there when matching starts.
Matching(tracks, frame) == Unexpired(tracks, frame)

\* The detections that start a track.
Starts(conf, found) == {c \in DOMAIN conf \ Taken(found) : conf[c] >= NewTrackConf}

\* inference ends: the detections, and how they overlap the tracks in sight
Infer ==
    /\ job = None
    /\ \E frame \in Frames, n \in 0..MaxCandidates :
         \E conf \in [1..n -> Confidences],
            iou \in [Matching(Current(trk, frame).tracks, frame) \X (1..n) -> Overlaps] :
              job' = [frame |-> frame, conf |-> conf, iou |-> iou]
    /\ match' = {}
    /\ UNCHANGED trk

UpdateTracks ==
    /\ job # None
    /\ LET base    == Current(trk, job.frame)
           ids     == Matching(base.tracks, job.frame)
           found   == Match(ids, job.conf, job.iou)
           updated == [i \in ids |-> IF i \in Matched(found)
                                     THEN SeenAgain(base.tracks[i], job.frame)
                                     ELSE base.tracks[i]]
           fresh   == Cardinality(Starts(job.conf, found))
       IN /\ base.nextId + fresh =< MaxTrackId + 1
          /\ trk' = Observed([base EXCEPT !.tracks = updated], job.frame,
                             Unexpired(updated, job.frame), {}, fresh)
          /\ match' = found
    /\ job' = None

TrackerNext == Infer \/ UpdateTracks

TrackerSpec == TrackerInit /\ [][TrackerNext]_trackerVars

-----------------------------------------------------------------------------
\* The pair q is served before p: the confident detections first.
Prior(conf, iou, q, p) ==
    IF (q[2] \in High(conf)) = (p[2] \in High(conf)) THEN Closer(iou, q, p)
    ELSE q[2] \in High(conf)

\* The pairs that overlap and lose neither part to a prior pair of m.
BestOff(m, conf, iou) ==
    {p \in DOMAIN iou : /\ iou[p] >= MatchIou
                        /\ ~ \E q \in m : Conflict(p, q) /\ Prior(conf, iou, q, p)}

\* A detection and a track that overlap belong together unless one of them has
\* a better match: better overlap within its class, and a weak detection never
\* takes a track from a confident one (the two calls of _match_candidates).
NobodyIsBetterOff ==
    [][job # None => match' = BestOff(match', job.conf, job.iou)]_trackerVars

\* The tracker keeps the promise of TrackFeed: in particular nothing revives a
\* track that was out of sight for longer than the TTL, and an id is never
\* given to a second track of the same stream.
TracksAsPromised == TrackSpec
=============================================================================
