-------------------------- MODULE PerceptionProofs --------------------------
(***************************************************************************)
(* From detection to event: the tracker keeps the promise of TrackFeed,    *)
(* the session that of PersonFeed, and on top of it the event engine knows *)
(* everybody; for any times, thresholds and numbers of people.             *)
(***************************************************************************)
EXTENDS MCEventEngine, MCStreamSession, Tracker, FiniteSetTheorems, WellFoundedInduction,
        TLAPS

-----------------------------------------------------------------------------
(* Tracks: ids below the next one, seen no later than the last frame       *)

TracksStand(t) ==
    /\ t = [tracks |-> t.tracks, nextId |-> t.nextId, stamp |-> t.stamp]
    /\ t.nextId \in 1..MaxTrackId + 1
    /\ DOMAIN t.tracks \subseteq 1 .. t.nextId - 1
    /\ \A i \in DOMAIN t.tracks : t.tracks[i] \in Tracks
    /\ t.stamp \in Frames \cup {None}
    /\ t.stamp = None => DOMAIN t.tracks = {}
    /\ \A i \in DOMAIN t.tracks : t.tracks[i].seen <= t.stamp.ts

LEMMA FrameTimes ==
  ASSUME NEW frame \in Frames
  PROVE  frame.ts \in Nat /\ frame.ts \in 0..MaxTime /\ frame.fid \in Nat /\ frame # None
<1>1. MaxTime \in Nat /\ MaxFrameId \in Nat
  BY TrackAssumption
<1>2. frame.ts \in 0..MaxTime /\ frame.fid \in 0..MaxFrameId
  BY DEF Frames
<1>3. frame \in [ts : Nat, fid : Nat]
  BY <1>1 DEF Frames
<1> QED
  BY <1>1, <1>2, <1>3, TrackAssumption

LEMMA NoTracksStand == TracksStand(NoTracks) /\ NoTracks.stamp = None /\ DOMAIN NoTracks.tracks = {}
BY TrackAssumption DEF TracksStand, NoTracks

(* A frame that is not behind continues the tracks, another one starts     *)
(* them anew; what is continued is not ahead of the frame.                 *)
LEMMA CurrentStands ==
  ASSUME NEW old, TracksStand(old), NEW frame \in Frames
  PROVE  /\ TracksStand(Current(old, frame))
         /\ \A i \in DOMAIN Current(old, frame).tracks :
              Current(old, frame).tracks[i].seen <= frame.ts
         /\ ~ Regressed(Current(old, frame).stamp, frame)
<1>1. CASE Regressed(old.stamp, frame)
  BY <1>1, NoTracksStand DEF Current, Regressed
<1>2. CASE ~ Regressed(old.stamp, frame)
  <2>1. Current(old, frame) = old
    BY <1>2 DEF Current
  <2>2. ASSUME NEW i \in DOMAIN old.tracks PROVE old.tracks[i].seen <= frame.ts
    <3>1. old.stamp \in Frames /\ old.stamp # None
      BY <2>2 DEF TracksStand
    <3>2. old.stamp.ts \in Nat /\ frame.ts \in Nat /\ old.stamp.ts <= frame.ts
      BY <1>2, <3>1, FrameTimes DEF Regressed
    <3>3. old.tracks[i].seen \in Int
      BY <2>2 DEF TracksStand, Tracks
    <3>4. old.tracks[i].seen <= old.stamp.ts
      BY <2>2 DEF TracksStand
    <3> QED
      BY <3>2, <3>3, <3>4
  <2> QED
    BY <1>2, <2>1, <2>2
<1> QED
  BY <1>1, <1>2

LEMMA TracksAreSeen ==
  ASSUME NEW frame \in Frames
  PROVE  /\ Started(frame) \in Tracks /\ Started(frame).seen = frame.ts
         /\ \A track \in Tracks : /\ SeenAgain(track, frame) \in Tracks
                                  /\ SeenAgain(track, frame).seen = frame.ts
<1>1. frame.ts \in 0..MaxTime /\ MinHits \in Nat \ {0}
  BY FrameTimes, TrackAssumption
<1>2. Started(frame) \in Tracks /\ Started(frame).seen = frame.ts
  BY <1>1 DEF Started, Tracks
<1>3. ASSUME NEW track \in Tracks
      PROVE  SeenAgain(track, frame) \in Tracks /\ SeenAgain(track, frame).seen = frame.ts
  <2>1. track.hits \in 1..MinHits
    BY DEF Tracks
  <2>2. Capped(track.hits + 1) \in 1..MinHits
    BY <1>1, <2>1 DEF Capped
  <2> QED
    BY <1>1, <2>2 DEF SeenAgain, Tracks
<1> QED
  BY <1>2, <1>3

(* What a frame makes of the tracks.                                       *)
LEMMA NextTracksAre ==
  ASSUME NEW old, TracksStand(old), NEW frame \in Frames, NEW t \in NextTracks(old, frame)
  PROVE  /\ TracksStand(t) /\ t.stamp = frame
         /\ \A i \in DOMAIN t.tracks :
              \/ t.tracks[i].seen = frame.ts
              \/ /\ i \in DOMAIN Current(old, frame).tracks
                 /\ t.tracks[i] = Current(old, frame).tracks[i]
         /\ \A i \in DOMAIN t.tracks :
              \/ i \in DOMAIN Current(old, frame).tracks
              \/ /\ i >= Current(old, frame).nextId
                 /\ t.tracks[i] = Started(frame)
<1>1. PICK base : base = Current(old, frame)
  OBVIOUS
<1>2. PICK kept : kept = Unexpired(base.tracks, frame)
  OBVIOUS
<1>3. PICK seen \in SUBSET kept, n \in 0..MaxNew :
         t = Observed(base, frame, kept, seen, n) /\ base.nextId + n <= MaxTrackId + 1
  BY <1>1, <1>2 DEF NextTracks
<1>4. PICK new : new = base.nextId .. base.nextId + n - 1
  OBVIOUS
<1>b. /\ TracksStand(base)
      /\ \A i \in DOMAIN base.tracks : base.tracks[i].seen <= frame.ts
      /\ n \in Nat
  BY <1>1, CurrentStands, TrackAssumption
<1>5. /\ t.stamp = frame /\ t.nextId = base.nextId + n
      /\ t.tracks = [i \in kept \cup new |->
                       IF i >= base.nextId THEN Started(frame)
                       ELSE IF i \in seen THEN SeenAgain(base.tracks[i], frame)
                       ELSE base.tracks[i]]
  BY <1>3, <1>4 DEF Observed
<1>6. kept \subseteq DOMAIN base.tracks /\ base.nextId \in Nat \ {0}
      /\ DOMAIN base.tracks \subseteq 1 .. base.nextId - 1
  BY <1>2, <1>b, TrackAssumption DEF Unexpired, TracksStand
<1>7. /\ \A i \in kept : i < base.nextId /\ ~ (i >= base.nextId)
      /\ \A i \in new : i >= base.nextId
  BY <1>4, <1>6, <1>b
<1>8. /\ DOMAIN t.tracks = kept \cup new
      /\ \A i \in new : t.tracks[i] = Started(frame)
      /\ \A i \in kept : t.tracks[i] = IF i \in seen THEN SeenAgain(base.tracks[i], frame)
                                                     ELSE base.tracks[i]
  BY <1>5, <1>7
<1>9. \A i \in kept : base.tracks[i] \in Tracks /\ base.tracks[i].seen <= frame.ts
  BY <1>6, <1>b DEF TracksStand
<1>10. \A i \in DOMAIN t.tracks : t.tracks[i] \in Tracks /\ t.tracks[i].seen <= frame.ts
  <2>1. frame.ts <= frame.ts
    BY FrameTimes
  <2> QED
    BY <1>8, <1>9, <2>1, TracksAreSeen
<1>11. t.nextId \in 1..MaxTrackId + 1 /\ DOMAIN t.tracks \subseteq 1 .. t.nextId - 1
  BY <1>3, <1>4, <1>5, <1>6, <1>8, <1>b, TrackAssumption
<1>12. TracksStand(t)
  <2>1. t = [tracks |-> t.tracks, nextId |-> t.nextId, stamp |-> t.stamp]
    BY <1>3 DEF Observed
  <2> QED
    BY <2>1, <1>5, <1>10, <1>11, FrameTimes DEF TracksStand
<1>13. \A i \in DOMAIN t.tracks :
         \/ t.tracks[i].seen = frame.ts
         \/ i \in DOMAIN base.tracks /\ t.tracks[i] = base.tracks[i]
  BY <1>6, <1>8, <1>9, TracksAreSeen
<1>14. \A i \in DOMAIN t.tracks :
         i \in DOMAIN base.tracks \/ (i >= base.nextId /\ t.tracks[i] = Started(frame))
  <2>1. ASSUME NEW i \in kept PROVE i \in DOMAIN base.tracks
    BY <1>6
  <2>2. ASSUME NEW i \in new PROVE i >= base.nextId /\ t.tracks[i] = Started(frame)
    BY <1>7, <1>8
  <2> QED
    BY <1>8, <2>1, <2>2
<1> QED
  BY <1>1, <1>5, <1>12, <1>13, <1>14

-----------------------------------------------------------------------------
(* Matching: each pair taken in the order of its key unless an earlier one *)
(* took its track or its detection                                         *)

Keyed(pairs, iou) ==
    IsFiniteSet(pairs) /\ pairs \subseteq Int \X Int /\ \A p \in pairs : iou[p] \in Int

(* A pair is a match unless a better one took its track or its detection.  *)
Greedy(m, pairs, iou) ==
    /\ m \subseteq pairs
    /\ \A p \in pairs : p \in m <=> ~ \E q \in m : Conflict(p, q) /\ Closer(iou, q, p)

FirstIn(p, S, R) == p \in S /\ \A q \in S \ {p} : <<p, q>> \in R

Orders(R, S) ==
    /\ \A p \in S : <<p, p>> \notin R
    /\ \A p \in S : \A q \in S : p # q => <<p, q>> \in R \/ <<q, p>> \in R
    /\ \A p, q, r \in S : <<p, q>> \in R /\ <<q, r>> \in R => <<p, r>> \in R

LEMMA SomeIsFirst ==
  ASSUME NEW S, IsFiniteSet(S), S # {}, NEW R, Orders(R, S)
  PROVE  \E p \in S : FirstIn(p, S, R)
<1> DEFINE Ahead(p) == {q \in S : <<q, p>> \in R}
           T == {Ahead(p) : p \in S}
<1>1. T \subseteq FiniteSubsetsOf(S) /\ T # {}
  <2>1. \A p \in S : Ahead(p) \subseteq S /\ IsFiniteSet(Ahead(p))
    BY FS_Subset
  <2> HIDE DEF Ahead
  <2> QED
    BY <2>1 DEF FiniteSubsetsOf
<1>2. PICK x \in T : \A y \in T : ~ (<<y, x>> \in StrictSubsetOrdering(S))
  <2>1. IsWellFoundedOn(StrictSubsetOrdering(S), FiniteSubsetsOf(S))
    BY FS_StrictSubsetOrderingWellFounded
  <2> HIDE DEF T
  <2> QED
    BY <1>1, <2>1, WFMin
<1>3. PICK p \in S : x = Ahead(p)
  BY <1>2
<1>4. ASSUME NEW q \in S \ {p} PROVE <<p, q>> \in R
  <2> SUFFICES ASSUME <<q, p>> \in R PROVE FALSE
    BY DEF Orders
  <2>1. Ahead(q) \subseteq Ahead(p) /\ q \in Ahead(p) /\ q \notin Ahead(q)
    BY DEF Orders
  <2>2. Ahead(p) \subseteq S /\ Ahead(q) \in T
    OBVIOUS
  <2>3. <<Ahead(q), Ahead(p)>> \in StrictSubsetOrdering(S)
    <3> HIDE DEF Ahead
    <3> QED
      BY <2>1, <2>2 DEF StrictSubsetOrdering
  <2> QED
    BY <1>2, <1>3, <2>2, <2>3
<1> QED
  BY <1>4 DEF FirstIn

CloserIn(S, iou) == {d \in S \X S : Closer(iou, d[1], d[2])}
FartherIn(S, iou) == {d \in S \X S : Closer(iou, d[2], d[1])}

(* The key is total: no two pairs share it.                                *)
LEMMA KeysOrder ==
  ASSUME NEW S, NEW iou, Keyed(S, iou)
  PROVE  /\ \A p \in S : ~ Closer(iou, p, p)
         /\ \A p, q \in S : p # q => Closer(iou, p, q) \/ Closer(iou, q, p)
         /\ \A p, q, r \in S : Closer(iou, p, q) /\ Closer(iou, q, r) => Closer(iou, p, r)
         /\ Orders(CloserIn(S, iou), S) /\ Orders(FartherIn(S, iou), S)
<1>1. \A p \in S : p[1] \in Int /\ p[2] \in Int /\ iou[p] \in Int
  BY DEF Keyed
<1>2. \A p, q \in S : p[1] = q[1] /\ p[2] = q[2] => p = q
  BY DEF Keyed
<1>3. \A p \in S : ~ Closer(iou, p, p)
  BY <1>1 DEF Closer
<1>4. \A p, q \in S : p # q => Closer(iou, p, q) \/ Closer(iou, q, p)
  BY <1>1, <1>2 DEF Closer
<1>5. \A p, q, r \in S : Closer(iou, p, q) /\ Closer(iou, q, r) => Closer(iou, p, r)
  BY <1>1 DEF Closer
<1>6. /\ \A p, q \in S : <<p, q>> \in CloserIn(S, iou) <=> Closer(iou, p, q)
      /\ \A p, q \in S : <<p, q>> \in FartherIn(S, iou) <=> Closer(iou, q, p)
  BY DEF CloserIn, FartherIn
<1>7. Orders(CloserIn(S, iou), S)
  BY <1>3, <1>4, <1>5, <1>6 DEF Orders
<1>8. Orders(FartherIn(S, iou), S)
  BY <1>3, <1>4, <1>5, <1>6 DEF Orders
<1> QED
  BY <1>3, <1>4, <1>5, <1>7, <1>8

LEMMA LastIsLast ==
  ASSUME NEW S, NEW iou, Keyed(S, iou), S # {}
  PROVE  /\ LastTried(iou, S) \in S
         /\ \A q \in S \ {LastTried(iou, S)} : Closer(iou, q, LastTried(iou, S))
<1>1. PICK p \in S : FirstIn(p, S, FartherIn(S, iou))
  BY KeysOrder, SomeIsFirst DEF Keyed
<1>2. \A q \in S \ {p} : Closer(iou, q, p)
  BY <1>1 DEF FirstIn, FartherIn
<1> QED
  BY <1>2 DEF LastTried

LEMMA PartsAreKeyed ==
  ASSUME NEW S, NEW iou, Keyed(S, iou), NEW P, P \subseteq S
  PROVE  Keyed(P, iou)
BY FS_Subset DEF Keyed

(* One pair more                                                           *)
OneMore(m, x) == IF \E q \in m : Conflict(x, q) THEN m ELSE m \cup {x}

LEMMA GreedyStep ==
  ASSUME NEW S, NEW iou, Keyed(S, iou), S # {}, NEW m,
         Greedy(m, S \ {LastTried(iou, S)}, iou)
  PROVE  Greedy(OneMore(m, LastTried(iou, S)), S, iou)
<1> DEFINE x == LastTried(iou, S)
           more == OneMore(m, x)
<1>1. x \in S /\ \A q \in S \ {x} : Closer(iou, q, x)
  BY LastIsLast
<1> HIDE DEF x
<1>2. Greedy(m, S \ {x}, iou)
  BY DEF x
<1>3. m \subseteq S \ {x}
  BY <1>2 DEF Greedy
<1>4. more \subseteq S
  BY <1>1, <1>3 DEF OneMore
<1>5. ~ Closer(iou, x, x) /\ \A q \in S \ {x} : ~ Closer(iou, x, q)
  BY <1>1, KeysOrder
<1>6. ASSUME NEW p \in S \ {x}
      PROVE  p \in more <=> ~ \E q \in more : Conflict(p, q) /\ Closer(iou, q, p)
  <2>1. p \in more <=> p \in m
    BY DEF OneMore
  <2>2. (\E q \in more : Conflict(p, q) /\ Closer(iou, q, p))
           <=> (\E q \in m : Conflict(p, q) /\ Closer(iou, q, p))
    BY <1>5 DEF OneMore
  <2>3. p \in m <=> ~ \E q \in m : Conflict(p, q) /\ Closer(iou, q, p)
    BY <1>2 DEF Greedy
  <2> QED
    BY <2>1, <2>2, <2>3
<1>7. x \in more <=> ~ \E q \in more : Conflict(x, q) /\ Closer(iou, q, x)
  <2>1. \A q \in m : Closer(iou, q, x)
    BY <1>1, <1>3
  <2>2. x \in more <=> ~ \E q \in m : Conflict(x, q)
    BY <1>3 DEF OneMore
  <2>3. (\E q \in more : Conflict(x, q) /\ Closer(iou, q, x)) <=> \E q \in m : Conflict(x, q)
    BY <1>5, <2>1 DEF OneMore
  <2> QED
    BY <2>2, <2>3
<1> QED
  BY <1>4, <1>6, <1>7, <1>1 DEF Greedy, x

LEMMA GreedyIsUnique ==
  ASSUME NEW S, NEW iou, Keyed(S, iou), NEW m, Greedy(m, S, iou), NEW w, Greedy(w, S, iou)
  PROVE  m = w
<1> DEFINE D == {p \in S : (p \in m) # (p \in w)}
<1>1. m \subseteq S /\ w \subseteq S
  BY DEF Greedy
<1>2. SUFFICES ASSUME D # {} PROVE FALSE
  BY <1>1
<1>3. Keyed(D, iou)
  BY PartsAreKeyed
<1> HIDE DEF D
<1>4. PICK p \in D : FirstIn(p, D, CloserIn(D, iou))
  BY <1>2, <1>3, KeysOrder, SomeIsFirst DEF Keyed
<1>5. \A q \in D \ {p} : Closer(iou, p, q)
  BY <1>4 DEF FirstIn, CloserIn
<1>6. p \in S /\ (p \in m) # (p \in w)
  BY DEF D
<1>7. \A q \in S : Closer(iou, q, p) => q \notin D
  <2>1. \A q \in S : Closer(iou, q, p) => ~ Closer(iou, p, q) /\ q # p
    BY KeysOrder, <1>6
  <2> QED
    BY <2>1, <1>5
<1>8. \A q \in S : Closer(iou, q, p) => (q \in m <=> q \in w)
  BY <1>7 DEF D
<1>9. (\E q \in m : Conflict(p, q) /\ Closer(iou, q, p))
        <=> (\E q \in w : Conflict(p, q) /\ Closer(iou, q, p))
  BY <1>1, <1>8
<1> QED
  BY <1>6, <1>9 DEF Greedy

(* What comes of trying one pair after the other.                          *)
Rule(iou, it, s) ==
    IF s = {} THEN {} ELSE OneMore(it[s \ {LastTried(iou, s)}], LastTried(iou, s))

Exhausts(it, pairs, iou) == it = [s \in SUBSET pairs |-> Rule(iou, it, s)]

LEMMA SmallestSet ==
  ASSUME NEW P, IsFiniteSet(P), NEW B, B \subseteq SUBSET P, B # {}
  PROVE  \E s \in B : \A r \in B : ~ (r \subseteq s /\ r # s)
<1>1. B \subseteq FiniteSubsetsOf(P)
  BY FS_Subset DEF FiniteSubsetsOf
<1>2. IsWellFoundedOn(StrictSubsetOrdering(P), FiniteSubsetsOf(P))
  BY FS_StrictSubsetOrderingWellFounded
<1>3. PICK s \in B : \A r \in B : ~ (<<r, s>> \in StrictSubsetOrdering(P))
  BY <1>1, <1>2, WFMin
<1> QED
  BY <1>3 DEF StrictSubsetOrdering

LEMMA GreedyOfNothing ==
  ASSUME NEW iou
  PROVE  Greedy({}, {}, iou)
BY DEF Greedy

LEMMA GreedyExists ==
  ASSUME NEW P, NEW iou, Keyed(P, iou), NEW s, s \subseteq P
  PROVE  \E m : Greedy(m, s, iou)
<1> DEFINE B == {r \in SUBSET P : ~ \E m : Greedy(m, r, iou)}
<1>1. SUFFICES ASSUME B # {} PROVE FALSE
  OBVIOUS
<1>2. B \subseteq SUBSET P
  OBVIOUS
<1> HIDE DEF B
<1>3. PICK r \in B : \A u \in B : ~ (u \subseteq r /\ u # r)
  BY <1>1, <1>2, SmallestSet DEF Keyed
<1>4. r # {} /\ r \subseteq P /\ Keyed(r, iou)
  BY GreedyOfNothing, PartsAreKeyed DEF B
<1>5. PICK m : Greedy(m, r \ {LastTried(iou, r)}, iou)
  BY <1>3, <1>4, LastIsLast DEF B
<1>6. Greedy(OneMore(m, LastTried(iou, r)), r, iou)
  BY <1>4, <1>5, GreedyStep
<1> QED
  BY <1>6 DEF B

LEMMA ExhaustsIsGreedy ==
  ASSUME NEW P, NEW iou, Keyed(P, iou), NEW it, Exhausts(it, P, iou)
  PROVE  Greedy(it[P], P, iou)
<1> DEFINE B == {r \in SUBSET P : ~ Greedy(it[r], r, iou)}
<1>1. SUFFICES ASSUME B # {} PROVE FALSE
  OBVIOUS
<1>2. B \subseteq SUBSET P
  OBVIOUS
<1>3. \A r \in SUBSET P : it[r] = Rule(iou, it, r)
  BY DEF Exhausts
<1> HIDE DEF B
<1>4. PICK r \in B : \A u \in B : ~ (u \subseteq r /\ u # r)
  BY <1>1, <1>2, SmallestSet DEF Keyed
<1>5. r \subseteq P /\ Keyed(r, iou) /\ ~ Greedy(it[r], r, iou)
  BY PartsAreKeyed DEF B
<1>6. r # {}
  BY <1>3, <1>5, GreedyOfNothing DEF Rule
<1>7. it[r] = OneMore(it[r \ {LastTried(iou, r)}], LastTried(iou, r))
  BY <1>3, <1>5, <1>6 DEF Rule
<1>8. Greedy(it[r \ {LastTried(iou, r)}], r \ {LastTried(iou, r)}, iou)
  BY <1>4, <1>5, <1>6, LastIsLast DEF B
<1> QED
  BY <1>5, <1>6, <1>7, <1>8, GreedyStep

LEMMA ExhaustionExists ==
  ASSUME NEW P, NEW iou, Keyed(P, iou)
  PROVE  \E it : Exhausts(it, P, iou)
<1> DEFINE it == [s \in SUBSET P |-> CHOOSE m : Greedy(m, s, iou)]
<1>1. \A s \in SUBSET P : Greedy(it[s], s, iou)
  BY GreedyExists
<1>2. it = [s \in SUBSET P |-> it[s]]
  OBVIOUS
<1> HIDE DEF it
<1>3. ASSUME NEW s \in SUBSET P PROVE it[s] = Rule(iou, it, s)
  <2>1. CASE s = {}
    BY <2>1, <1>1 DEF Rule, Greedy
  <2>2. CASE s # {}
    <3>1. Keyed(s, iou)
      BY PartsAreKeyed
    <3>2. Greedy(OneMore(it[s \ {LastTried(iou, s)}], LastTried(iou, s)), s, iou)
      BY <1>1, <2>2, <3>1, GreedyStep
    <3>3. Greedy(it[s], s, iou)
      BY <1>1
    <3> QED
      BY <2>2, <3>1, <3>2, <3>3, GreedyIsUnique DEF Rule
  <2> QED
    BY <2>1, <2>2
<1> QED
  BY <1>2, <1>3 DEF Exhausts

LEMMA MatchingIsGreedy ==
  ASSUME NEW P, NEW iou, Keyed(P, iou)
  PROVE  Greedy(MatchCandidates(P, iou), P, iou)
<1>1. MatchCandidates(P, iou) = (CHOOSE it : Exhausts(it, P, iou))[P]
  BY DEF MatchCandidates, MapThenFoldSet, Exhausts, Rule, OneMore
<1>2. Exhausts(CHOOSE it : Exhausts(it, P, iou), P, iou)
  BY ExhaustionExists
<1> QED
  BY <1>1, <1>2, ExhaustsIsGreedy

-----------------------------------------------------------------------------
(* Both passes of update: the confident detections go first                *)

LEMMA BothPassesMatch ==
  ASSUME NEW ids, IsFiniteSet(ids), ids \subseteq Int, NEW n \in Nat,
         NEW conf \in [1..n -> Confidences], NEW iou \in [ids \X (1..n) -> Overlaps]
  PROVE  Match(ids, conf, iou) = BestOff(Match(ids, conf, iou), conf, iou)
<1> DEFINE H == High(conf)
           P == Matchable(ids, H, iou)
           hi == MatchCandidates(P, iou)
           L == Matchable(ids \ Matched(hi), DOMAIN conf \ H, iou)
           lo == MatchCandidates(L, iou)
<1>1. Match(ids, conf, iou) = hi \cup lo
  BY DEF Match
<1>2. Keyed(ids \X (1..n), iou)
  <2>1. IsFiniteSet(1..n)
    BY FS_Interval
  <2>2. IsFiniteSet(ids \X (1..n))
    BY <2>1, FS_Product
  <2>3. \A p \in ids \X (1..n) : iou[p] \in Int
    <3>1. ASSUME NEW p \in ids \X (1..n) PROVE iou[p] \in Overlaps
      OBVIOUS
    <3>2. Overlaps \subseteq Int
      BY TrackerAssumption
    <3> QED
      BY <3>1, <3>2
  <2>4. ids \X (1..n) \subseteq Int \X Int
    <3>1. 1..n \subseteq Int
      OBVIOUS
    <3> QED
      BY <3>1
  <2> QED
    BY <2>2, <2>3, <2>4 DEF Keyed
<1>3. H \subseteq 1..n /\ DOMAIN conf = 1..n
  BY DEF High
<1>4. /\ P = {p \in ids \X (1..n) : p[2] \in H /\ iou[p] >= MatchIou}
      /\ L = {p \in ids \X (1..n) : p[1] \notin Matched(hi) /\ p[2] \notin H
                                    /\ iou[p] >= MatchIou}
  BY <1>3 DEF Matchable
<1> HIDE DEF H, P, L
<1>5. Greedy(hi, P, iou) /\ Greedy(lo, L, iou)
  BY <1>2, <1>4, PartsAreKeyed, MatchingIsGreedy
<1> HIDE DEF hi, lo
<1>6. hi \subseteq P /\ lo \subseteq L
  BY <1>5 DEF Greedy
<1>7. ASSUME NEW p \in ids \X (1..n)
      PROVE  p \in hi \cup lo <=> /\ iou[p] >= MatchIou
                                  /\ ~ \E q \in hi \cup lo :
                                         Conflict(p, q) /\ Prior(conf, iou, q, p)
  <2>1. CASE p[2] \in H
    <3>1. p \in hi \cup lo <=> p \in hi
      BY <1>4, <1>6, <2>1
    <3>2. (\E q \in hi \cup lo : Conflict(p, q) /\ Prior(conf, iou, q, p))
            <=> (\E q \in hi : Conflict(p, q) /\ Closer(iou, q, p))
      BY <1>4, <1>6, <2>1 DEF Prior, H
    <3>3. p \in P <=> iou[p] >= MatchIou
      BY <1>4, <2>1
    <3> QED
      BY <1>5, <1>6, <3>1, <3>2, <3>3 DEF Greedy
  <2>2. CASE p[2] \notin H
    <3>1. p \in hi \cup lo <=> p \in lo
      BY <1>4, <1>6, <2>2
    <3>2. (\E q \in hi \cup lo : Conflict(p, q) /\ Prior(conf, iou, q, p))
            <=> \/ p[1] \in Matched(hi)
                \/ \E q \in lo : Conflict(p, q) /\ Closer(iou, q, p)
      <4>1. \A q \in hi : q[2] \in H
        BY <1>4, <1>6
      <4>2. \A q \in lo : q[2] \notin H
        BY <1>4, <1>6
      <4>3. (\E q \in hi : Conflict(p, q) /\ Prior(conf, iou, q, p))
              <=> p[1] \in Matched(hi)
        BY <4>1, <2>2 DEF Conflict, Prior, H, Matched
      <4>4. \A q \in lo : Prior(conf, iou, q, p) <=> Closer(iou, q, p)
        BY <4>2, <2>2 DEF Prior, H
      <4> QED
        BY <4>3, <4>4
    <3>3. p \in L <=> p[1] \notin Matched(hi) /\ iou[p] >= MatchIou
      BY <1>4, <2>2
    <3> QED
      BY <1>5, <1>6, <3>1, <3>2, <3>3 DEF Greedy
  <2> QED
    BY <2>1, <2>2
<1>8. hi \cup lo \subseteq ids \X (1..n)
  BY <1>4, <1>6
<1>9. DOMAIN iou = ids \X (1..n)
  OBVIOUS
<1> QED
  BY <1>1, <1>7, <1>8, <1>9 DEF BestOff

-----------------------------------------------------------------------------
(* The tracker keeps the promise of TrackFeed                              *)

Undertaken ==
    job # None => /\ job.frame \in Frames
                  /\ \E n \in 0..MaxCandidates :
                       /\ job.conf \in [1..n -> Confidences]
                       /\ job.iou \in [Matching(Current(trk, job.frame).tracks, job.frame)
                                         \X (1..n) -> Overlaps]

(* An update is one of the steps TrackFeed allows: the tracks that were    *)
(* matched are among those still there, and it starts no more tracks than  *)
(* there are detections.                                                   *)
LEMMA UpdateIsNext ==
  ASSUME TracksStand(trk), Undertaken, UpdateTracks
  PROVE  TrackNext
<1>1. PICK frame \in Frames : frame = job.frame
  BY DEF Undertaken, UpdateTracks
<1>2. PICK n \in 0..MaxCandidates : DOMAIN job.conf = 1..n
  <2>1. PICK n \in 0..MaxCandidates : job.conf \in [1..n -> Confidences]
    BY DEF Undertaken, UpdateTracks
  <2> QED
    BY <2>1
<1>3. PICK base : base = Current(trk, frame)
  OBVIOUS
<1>4. PICK kept : kept = Unexpired(base.tracks, frame)
  OBVIOUS
<1>5. PICK found : found = Match(kept, job.conf, job.iou)
  OBVIOUS
<1>6. PICK starts : starts = Starts(job.conf, found)
  OBVIOUS
<1>7. PICK updated : updated = [i \in kept |-> IF i \in Matched(found)
                                             THEN SeenAgain(base.tracks[i], frame)
                                             ELSE base.tracks[i]]
  OBVIOUS
<1>8. /\ base.nextId + Cardinality(starts) <= MaxTrackId + 1
      /\ trk' = Observed([base EXCEPT !.tracks = updated], frame,
                         Unexpired(updated, frame), {}, Cardinality(starts))
  BY <1>1, <1>3, <1>4, <1>5, <1>6, <1>7 DEF UpdateTracks, Matching
<1>9. Cardinality(starts) \in 0..MaxNew
  <2>1. IsFiniteSet(1..n) /\ Cardinality(1..n) = n
    BY <1>2, FS_Interval, TrackerAssumption
  <2>2. starts \subseteq 1..n
    BY <1>2, <1>6 DEF Starts
  <2>3. IsFiniteSet(starts) /\ Cardinality(starts) <= n
    BY <2>1, <2>2, FS_Subset
  <2>4. Cardinality(starts) \in Nat
    BY <2>3, FS_CardinalityType
  <2> QED
    BY <2>3, <2>4, TrackAssumption, TrackerAssumption
<1>10. PICK fresh \in 0..MaxNew : fresh = Cardinality(starts)
  BY <1>9
<1>11. PICK seen : seen = Matched(found) \cap kept
  OBVIOUS
<1>12. /\ TracksStand(base) /\ base.nextId \in Nat \ {0}
       /\ DOMAIN base.tracks \subseteq 1 .. base.nextId - 1
       /\ \A i \in DOMAIN base.tracks : base.tracks[i] \in Tracks
  BY <1>3, CurrentStands, TrackAssumption DEF TracksStand
<1>13. kept \subseteq DOMAIN base.tracks
  BY <1>4 DEF Unexpired
<1>14. Unexpired(updated, frame) = kept
  <2>1. ASSUME NEW i \in kept PROVE Lost(updated[i], frame) <= LostTtl
    <3>1. Lost(base.tracks[i], frame) <= LostTtl
      BY <1>4 DEF Unexpired
    <3>2. Lost(SeenAgain(base.tracks[i], frame), frame) = 0
      BY <1>12, <1>13, FrameTimes, TracksAreSeen DEF Lost
    <3> QED
      BY <1>7, <3>1, <3>2, TrackAssumption
  <2> QED
    BY <1>7, <2>1 DEF Unexpired
<1>15. trk' = Observed(base, frame, kept, seen, fresh)
  <2> DEFINE start == base.nextId
             all == kept \cup (start .. start + fresh - 1)
  <2>1. PICK given : given = [base EXCEPT !.tracks = updated]
    OBVIOUS
  <2>2. given.nextId = start /\ given.tracks = updated
    <3>1. base = [tracks |-> base.tracks, nextId |-> base.nextId, stamp |-> base.stamp]
      BY <1>12 DEF TracksStand
    <3> QED
      BY <2>1, <3>1
  <2>3. trk' = [tracks |-> [i \in all |-> IF i >= start THEN Started(frame)
                                         ELSE updated[i]],
                nextId |-> start + fresh, stamp |-> frame]
    BY <1>8, <1>10, <1>14, <2>1, <2>2 DEF Observed
  <2>4. ASSUME NEW i \in all
        PROVE  (IF i >= start THEN Started(frame) ELSE updated[i])
                 = IF i >= start THEN Started(frame)
                   ELSE IF i \in seen THEN SeenAgain(base.tracks[i], frame)
                   ELSE base.tracks[i]
    <3>1. CASE i \in kept
      BY <3>1, <1>7, <1>11
    <3>2. CASE i \in start .. start + fresh - 1
      BY <3>2, <1>12
    <3> QED
      BY <3>1, <3>2
  <2> HIDE DEF all
  <2>5. [i \in all |-> IF i >= start THEN Started(frame) ELSE updated[i]]
          = [i \in all |-> IF i >= start THEN Started(frame)
                          ELSE IF i \in seen THEN SeenAgain(base.tracks[i], frame)
                          ELSE base.tracks[i]]
    BY <2>4
  <2> QED
    BY <2>3, <2>5 DEF Observed, all
<1>16. trk' \in NextTracks(trk, frame)
  BY <1>3, <1>4, <1>8, <1>10, <1>11, <1>15 DEF NextTracks
<1> QED
  BY <1>16 DEF TrackNext

LEMMA NothingUndertaken == TrackerInit => TrackInit /\ TracksStand(trk) /\ Undertaken
BY NoTracksStand DEF TrackerInit, TrackInit, NoTracks, Undertaken

LEMMA TrackerStep ==
  TracksStand(trk) /\ Undertaken /\ [TrackerNext]_trackerVars
    => [TrackNext]_trk /\ TracksStand(trk)' /\ Undertaken'
<1> SUFFICES ASSUME TracksStand(trk), Undertaken, [TrackerNext]_trackerVars
             PROVE  [TrackNext]_trk /\ TracksStand(trk)' /\ Undertaken'
  OBVIOUS
<1>1. CASE Infer
  <2>1. trk' = trk
    BY <1>1 DEF Infer
  <2>2. Undertaken'
    <3>1. PICK frame \in Frames, n \in 0..MaxCandidates :
            \E conf \in [1..n -> Confidences],
               iou \in [Matching(Current(trk, frame).tracks, frame) \X (1..n) -> Overlaps] :
              job' = [frame |-> frame, conf |-> conf, iou |-> iou]
      BY <1>1 DEF Infer
    <3>2. /\ job'.frame = frame /\ job'.conf \in [1..n -> Confidences]
          /\ job'.iou \in [Matching(Current(trk, frame).tracks, frame) \X (1..n) -> Overlaps]
      BY <3>1
    <3> QED
      BY <2>1, <3>2 DEF Undertaken
  <2> QED
    BY <2>1, <2>2 DEF TracksStand
<1>2. CASE UpdateTracks
  <2>1. TrackNext
    BY <1>2, UpdateIsNext
  <2>2. PICK frame \in Frames : trk' \in NextTracks(trk, frame)
    BY <2>1 DEF TrackNext
  <2>3. TracksStand(trk')
    BY <2>2, NextTracksAre
  <2>4. Undertaken'
    BY <1>2 DEF UpdateTracks, Undertaken
  <2> QED
    BY <2>1, <2>3, <2>4 DEF TracksStand
<1>3. CASE UNCHANGED trackerVars
  BY <1>3 DEF trackerVars, TracksStand, Undertaken
<1> QED
  BY <1>1, <1>2, <1>3 DEF TrackerNext

(* No detection revives a track that was out of sight for longer than the  *)
(* TTL, and an id is never given to a second track of the same stream:     *)
(* byte_tracker.py implements TrackFeed, however it matches.               *)
THEOREM TracksAsTheTrackerPromises == TrackerSpec => TracksAsPromised
BY NothingUndertaken, TrackerStep, PTL DEF TrackerSpec, TracksAsPromised, TrackSpec

LEMMA UpdateMatches ==
  ASSUME TracksStand(trk), Undertaken, UpdateTracks
  PROVE  match' = BestOff(match', job.conf, job.iou)
<1>1. PICK ids : ids = Matching(Current(trk, job.frame).tracks, job.frame)
  OBVIOUS
<1>2. job.frame \in Frames
  BY DEF UpdateTracks, Undertaken
<1>3. PICK n \in 0..MaxCandidates :
        job.conf \in [1..n -> Confidences] /\ job.iou \in [ids \X (1..n) -> Overlaps]
  BY <1>1 DEF UpdateTracks, Undertaken
<1>4. IsFiniteSet(ids) /\ ids \subseteq Int
  <2>1. PICK base : base = Current(trk, job.frame)
    OBVIOUS
  <2>2. TracksStand(base)
    BY <1>2, <2>1, CurrentStands
  <2>3. base.nextId \in Nat /\ ids \subseteq 1 .. base.nextId - 1
    BY <1>1, <2>1, <2>2, TrackAssumption DEF TracksStand, Matching, Unexpired
  <2>4. IsFiniteSet(1 .. base.nextId - 1) /\ 1 .. base.nextId - 1 \subseteq Int
    BY <2>3, FS_Interval
  <2>5. IsFiniteSet(ids)
    BY <2>3, <2>4, FS_Subset
  <2> QED
    BY <2>3, <2>4, <2>5
<1>5. match' = Match(ids, job.conf, job.iou)
  BY <1>1 DEF UpdateTracks
<1>6. n \in Nat
  BY TrackerAssumption
<1>7. PICK conf \in [1..n -> Confidences] : conf = job.conf
  BY <1>3
<1>8. PICK iou \in [ids \X (1..n) -> Overlaps] : iou = job.iou
  BY <1>3
<1>9. Match(ids, conf, iou) = BestOff(Match(ids, conf, iou), conf, iou)
  BY <1>4, <1>6, BothPassesMatch
<1> QED
  BY <1>5, <1>7, <1>8, <1>9

(* A detection and a track that overlap belong together unless one of them *)
(* has a better match; a weak detection takes no track from a confident    *)
(* one: for any number of tracks and detections, _match_candidates is the  *)
(* stable matching its two passes and their sort are written for.          *)
THEOREM MatchesAreStable == TrackerSpec => NobodyIsBetterOff
<1>1. TracksStand(trk) /\ Undertaken /\ [TrackerNext]_trackerVars
        => [job # None => match' = BestOff(match', job.conf, job.iou)]_trackerVars
  <2> SUFFICES ASSUME TracksStand(trk), Undertaken, TrackerNext, job # None
               PROVE  match' = BestOff(match', job.conf, job.iou)
    OBVIOUS
  <2>1. UpdateTracks
    BY DEF TrackerNext, Infer
  <2> QED
    BY <2>1, UpdateMatches
<1> QED
  BY NothingUndertaken, TrackerStep, <1>1, PTL DEF TrackerSpec, NobodyIsBetterOff

-----------------------------------------------------------------------------
(* The session keeps the promise of PersonFeed                             *)

LEMMA FeedFeed ==
  /\ Feed!Frames = Frames /\ Feed!NoTracks = NoTracks
  /\ \A stamp, frame : Feed!Regressed(stamp, frame) = Regressed(stamp, frame)
  /\ \A prev, t : Feed!NextTargets(prev, t) = NextTargets(prev, t)
  /\ \A old, frame : Feed!NextTracks(old, frame) = NextTracks(old, frame)
<1>1. Feed!Frames = Frames /\ Feed!NoTracks = NoTracks
  BY DEF Feed!Frames, Frames, Feed!NoTracks, NoTracks
<1>2. \A stamp, frame : Feed!Regressed(stamp, frame) = Regressed(stamp, frame)
  BY DEF Feed!Regressed, Regressed
<1>3. \A prev, t : Feed!NextTargets(prev, t) = NextTargets(prev, t)
  BY DEF Feed!NextTargets, NextTargets, Feed!HeldLost, HeldLost, Feed!StablePeople,
         StablePeople, Feed!VisibleIds, VisibleIds, Feed!Lost, Lost
<1>4. \A old, frame : Feed!NextTracks(old, frame) = NextTracks(old, frame)
  BY DEF Feed!NextTracks, NextTracks, Feed!Current, Current, Feed!Regressed, Regressed,
         Feed!NoTracks, NoTracks, Feed!Unexpired, Unexpired, Feed!Lost, Lost, Feed!Observed,
         Observed, Feed!Started, Started, Feed!SeenAgain, SeenAgain, Feed!Capped, Capped
<1> QED
  BY <1>1, <1>2, <1>3, <1>4

(* The order of people is total, so that one of them comes first.          *)
LEMMA BestIsOneOfThem ==
  ASSUME NEW people, IsFiniteSet(people), people # {}, people \subseteq Int,
         NEW look, \A i \in people : look[i] \in [area : Areas, conf : Certainties]
  PROVE  Best(people, look) \in people
<1> DEFINE Behind(i) == {j \in people : Precedes(look, j, i)}
           T == {Behind(i) : i \in people}
<1>1. ASSUME NEW i \in people
      PROVE  look[i].area \in Int /\ Score(look[i]) \in Int /\ i \in Int
  <2>1. look[i].area \in Int /\ look[i].conf \in Int
    <3>1. look[i] \in [area : Areas, conf : Certainties]
      OBVIOUS
    <3>2. look[i].area \in Areas /\ look[i].conf \in Certainties
      BY <3>1
    <3>3. Areas \subseteq Int /\ Certainties \subseteq Int
      BY SelectorAssumption
    <3> QED
      BY <3>2, <3>3
  <2>2. \A a, b \in Int : a * b \in Int
    OBVIOUS
  <2> QED
    BY <2>1, <2>2 DEF Score
<1>2. \A i \in people : ~ Precedes(look, i, i)
  BY <1>1 DEF Precedes
<1>3. \A i, j \in people : i # j => Precedes(look, i, j) \/ Precedes(look, j, i)
  BY <1>1 DEF Precedes
<1>4. ASSUME NEW i \in people, NEW j \in people, NEW k \in people,
             Precedes(look, i, j), Precedes(look, j, k)
      PROVE  Precedes(look, i, k)
  BY <1>1, <1>4 DEF Precedes
<1>5. T \subseteq FiniteSubsetsOf(people) /\ T # {}
  <2>1. \A i \in people : Behind(i) \subseteq people /\ IsFiniteSet(Behind(i))
    BY FS_Subset
  <2> HIDE DEF Behind
  <2> QED
    BY <2>1 DEF FiniteSubsetsOf
<1>6. PICK x \in T : \A y \in T : ~ (<<y, x>> \in StrictSubsetOrdering(people))
  <2>1. IsWellFoundedOn(StrictSubsetOrdering(people), FiniteSubsetsOf(people))
    BY FS_StrictSubsetOrderingWellFounded
  <2> HIDE DEF T
  <2> QED
    BY <1>5, <2>1, WFMin
<1>7. PICK i \in people : x = Behind(i)
  BY <1>6
<1>8. ASSUME NEW j \in people \ {i} PROVE Precedes(look, i, j)
  <2> SUFFICES ASSUME Precedes(look, j, i) PROVE FALSE
    BY <1>3
  <2>1. Behind(j) \subseteq Behind(i) /\ j \in Behind(i) /\ j \notin Behind(j)
    BY <1>2, <1>4
  <2>2. Behind(i) \subseteq people /\ Behind(j) \in T
    OBVIOUS
  <2>3. <<Behind(j), Behind(i)>> \in StrictSubsetOrdering(people)
    <3> HIDE DEF Behind
    <3> QED
      BY <2>1, <2>2 DEF StrictSubsetOrdering
  <2> QED
    BY <1>6, <1>7, <2>2, <2>3
<1> QED
  BY <1>8 DEF Best

(* The selector as a frame finds it: a challenger has outgrown the target  *)
(* in every frame since before it became the challenger.                   *)
Found(s, frame) ==
    /\ s = [target |-> s.target, challenger |-> s.challenger, since |-> s.since,
            stamp |-> s.stamp]
    /\ ~ Regressed(s.stamp, frame)
    /\ s.challenger = None => s.since = None
    /\ s.challenger # None =>
         /\ s.since \in 0..MaxTime /\ s.since <= frame.ts
         /\ larger.of = s.target /\ s.challenger \in DOMAIN larger.since
         /\ larger.since[s.challenger] <= s.since
    /\ s.target # None => \A i \in DOMAIN larger.since :
                           larger.since[i] \in Nat /\ larger.since[i] <= frame.ts

(* The selector as a frame leaves it.                                      *)
SelectorStands(s, t, rivals) ==
    /\ s = [target |-> s.target, challenger |-> s.challenger, since |-> s.since,
            stamp |-> s.stamp]
    /\ s.stamp = t.stamp
    /\ s.target \in DOMAIN t.tracks \cup {None}
    /\ s.challenger = None => s.since = None
    /\ s.challenger # None =>
         /\ s.challenger \in 1..MaxTrackId
         /\ s.since \in 0..MaxTime /\ s.since <= t.stamp.ts
         /\ t.stamp.ts - s.since < SwitchConfirm
         /\ rivals.of = s.target /\ s.challenger \in DOMAIN rivals.since
         /\ rivals.since[s.challenger] <= s.since
    /\ \A i \in DOMAIN rivals.since :
         rivals.since[i] \in Nat /\ rivals.since[i] <= t.stamp.ts
    /\ t.stamp = None => DOMAIN rivals.since = {}

(* The rivals after a frame, given the target it finds.                    *)
RivalsOf(whom, t, look) ==
    IF whom \notin StablePeople(t) THEN NoRivals
    ELSE [of |-> whom,
          since |-> [i \in Challengers(StablePeople(t), whom, look) |->
                       IF larger.of = whom /\ i \in DOMAIN larger.since
                       THEN larger.since[i] ELSE t.stamp.ts]]

LEMMA PeopleAreFew ==
  ASSUME NEW t, TracksStand(t), t.stamp \in Frames
  PROVE  /\ StablePeople(t) \subseteq DOMAIN t.tracks
         /\ DOMAIN t.tracks \subseteq 1..MaxTrackId /\ IsFiniteSet(DOMAIN t.tracks)
         /\ \A i \in StablePeople(t) : i \in VisibleIds(t) /\ i \in Int /\ i # None
                                       /\ ~ HeldLost(i, t)
<1>1. DOMAIN t.tracks \subseteq 1..MaxTrackId
  BY TrackAssumption DEF TracksStand
<1>2. IsFiniteSet(DOMAIN t.tracks)
  <2>1. IsFiniteSet(1..MaxTrackId)
    BY FS_Interval, TrackAssumption
  <2> QED
    BY <1>1, <2>1, FS_Subset
<1>3. StablePeople(t) \subseteq VisibleIds(t) /\ VisibleIds(t) \subseteq DOMAIN t.tracks
  BY DEF StablePeople, VisibleIds
<1>4. ASSUME NEW i \in StablePeople(t) PROVE ~ HeldLost(i, t)
  BY <1>4, AttentionAssumption DEF StablePeople, VisibleIds, HeldLost
<1> QED
  BY <1>1, <1>2, <1>3, <1>4, TrackAssumption

LEMMA SelectedStands ==
  ASSUME NEW frame \in Frames, NEW s, Found(s, frame),
         NEW t, TracksStand(t), t.stamp = frame,
         NEW look \in Looks(t),
         NEW o, o = UpdateSelector(s, t, look),
         NEW rivals, rivals = RivalsOf(s.target, t, look)
  PROVE  /\ SelectorStands(o, t, rivals)
         /\ o.target \in NextTargets(s.target, t)
         /\ s.target \in StablePeople(t) /\ o.target # s.target
              => /\ o.target \in DOMAIN rivals.since
                 /\ frame.ts - rivals.since[o.target] >= SwitchConfirm
<1> DEFINE stable == StablePeople(t)
<1>1. /\ stable \subseteq DOMAIN t.tracks /\ IsFiniteSet(stable) /\ stable \subseteq Int
      /\ \A i \in stable : i # None /\ i \in 1..MaxTrackId /\ ~ HeldLost(i, t)
      /\ None \notin stable
  <2>1. /\ stable \subseteq DOMAIN t.tracks
        /\ DOMAIN t.tracks \subseteq 1..MaxTrackId /\ IsFiniteSet(DOMAIN t.tracks)
        /\ \A i \in stable : i \in Int /\ i # None /\ ~ HeldLost(i, t)
    BY PeopleAreFew
  <2> QED
    BY <2>1, FS_Subset
<1>2. frame.ts \in Nat /\ frame.ts \in 0..MaxTime /\ frame # None /\ SwitchConfirm \in Nat
  BY FrameTimes, SelectorAssumption
<1>3. ASSUME NEW people \in SUBSET stable, people # {}
      PROVE  Best(people, look) \in people
  <2>1. \A i \in people : look[i] \in [area : Areas, conf : Certainties]
    BY PeopleAreFew DEF Looks
  <2>2. IsFiniteSet(people) /\ people \subseteq Int
    BY <1>1, FS_Subset
  <2> QED
    BY <1>3, <2>1, <2>2, BestIsOneOfThem
<1>4. PICK x : x = Select(s, t, look)
  OBVIOUS
<1>5. o = [x EXCEPT !.stamp = frame]
  BY <1>4 DEF UpdateSelector, Found
<1>6. PICK calm : calm = WithoutChallenger(s)
  OBVIOUS
<1>7. calm = [target |-> s.target, challenger |-> None, since |-> None, stamp |-> s.stamp]
  BY <1>6 DEF Found, WithoutChallenger
<1>8. \A i \in DOMAIN rivals.since : rivals.since[i] \in Nat /\ rivals.since[i] <= frame.ts
  <2>1. CASE s.target \notin stable
    <3>1. DOMAIN rivals.since = {}
      BY <2>1 DEF RivalsOf, NoRivals
    <3> QED
      BY <3>1
  <2>2. CASE s.target \in stable
    <3>1. \A i \in DOMAIN larger.since :
             larger.since[i] \in Nat /\ larger.since[i] <= frame.ts
      BY <1>1, <2>2 DEF Found
    <3>2. ASSUME NEW i \in DOMAIN rivals.since
          PROVE  rivals.since[i] = frame.ts
                   \/ (i \in DOMAIN larger.since /\ rivals.since[i] = larger.since[i])
      BY <2>2 DEF RivalsOf
    <3> QED
      BY <1>2, <3>1, <3>2
  <2> QED
    BY <2>1, <2>2
<1>9. ASSUME NEW g \in DOMAIN t.tracks \cup {None},
             x.target = g, x.challenger = None, x.since = None,
             x = [target |-> x.target, challenger |-> x.challenger, since |-> x.since,
                  stamp |-> x.stamp]
      PROVE  o.target = g /\ SelectorStands(o, t, rivals)
  <2>1. o = [target |-> g, challenger |-> None, since |-> None, stamp |-> frame]
    BY <1>5, <1>9
  <2> QED
    BY <1>2, <1>8, <2>1 DEF SelectorStands
<1>10. CASE s.target \in stable
  <2> DEFINE challengers == Challengers(stable, s.target, look)
  <2>1. x = Contested(s, t, look)
    BY <1>4, <1>10 DEF Select
  <2>2. NextTargets(s.target, t) = stable
    BY <1>1, <1>10 DEF NextTargets
  <2>3. challengers \subseteq stable
    BY DEF Challengers
  <2>4. /\ rivals.of = s.target /\ DOMAIN rivals.since = challengers
        /\ \A i \in challengers :
             rivals.since[i] = IF larger.of = s.target /\ i \in DOMAIN larger.since
                               THEN larger.since[i] ELSE frame.ts
    BY <1>10 DEF RivalsOf
  <2>5. CASE challengers = {}
    <3>1. x = calm
      BY <1>6, <2>1, <2>5 DEF Contested
    <3> QED
      BY <1>1, <1>7, <1>9, <1>10, <2>2, <3>1
  <2>6. CASE challengers # {}
    <3>1. PICK rival \in challengers : rival = Best(challengers, look)
      BY <1>3, <2>3, <2>6
    <3>2. PICK since : since = Since(s, rival, frame.ts)
      OBVIOUS
    <3>3. rival \in stable /\ rival # None /\ rival \in 1..MaxTrackId
      BY <1>1, <2>3
    <3>4. /\ since \in 0..MaxTime /\ since <= frame.ts
          /\ rivals.since[rival] <= since
      <4>1. CASE rival = s.challenger
        <5>1. since = s.since
          BY <3>2, <4>1 DEF Since
        <5>2. /\ s.since \in 0..MaxTime /\ s.since <= frame.ts
              /\ larger.of = s.target /\ s.challenger \in DOMAIN larger.since
              /\ larger.since[s.challenger] <= s.since
          BY <3>3, <4>1 DEF Found
        <5> QED
          BY <2>4, <3>1, <4>1, <5>1, <5>2
      <4>2. CASE rival # s.challenger
        <5>1. since = frame.ts
          BY <3>2, <4>2 DEF Since
        <5> QED
          BY <1>2, <1>8, <2>4, <3>1, <5>1
      <4> QED
        BY <4>1, <4>2
    <3>5. rivals.since[rival] \in Nat
      BY <1>8, <2>4, <3>1
    <3>6. CASE Confirmed(frame.ts, since)
      <4>1. x = [calm EXCEPT !.target = rival]
        BY <1>6, <2>1, <2>6, <3>1, <3>2, <3>6 DEF Contested
      <4>2. x = [target |-> rival, challenger |-> None, since |-> None, stamp |-> s.stamp]
        BY <1>7, <4>1
      <4>3. o.target = rival /\ SelectorStands(o, t, rivals)
        BY <1>1, <1>9, <3>3, <4>2
      <4>4. frame.ts - since >= SwitchConfirm
        BY <3>6 DEF Confirmed
      <4>5. frame.ts - rivals.since[rival] >= SwitchConfirm
        BY <1>2, <3>4, <3>5, <4>4
      <4> QED
        BY <2>2, <2>4, <3>1, <3>3, <4>3, <4>5
    <3>7. CASE ~ Confirmed(frame.ts, since)
      <4>1. x = [s EXCEPT !.challenger = rival, !.since = since]
        BY <2>1, <2>6, <3>1, <3>2, <3>7 DEF Contested
      <4>2. o = [target |-> s.target, challenger |-> rival, since |-> since, stamp |-> frame]
        BY <1>5, <4>1 DEF Found
      <4>3. frame.ts - since < SwitchConfirm
        BY <1>2, <3>4, <3>7 DEF Confirmed
      <4>4. SelectorStands(o, t, rivals)
        BY <1>1, <1>2, <1>8, <1>10, <2>4, <3>1, <3>3, <3>4, <4>2, <4>3 DEF SelectorStands
      <4> QED
        BY <1>10, <2>2, <4>2, <4>4
    <3> QED
      BY <3>6, <3>7
  <2> QED
    BY <2>5, <2>6
<1>11. CASE s.target \notin stable /\ HeldLost(s.target, t)
  <2>1. x = calm
    BY <1>4, <1>6, <1>11 DEF Select, IsHeld
  <2>2. s.target \in DOMAIN t.tracks /\ NextTargets(s.target, t) = {s.target}
    BY <1>11 DEF HeldLost, NextTargets
  <2> QED
    BY <1>7, <1>9, <1>11, <2>1, <2>2
<1>12. CASE s.target \notin stable /\ ~ HeldLost(s.target, t)
  <2>1. PICK g : g = IF stable = {} THEN None ELSE Best(stable, look)
    OBVIOUS
  <2>2. x = [target |-> g, challenger |-> None, since |-> None, stamp |-> None]
    BY <1>4, <1>12, <2>1 DEF Select, IsHeld, NoSelection
  <2>3. g \in NextTargets(s.target, t) /\ g \in DOMAIN t.tracks \cup {None}
    BY <1>1, <1>3, <1>12, <2>1 DEF NextTargets
  <2> QED
    BY <1>9, <1>12, <2>2, <2>3
<1> QED
  BY <1>10, <1>11, <1>12

(* The session between two frames.                                         *)
SessionStands ==
    /\ TracksStand(trk)
    /\ lastFrame = trk.stamp
    /\ SelectorStands(sel, trk, larger)

LEMMA SessionStarts == RivalInit => SessionStands /\ TrackInit /\ sel.target = None
<1> SUFFICES ASSUME RivalInit PROVE SessionStands /\ TrackInit /\ sel.target = None
  OBVIOUS
<1>1. trk = NoTracks /\ sel = NoSelection /\ lastFrame = None
      /\ larger = NoRivals
  BY DEF RivalInit, SessionInit, TrackInit
<1>2. sel = [target |-> None, challenger |-> None, since |-> None, stamp |-> None]
      /\ DOMAIN larger.since = {}
  BY <1>1 DEF NoSelection, NoRivals
<1>3. SelectorStands(sel, trk, larger)
  BY <1>1, <1>2, NoTracksStand DEF SelectorStands
<1> QED
  BY <1>1, <1>2, <1>3, NoTracksStand DEF SessionStands, TrackInit

(* What a frame finds: a reset forgets the selection with the tracks.      *)
LEMMA FrameFinds ==
  ASSUME SessionStands, NEW frame \in Frames,
         NEW c, c = Continued(frame)
  PROVE  /\ Found(c.sel, frame)
         /\ NextTracks(c.trk, frame) = NextTracks(trk, frame)
         /\ Regressed(trk.stamp, frame)
              => c.trk = NoTracks /\ c.sel = NoSelection /\ c.lastFrame = None
         /\ ~ Regressed(trk.stamp, frame)
              => c.trk = trk /\ c.sel = sel /\ c.lastFrame = lastFrame
<1>1. CASE Regressed(trk.stamp, frame)
  <2>1. c.trk = NoTracks /\ c.sel = NoSelection /\ c.lastFrame = None
    BY <1>1 DEF SessionStands, Continued
  <2>2. Found(c.sel, frame)
    BY <2>1 DEF Found, NoSelection, Regressed
  <2>3. Current(NoTracks, frame) = NoTracks /\ Current(trk, frame) = NoTracks
    BY <1>1, NoTracksStand DEF Current, Regressed
  <2>4. NextTracks(NoTracks, frame) = NextTracks(trk, frame)
    BY <2>3 DEF NextTracks
  <2> QED
    BY <1>1, <2>1, <2>2, <2>4
<1>2. CASE ~ Regressed(trk.stamp, frame)
  <2>1. c.trk = trk /\ c.sel = sel /\ c.lastFrame = lastFrame
    BY <1>2 DEF SessionStands, Continued
  <2>2. SelectorStands(sel, trk, larger) /\ trk.stamp \in Frames \cup {None}
    BY DEF SessionStands, TracksStand
  <2>3. Found(sel, frame)
    <3>1. CASE trk.stamp = None
      <4>1. sel.target = None /\ DOMAIN larger.since = {}
        BY <2>2, <3>1 DEF SelectorStands, SessionStands, TracksStand
      <4> QED
        BY <1>2, <2>2, <3>1, <4>1 DEF Found, SelectorStands
    <3>2. CASE trk.stamp # None
      <4>1. trk.stamp.ts \in Nat /\ frame.ts \in Nat /\ trk.stamp.ts <= frame.ts
        BY <1>2, <2>2, <3>2, FrameTimes DEF Regressed
      <4>2. \A n \in Nat : n <= trk.stamp.ts => n <= frame.ts
        BY <4>1
      <4>3. 0..MaxTime \subseteq Nat
        OBVIOUS
      <4> QED
        BY <1>2, <2>2, <4>2, <4>3 DEF Found, SelectorStands
    <3> QED
      BY <3>1, <3>2
  <2> QED
    BY <1>2, <2>1, <2>3
<1> QED
  BY <1>1, <1>2

TargetSwitchedInTime ==
    /\ sel.target \in StablePeople(trk') /\ sel'.target # sel.target
    /\ ~ Regressed(lastFrame, trk'.stamp)
    => /\ sel'.target \in DOMAIN larger'.since
       /\ trk'.stamp.ts - larger'.since[sel'.target] >= SwitchConfirm

LEMMA AnswerIsPromised ==
  ASSUME SessionStands, ProcessFrame
  PROVE  /\ SessionStands'
         /\ \E frame \in Frames :
              /\ trk' \in NextTracks(trk, frame)
              /\ sel'.target \in NextTargets(IF Regressed(trk.stamp, frame) THEN None
                                            ELSE sel.target, trk')
         /\ TargetSwitchedInTime
<1>1. PICK frame \in Frames :
        \E next \in NextTracks(Continued(frame).trk, frame) :
          \E look \in Looks(next) :
            /\ trk' = next
            /\ Answer(frame, look)
            /\ larger' = Outgrown(frame, look)
  BY DEF ProcessFrame
<1>2. PICK c : c = Continued(frame)
  OBVIOUS
<1>3. PICK next \in NextTracks(c.trk, frame) : \E look \in Looks(next) :
            /\ trk' = next
            /\ Answer(frame, look)
            /\ larger' = Outgrown(frame, look)
  BY <1>1, <1>2
<1>4. PICK look \in Looks(next) :
            /\ trk' = next
            /\ Answer(frame, look)
            /\ larger' = Outgrown(frame, look)
  BY <1>3
<1>5. next \in NextTracks(trk, frame) /\ Found(c.sel, frame)
  BY <1>2, <1>3, FrameFinds
<1>6. TracksStand(next) /\ next.stamp = frame
  BY <1>5, NextTracksAre DEF SessionStands
<1>7. PICK o : o = UpdateSelector(c.sel, next, look)
  OBVIOUS
<1>8. sel' = o /\ lastFrame' = frame
  BY <1>2, <1>4, <1>7 DEF Answer
<1>9. PICK rivals : rivals = RivalsOf(c.sel.target, next, look)
  OBVIOUS
<1>10. larger' = rivals
  <2>1. CASE c.sel.target \notin StablePeople(next)
    BY <1>2, <1>4, <1>9, <2>1 DEF Outgrown, TargetBefore, RivalsOf
  <2>2. CASE c.sel.target \in StablePeople(next)
    <3> DEFINE old == IF larger.of = c.sel.target THEN larger.since ELSE <<>>
               challengers == Challengers(StablePeople(next), c.sel.target, look)
    <3>1. larger' = [of |-> c.sel.target,
                     since |-> [i \in challengers |-> IF i \in DOMAIN old THEN old[i]
                                                     ELSE frame.ts]]
      BY <1>2, <1>4, <2>2 DEF Outgrown, TargetBefore
    <3>2. \A i \in challengers : (IF i \in DOMAIN old THEN old[i] ELSE frame.ts)
             = IF larger.of = c.sel.target /\ i \in DOMAIN larger.since
               THEN larger.since[i] ELSE frame.ts
      OBVIOUS
    <3>3. rivals = [of |-> c.sel.target,
                    since |-> [i \in challengers |->
                       IF larger.of = c.sel.target /\ i \in DOMAIN larger.since
                       THEN larger.since[i] ELSE frame.ts]]
      BY <1>6, <1>9, <2>2 DEF RivalsOf
    <3> HIDE DEF old, challengers
    <3> QED
      BY <3>1, <3>2, <3>3
  <2> QED
    BY <2>1, <2>2
<1>11. /\ SelectorStands(o, next, rivals)
       /\ o.target \in NextTargets(c.sel.target, next)
       /\ c.sel.target \in StablePeople(next) /\ o.target # c.sel.target
            => /\ o.target \in DOMAIN rivals.since
               /\ frame.ts - rivals.since[o.target] >= SwitchConfirm
  BY <1>4, <1>5, <1>6, <1>7, <1>9, SelectedStands
<1>12. c.sel.target = IF Regressed(trk.stamp, frame) THEN None ELSE sel.target
  BY <1>2, FrameFinds DEF NoSelection
<1>13. SessionStands'
  BY <1>4, <1>6, <1>8, <1>10, <1>11 DEF SessionStands
<1>14. TargetSwitchedInTime
  BY <1>4, <1>6, <1>8, <1>10, <1>11, <1>12
    DEF TargetSwitchedInTime, SessionStands
<1> QED
  BY <1>4, <1>5, <1>8, <1>11, <1>12, <1>13, <1>14

LEMMA FailureIsPromised ==
  ASSUME SessionStands, FrameFails
  PROVE  /\ SessionStands'
         /\ \/ \E frame \in Frames : /\ Regressed(trk.stamp, frame)
                                     /\ trk' = NoTracks /\ sel'.target = None
            \/ UNCHANGED <<trk, sel>>
         /\ TargetSwitchedInTime
<1>1. PICK frame \in Frames :
         /\ InferenceFails(frame)
         /\ larger' = IF Regressed(lastFrame, frame) THEN NoRivals ELSE larger
  BY DEF FrameFails
<1>2. PICK c : c = Continued(frame)
  OBVIOUS
<1>3. trk' = c.trk /\ sel' = c.sel /\ lastFrame' = c.lastFrame
  BY <1>1, <1>2 DEF InferenceFails
<1>4. CASE Regressed(trk.stamp, frame)
  <2>1. trk' = NoTracks /\ sel' = NoSelection /\ lastFrame' = None
        /\ larger' = NoRivals
    BY <1>1, <1>2, <1>3, <1>4, FrameFinds DEF SessionStands
  <2>3. SessionStands'
    <3>1. sel' = [target |-> None, challenger |-> None, since |-> None, stamp |-> None]
          /\ DOMAIN larger'.since = {}
      BY <2>1 DEF NoSelection, NoRivals
    <3> QED
      BY <2>1, <3>1, NoTracksStand DEF SessionStands, SelectorStands
  <2>4. StablePeople(trk') = {} /\ sel'.target = None
    BY <2>1, NoTracksStand DEF StablePeople, VisibleIds, NoSelection
  <2> QED
    BY <1>4, <2>1, <2>3, <2>4 DEF TargetSwitchedInTime
<1>5. CASE ~ Regressed(trk.stamp, frame)
  <2>1. UNCHANGED <<trk, sel, lastFrame, larger>>
    BY <1>1, <1>2, <1>3, <1>5, FrameFinds DEF SessionStands
  <2> QED
    BY <2>1 DEF SessionStands, TargetSwitchedInTime
<1> QED
  BY <1>4, <1>5

LEMMA SessionStep ==
  ASSUME SessionStands, [RivalNext]_<<sessionVars, larger>>
  PROVE  /\ SessionStands'
         /\ [Feed!PersonNext]_<<trk, sel.target>>
         /\ [TargetSwitchedInTime]_<<sessionVars, larger>>
<1>1. CASE ProcessFrame
  <2>1. PICK frame \in Frames :
              /\ trk' \in NextTracks(trk, frame)
              /\ sel'.target \in NextTargets(IF Regressed(trk.stamp, frame) THEN None
                                            ELSE sel.target, trk')
    BY <1>1, AnswerIsPromised
  <2>2. <<trk', sel'.target>> \in Feed!Answers(frame)
    BY <2>1, FeedFeed DEF Feed!Answers, Feed!Before
  <2>3. PICK a : a = <<trk', sel'.target>>
    OBVIOUS
  <2>4. Feed!Observe(a[1], a[2])
    BY <2>3 DEF Feed!Observe
  <2>5. Feed!PersonNext
    BY <2>2, <2>3, <2>4, FeedFeed DEF Feed!PersonNext
  <2> QED
    BY <1>1, <2>5, AnswerIsPromised
<1>2. CASE FrameFails
  <2>1. CASE UNCHANGED <<trk, sel>>
    <3>1. UNCHANGED <<trk, sel.target>>
      BY <2>1
    <3> QED
      BY <1>2, <3>1, FailureIsPromised
  <2>2. ASSUME NEW frame \in Frames, Regressed(trk.stamp, frame),
               trk' = NoTracks, sel'.target = None
        PROVE  Feed!PersonNext
    BY <2>2, FeedFeed DEF Feed!PersonNext, Feed!StartOver
  <2> QED
    BY <1>2, <2>1, <2>2, FailureIsPromised
<1>3. CASE UNCHANGED <<sessionVars, larger>>
  BY <1>3 DEF sessionVars, SessionStands
<1> QED
  BY <1>1, <1>2, <1>3 DEF RivalNext

(* Whom the event engine is told of is whom Attention allows, through      *)
(* resets, failed inference and frames that go back: process_frame, with   *)
(* the selector and its challengers, implements PersonFeed.                *)
THEOREM SessionKeepsItsPromise == RivalSpec => AttentionAsPromised
<1>1. RivalInit => SessionStands /\ Feed!PersonInit
  BY SessionStarts, FeedFeed DEF Feed!PersonInit, Feed!TrackInit, TrackInit
<1>2. SessionStands /\ [RivalNext]_<<sessionVars, larger>>
        => SessionStands' /\ [Feed!PersonNext]_<<trk, sel.target>>
  BY SessionStep
<1> QED
  BY <1>1, <1>2, PTL DEF RivalSpec, AttentionAsPromised, Feed!PersonSpec

(* The robot turns to a larger person after switch_confirm_ms, no sooner   *)
(* and no later (_maybe_switch_current_target of selector.py), with the    *)
(* selector, the session and the tracker at the same frame.                *)
THEOREM SwitchingInTime == RivalSpec => SwitchesInTime
<1>1. RivalInit => SessionStands
  BY SessionStarts
<1>2. SessionStands /\ [RivalNext]_<<sessionVars, larger>>
        => SessionStands' /\ [TargetSwitchedInTime]_<<sessionVars, larger>>
  BY SessionStep
<1>3. SessionStands => SessionTypeOK /\ SwitchIsNotPutOff
  <2> SUFFICES ASSUME SessionStands PROVE SessionTypeOK /\ SwitchIsNotPutOff
    OBVIOUS
  <2>1. DOMAIN trk.tracks \subseteq 1..MaxTrackId
    BY TrackAssumption DEF SessionStands, TracksStand
  <2> QED
    BY <2>1 DEF SessionStands, SelectorStands, SessionTypeOK, SwitchIsNotPutOff
<1>4. RivalSpec => [][TargetSwitchedInTime]_<<sessionVars, larger>>
                        /\ [](SessionTypeOK /\ SwitchIsNotPutOff)
  BY <1>1, <1>2, <1>3, PTL DEF RivalSpec
<1> QED
  BY <1>4 DEF SwitchesInTime, NoFlapping, TargetSwitchedInTime

-----------------------------------------------------------------------------
(* Counting and choosing among finitely many numbers                       *)

LEMMA SomeIsGreatest ==
  ASSUME NEW S, IsFiniteSet(S), S # {}, S \subseteq Int
  PROVE  \E m \in S : \A x \in S : x <= m
<1> DEFINE Above(i) == {j \in S : j > i}
           T == {Above(i) : i \in S}
<1>1. T \subseteq FiniteSubsetsOf(S) /\ T # {}
  <2>1. \A i \in S : Above(i) \subseteq S /\ IsFiniteSet(Above(i))
    BY FS_Subset
  <2> HIDE DEF Above
  <2> QED
    BY <2>1 DEF FiniteSubsetsOf
<1>2. PICK x \in T : \A y \in T : ~ (<<y, x>> \in StrictSubsetOrdering(S))
  <2>1. IsWellFoundedOn(StrictSubsetOrdering(S), FiniteSubsetsOf(S))
    BY FS_StrictSubsetOrderingWellFounded
  <2> HIDE DEF T
  <2> QED
    BY <1>1, <2>1, WFMin
<1>3. PICK m \in S : x = Above(m)
  BY <1>2
<1>4. ASSUME NEW j \in S, j > m PROVE FALSE
  <2>a. \A i \in S : i > j => i > m
    BY <1>4
  <2>1. Above(j) \subseteq Above(m) /\ j \in Above(m) /\ j \notin Above(j)
    <3>1. j \in Int /\ ~ (j > j)
      OBVIOUS
    <3> QED
      BY <1>4, <2>a, <3>1
  <2>2. Above(m) \subseteq S /\ Above(j) \in T
    OBVIOUS
  <2>3. <<Above(j), Above(m)>> \in StrictSubsetOrdering(S)
    <3> HIDE DEF Above
    <3> QED
      BY <2>1, <2>2 DEF StrictSubsetOrdering
  <2> QED
    BY <1>2, <1>3, <2>2, <2>3
<1> QED
  BY <1>4

(* A nonempty set of naturals has a smallest member: the set of intervals  *)
(* 1..i has one.                                                           *)
LEMMA LeastOfNaturals ==
  ASSUME NEW S \in SUBSET Nat, S # {}
  PROVE  Min(S) \in S /\ \A j \in S : Min(S) <= j
<1> DEFINE T == {1..i : i \in S}
<1>1. T \subseteq FiniteSubsetsOf(Nat) /\ T # {}
  <2>1. \A i \in S : IsFiniteSet(1..i) /\ 1..i \subseteq Nat
    BY FS_Interval
  <2> QED
    BY <2>1 DEF FiniteSubsetsOf
<1>2. IsWellFoundedOn(StrictSubsetOrdering(Nat), FiniteSubsetsOf(Nat))
  BY FS_StrictSubsetOrderingWellFounded
<1>3. PICK x \in T : \A y \in T : ~ (<<y, x>> \in StrictSubsetOrdering(Nat))
  <2> HIDE DEF T
  <2> QED
    BY <1>1, <1>2, WFMin
<1>4. PICK i \in S : x = 1..i
  BY <1>3
<1>5. ASSUME NEW j \in S, j < i PROVE FALSE
  <2>1. 1..j \subseteq 1..i /\ 1..i \subseteq Nat /\ i \in 1..i /\ i \notin 1..j
    BY <1>5
  <2>2. <<1..j, 1..i>> \in StrictSubsetOrdering(Nat)
    BY <2>1 DEF StrictSubsetOrdering
  <2> QED
    BY <1>3, <1>4, <2>2
<1>6. \A j \in S : i <= j
  BY <1>5
<1> QED
  BY <1>6 DEF Min

(* The ranks of finitely many ids are 0, 1, 2 and so on.                   *)
RankIn(S, i) == Cardinality({j \in S : j < i})

LEMMA RanksFill ==
  ASSUME NEW S, IsFiniteSet(S), S \subseteq Int
  PROVE  /\ Cardinality(S) \in Nat
         /\ \A i \in S : RankIn(S, i) \in 0..Cardinality(S) - 1
         /\ \A k \in 0..Cardinality(S) - 1 : \E i \in S : RankIn(S, i) = k
<1>0. PICK f : f = [i \in S |-> RankIn(S, i)]
  OBVIOUS
<1> DEFINE Below(i) == {j \in S : j < i}
<1>1. \A i \in S : /\ Below(i) \subseteq S /\ IsFiniteSet(Below(i)) /\ i \notin Below(i)
                  /\ Cardinality(Below(i)) \in Nat
  BY FS_Subset, FS_CardinalityType
<1>2. PICK n \in Nat : n = Cardinality(S)
  BY FS_CardinalityType
<1>3. ASSUME NEW i \in S PROVE f[i] \in Nat /\ f[i] < n
  <2>1. f[i] = Cardinality(Below(i))
    BY <1>0 DEF RankIn
  <2>2. Cardinality(Below(i)) <= n /\ Cardinality(Below(i)) # n
    <3> HIDE DEF Below
    <3>1. Below(i) # S
      BY <1>1
    <3> QED
      BY <1>1, <1>2, <3>1, FS_Subset
  <2> QED
    BY <1>1, <2>1, <2>2
<1>4. ASSUME NEW i \in S, NEW j \in S, i < j PROVE f[i] < f[j]
  <2>a. \A k \in S : k < i => k < j
    BY <1>4
  <2>1. Below(i) \subseteq Below(j) /\ i \in Below(j) /\ i \notin Below(i)
    <3>1. i \in Int /\ ~ (i < i)
      OBVIOUS
    <3> QED
      BY <1>4, <2>a, <3>1
  <2>2. Cardinality(Below(i)) < Cardinality(Below(j))
    <3> HIDE DEF Below
    <3>1. /\ Cardinality(Below(i)) <= Cardinality(Below(j))
          /\ Cardinality(Below(i)) # Cardinality(Below(j))
      BY <1>1, <2>1, FS_Subset
    <3> QED
      BY <1>1, <3>1
  <2>3. f[i] = Cardinality(Below(i)) /\ f[j] = Cardinality(Below(j))
    BY <1>0 DEF RankIn
  <2> QED
    BY <2>2, <2>3
<1>5. f \in Injection(S, 0..n - 1)
  <2>1. f \in [S -> 0..n - 1]
    BY <1>0, <1>3
  <2>2. \A i, j \in S : f[i] = f[j] => i = j
    BY <1>3, <1>4
  <2> QED
    BY <2>1, <2>2 DEF Injection, IsInjective
<1>6. IsFiniteSet(0..n - 1) /\ Cardinality(0..n - 1) = n
  BY FS_Interval
<1>7. f \in Surjection(S, 0..n - 1)
  BY <1>2, <1>5, <1>6, FS_Injection
<1> QED
  BY <1>0, <1>2, <1>3, <1>7 DEF Surjection

-----------------------------------------------------------------------------
(* What the engine remembers                                               *)

MemoryShape(e) ==
    e = [slotOf |-> e.slotOf, nextSlot |-> e.nextSlot, aliasAt |-> e.aliasAt,
         seen |-> e.seen, lastId |-> e.lastId, motion |-> e.motion,
         appeared |-> e.appeared, salient |-> e.salient, left |-> e.left,
         active |-> e.active, lastKind |-> e.lastKind, lastTold |-> e.lastTold,
         prev |-> e.prev]

(* Every id has a slot that was given out.                                 *)
SlotsStand(e) ==
    /\ e.nextSlot \in Nat \ {0}
    /\ DOMAIN e.slotOf \subseteq Int
    /\ \A i \in DOMAIN e.slotOf : e.slotOf[i] \in 1 .. e.nextSlot - 1

(* Every slot was seen, knows its last track, and is left only when told.  *)
MemoryStands(e) ==
    /\ MemoryShape(e)
    /\ SlotsStand(e)
    /\ DOMAIN e.seen = 1 .. e.nextSlot - 1
    /\ \A s \in DOMAIN e.seen : e.seen[s] \in Nat
    /\ \A s \in DOMAIN e.seen : e.lastId[s] \in DOMAIN e.slotOf /\ e.slotOf[e.lastId[s]] = s
    /\ DOMAIN e.lastId = DOMAIN e.seen
    /\ e.left \cup e.appeared \subseteq e.salient
    /\ e.salient \subseteq DOMAIN e.seen
    /\ \A s \in e.left : <<s, "left">> \in DOMAIN e.lastTold

LEMMA NoMemoryStands == MemoryStands(NoMemory)
BY DEF MemoryStands, MemoryShape, SlotsStand, NoMemory

LEMMA VisibleAreSeen ==
  ASSUME NEW t, TracksStand(t), t.stamp \in Frames
  PROVE  /\ VisibleIds(t) \subseteq DOMAIN t.tracks /\ VisibleIds(t) \subseteq Int
         /\ DOMAIN t.tracks \subseteq Int
         /\ IsFiniteSet(VisibleIds(t)) /\ t.stamp.ts \in Nat
<1>1. VisibleIds(t) \subseteq DOMAIN t.tracks
  BY DEF VisibleIds
<1> QED
  BY <1>1, PeopleAreFew, FS_Subset, FrameTimes

(* Everybody in sight gets a slot, who had one keeps it, and every slot    *)
(* given out by this goes to somebody in sight.                            *)
LEMMA SlotsAreGiven ==
  ASSUME NEW e, MemoryStands(e), NEW t, TracksStand(t), t.stamp \in Frames,
         NEW takeover \in Takeovers(e, t), NEW w, w = WithSlots(e, t, takeover)
  PROVE  /\ SlotsStand(w)
         /\ DOMAIN w.slotOf = DOMAIN e.slotOf \cup VisibleIds(t)
         /\ \A i \in DOMAIN e.slotOf : w.slotOf[i] = e.slotOf[i]
         /\ e.nextSlot <= w.nextSlot
         /\ \A s \in 1 .. w.nextSlot - 1 :
              s \in 1 .. e.nextSlot - 1 \/ \E i \in VisibleIds(t) : w.slotOf[i] = s
         /\ w = [slotOf |-> w.slotOf, nextSlot |-> w.nextSlot, aliasAt |-> w.aliasAt,
                 seen |-> e.seen, lastId |-> e.lastId, motion |-> e.motion,
                 appeared |-> e.appeared, salient |-> e.salient, left |-> e.left,
                 active |-> e.active, lastKind |-> e.lastKind, lastTold |-> e.lastTold,
                 prev |-> e.prev]
<1>1. PICK fresh : fresh = Newcomers(e, t) \ DOMAIN takeover
  OBVIOUS
<1>3. PICK new : new = [i \in fresh |-> SlotAfter(e, {j \in fresh : j < i})]
  OBVIOUS
<1>4. PICK ids \in SUBSET Newcomers(e, t) : takeover \in [ids -> Reusable(e, t)]
  BY DEF Takeovers
<1>5. /\ fresh \subseteq VisibleIds(t) /\ IsFiniteSet(fresh) /\ fresh \subseteq Int
      /\ DOMAIN takeover = ids
      /\ DOMAIN e.slotOf \cup VisibleIds(t) = DOMAIN e.slotOf \cup ids \cup fresh
      /\ ids \cap DOMAIN e.slotOf = {} /\ fresh \cap DOMAIN e.slotOf = {}
      /\ ids \cap fresh = {}
  <2>1. fresh \subseteq VisibleIds(t)
    BY <1>1 DEF Newcomers
  <2> QED
    BY <1>1, <1>4, <2>1, VisibleAreSeen, FS_Subset DEF Newcomers
<1>6. PICK n \in Nat :
        /\ n = Cardinality(fresh)
        /\ \A i \in fresh : RankIn(fresh, i) \in 0..n - 1
        /\ \A k \in 0..n - 1 : \E i \in fresh : RankIn(fresh, i) = k
  BY <1>5, RanksFill
<1>7. /\ w.slotOf = Updated(Updated(e.slotOf, takeover), new)
      /\ w.nextSlot = e.nextSlot + n
      /\ w = [slotOf |-> w.slotOf, nextSlot |-> w.nextSlot, aliasAt |-> w.aliasAt,
              seen |-> e.seen, lastId |-> e.lastId, motion |-> e.motion,
              appeared |-> e.appeared, salient |-> e.salient, left |-> e.left,
              active |-> e.active, lastKind |-> e.lastKind, lastTold |-> e.lastTold,
              prev |-> e.prev]
  <2>1. PICK s1 : s1 = Updated(Updated(e.slotOf, takeover), new)
    OBVIOUS
  <2>2. PICK a1 : a1 = Updated(e.aliasAt, [i \in DOMAIN takeover |-> t.stamp.ts])
    OBVIOUS
  <2>3. PICK n1 : n1 = SlotAfter(e, fresh)
    OBVIOUS
  <2>4. w = [e EXCEPT !.slotOf = s1, !.nextSlot = n1, !.aliasAt = a1]
    BY <1>1, <1>3, <2>1, <2>2, <2>3 DEF WithSlots
  <2>5. n1 = e.nextSlot + n
    BY <1>6, <2>3 DEF SlotAfter
  <2> QED
    BY <2>1, <2>4, <2>5 DEF MemoryStands, MemoryShape
<1>8. /\ DOMAIN new = fresh
      /\ \A i \in fresh : new[i] = e.nextSlot + RankIn(fresh, i)
  BY <1>3 DEF SlotAfter, RankIn
<1>9. /\ DOMAIN w.slotOf = DOMAIN e.slotOf \cup ids \cup fresh
      /\ \A i \in fresh : w.slotOf[i] = new[i]
      /\ \A i \in ids : w.slotOf[i] = takeover[i]
      /\ \A i \in DOMAIN e.slotOf : w.slotOf[i] = e.slotOf[i]
  <2>1. PICK mid : mid = Updated(e.slotOf, takeover)
    OBVIOUS
  <2>2. /\ DOMAIN mid = DOMAIN e.slotOf \cup ids
        /\ \A i \in ids : mid[i] = takeover[i]
        /\ \A i \in DOMAIN e.slotOf : mid[i] = e.slotOf[i]
    <3>1. /\ DOMAIN mid = DOMAIN e.slotOf \cup DOMAIN takeover
          /\ \A x \in DOMAIN takeover : mid[x] = takeover[x]
          /\ \A x \in DOMAIN e.slotOf \ DOMAIN takeover : mid[x] = e.slotOf[x]
      BY <2>1 DEF Updated
    <3> QED
      BY <1>5, <3>1
  <2>3. PICK slots : slots = Updated(mid, new)
    OBVIOUS
  <2>4. /\ DOMAIN slots = DOMAIN mid \cup DOMAIN new
        /\ \A x \in DOMAIN new : slots[x] = new[x]
        /\ \A x \in DOMAIN mid \ DOMAIN new : slots[x] = mid[x]
    BY <2>3 DEF Updated
  <2>5. w.slotOf = slots
    BY <1>7, <2>1, <2>3
  <2> QED
    BY <1>5, <1>8, <2>2, <2>4, <2>5
<1>10. e.nextSlot \in Nat \ {0} /\ DOMAIN e.slotOf \subseteq Int
       /\ \A i \in DOMAIN e.slotOf : e.slotOf[i] \in 1 .. e.nextSlot - 1
  BY DEF MemoryStands, SlotsStand
<1>11. \A i \in ids : takeover[i] \in 1 .. e.nextSlot - 1
  BY <1>4 DEF Reusable, MemoryStands
<1>12. \A i \in fresh : new[i] \in e.nextSlot .. e.nextSlot + n - 1
  BY <1>6, <1>8, <1>10
<1>13. \A s \in e.nextSlot .. e.nextSlot + n - 1 : \E i \in fresh : new[i] = s
  <2> SUFFICES ASSUME NEW s \in e.nextSlot .. e.nextSlot + n - 1
               PROVE  \E i \in fresh : new[i] = s
    OBVIOUS
  <2>1. s - e.nextSlot \in 0..n - 1
    BY <1>10
  <2>2. PICK i \in fresh : RankIn(fresh, i) = s - e.nextSlot
    BY <1>6, <2>1
  <2>3. new[i] = s
    BY <1>8, <1>10, <2>2
  <2> QED
    BY <2>3
<1>14. SlotsStand(w)
  <2>1. w.nextSlot \in Nat \ {0} /\ e.nextSlot <= w.nextSlot
    BY <1>7, <1>10
  <2>2. DOMAIN w.slotOf \subseteq Int
    BY <1>5, <1>9, <1>10, VisibleAreSeen
  <2>3. ASSUME NEW i \in DOMAIN w.slotOf PROVE w.slotOf[i] \in 1 .. w.nextSlot - 1
    <3>1. \A s \in 1 .. e.nextSlot - 1 : s \in 1 .. w.nextSlot - 1
      BY <1>7, <1>10
    <3>2. \A s \in e.nextSlot .. e.nextSlot + n - 1 : s \in 1 .. w.nextSlot - 1
      BY <1>7, <1>10
    <3> QED
      BY <1>9, <1>10, <1>11, <1>12, <3>1, <3>2
  <2> QED
    BY <2>1, <2>2, <2>3 DEF SlotsStand
<1>15. \A s \in 1 .. w.nextSlot - 1 :
         s \in 1 .. e.nextSlot - 1 \/ \E i \in VisibleIds(t) : w.slotOf[i] = s
  <2>1. \A s \in 1 .. w.nextSlot - 1 :
           s \in 1 .. e.nextSlot - 1 \/ s \in e.nextSlot .. e.nextSlot + n - 1
    BY <1>7, <1>10
  <2> QED
    BY <1>5, <1>9, <1>13, <2>1
<1>16. e.nextSlot <= w.nextSlot
  BY <1>7, <1>10
<1> QED
  BY <1>5, <1>7, <1>9, <1>14, <1>15, <1>16

(* What the engine knows of the people in sight before it speaks: its      *)
(* memory stands, everybody in sight has a slot in it.                     *)
LEMMA NotedStands ==
  ASSUME NEW e, MemoryStands(e), NEW t, TracksStand(t), t.stamp \in Frames,
         NEW takeover \in Takeovers(e, t), NEW g, NEW head,
         NEW n, n = Noted(WithSlots(e, t, takeover), t, g, head)
  PROVE  /\ MemoryStands(n)
         /\ DOMAIN n.slotOf = DOMAIN e.slotOf \cup VisibleIds(t)
         /\ \A i \in DOMAIN e.slotOf : n.slotOf[i] = e.slotOf[i]
         /\ n.motion = Motion(e, t, head)
         /\ n.active = StillActive(e, head)
<1>1. PICK w : w = WithSlots(e, t, takeover)
  OBVIOUS
<1>2. /\ SlotsStand(w)
      /\ DOMAIN w.slotOf = DOMAIN e.slotOf \cup VisibleIds(t)
      /\ \A i \in DOMAIN e.slotOf : w.slotOf[i] = e.slotOf[i]
      /\ e.nextSlot <= w.nextSlot
      /\ \A s \in 1 .. w.nextSlot - 1 :
           s \in 1 .. e.nextSlot - 1 \/ \E i \in VisibleIds(t) : w.slotOf[i] = s
      /\ w = [slotOf |-> w.slotOf, nextSlot |-> w.nextSlot, aliasAt |-> w.aliasAt,
              seen |-> e.seen, lastId |-> e.lastId, motion |-> e.motion,
              appeared |-> e.appeared, salient |-> e.salient, left |-> e.left,
              active |-> e.active, lastKind |-> e.lastKind, lastTold |-> e.lastTold,
              prev |-> e.prev]
  BY <1>1, SlotsAreGiven
<1>3. PICK slots : slots = {w.slotOf[i] : i \in VisibleIds(t)}
  OBVIOUS
<1>4. PICK latest : latest = [s \in slots |-> CHOOSE i \in VisibleIds(t) :
                                 /\ w.slotOf[i] = s
                                 /\ \A j \in VisibleIds(t) : w.slotOf[j] = s => j =< i]
  OBVIOUS
<1>5. PICK seen : seen = Updated(e.seen, [s \in slots |-> t.stamp.ts])
  OBVIOUS
<1>6. PICK lastId : lastId = Updated(e.lastId, latest)
  OBVIOUS
<1>7. PICK salient : salient = e.salient \cup {w.slotOf[i] : i \in {g} \cap StablePeople(t)}
  OBVIOUS
<1>f. /\ w.seen = e.seen /\ w.lastId = e.lastId /\ w.motion = e.motion
      /\ w.salient = e.salient /\ w.active = e.active
  BY <1>2
<1>8. n = [w EXCEPT !.seen = seen, !.lastId = lastId, !.motion = Motion(e, t, head),
                    !.active = StillActive(e, head), !.salient = salient]
  <2>1. Motion(w, t, head) = Motion(e, t, head) /\ StillActive(w, head) = StillActive(e, head)
    BY <1>f DEF Motion, StillActive
  <2> QED
    BY <1>1, <1>3, <1>4, <1>5, <1>6, <1>7, <1>f, <2>1 DEF Noted
<1>m. PICK motion, active : motion = Motion(e, t, head) /\ active = StillActive(e, head)
  OBVIOUS
<1>9. n = [slotOf |-> w.slotOf, nextSlot |-> w.nextSlot, aliasAt |-> w.aliasAt,
           seen |-> seen, lastId |-> lastId, motion |-> motion,
           appeared |-> e.appeared, salient |-> salient, left |-> e.left,
           active |-> active, lastKind |-> e.lastKind,
           lastTold |-> e.lastTold, prev |-> e.prev]
  <2>1. w = [slotOf |-> w.slotOf, nextSlot |-> w.nextSlot, aliasAt |-> w.aliasAt,
             seen |-> e.seen, lastId |-> e.lastId, motion |-> e.motion,
             appeared |-> e.appeared, salient |-> e.salient, left |-> e.left,
             active |-> e.active, lastKind |-> e.lastKind, lastTold |-> e.lastTold,
             prev |-> e.prev]
    BY <1>2
  <2>2. n = [w EXCEPT !.seen = seen, !.lastId = lastId, !.motion = motion,
                      !.active = active, !.salient = salient]
    BY <1>8, <1>m
  <2>3. /\ n.slotOf = w.slotOf /\ n.nextSlot = w.nextSlot /\ n.aliasAt = w.aliasAt
        /\ n.appeared = e.appeared /\ n.left = e.left /\ n.lastKind = e.lastKind
        /\ n.lastTold = e.lastTold /\ n.prev = e.prev
    BY <2>1, <2>2
  <2>4. /\ n.seen = seen /\ n.lastId = lastId /\ n.motion = motion
        /\ n.active = active /\ n.salient = salient
    BY <2>1, <2>2
  <2>5. n = [slotOf |-> n.slotOf, nextSlot |-> n.nextSlot, aliasAt |-> n.aliasAt,
             seen |-> n.seen, lastId |-> n.lastId, motion |-> n.motion,
             appeared |-> n.appeared, salient |-> n.salient, left |-> n.left,
             active |-> n.active, lastKind |-> n.lastKind,
             lastTold |-> n.lastTold, prev |-> n.prev]
    BY <2>1, <2>2
  <2> QED
    BY <2>3, <2>4, <2>5
<1>10. VisibleIds(t) \subseteq Int /\ IsFiniteSet(VisibleIds(t)) /\ t.stamp.ts \in Nat
  BY VisibleAreSeen
<1>11. slots \subseteq 1 .. w.nextSlot - 1
  BY <1>2, <1>3 DEF SlotsStand
<1>12. /\ DOMAIN e.seen = 1 .. e.nextSlot - 1 /\ DOMAIN e.lastId = DOMAIN e.seen
       /\ \A s \in DOMAIN e.seen : e.seen[s] \in Nat /\ e.lastId[s] \in DOMAIN e.slotOf
                                 /\ e.slotOf[e.lastId[s]] = s
       /\ e.nextSlot \in Nat \ {0} /\ w.nextSlot \in Nat \ {0}
  BY <1>2 DEF MemoryStands, SlotsStand
<1>13. (1 .. e.nextSlot - 1) \cup slots = 1 .. w.nextSlot - 1
  <2>1. 1 .. e.nextSlot - 1 \subseteq 1 .. w.nextSlot - 1
    BY <1>2, <1>12
  <2> QED
    BY <1>2, <1>3, <1>11, <2>1
<1>14. /\ DOMAIN seen = 1 .. w.nextSlot - 1
       /\ \A s \in DOMAIN seen : seen[s] \in Nat
  <2>1. PICK now : now = [s \in slots |-> t.stamp.ts]
    OBVIOUS
  <2>o. PICK old : old = e.seen
    OBVIOUS
  <2>2. /\ DOMAIN seen = DOMAIN old \cup DOMAIN now
        /\ \A x \in DOMAIN now : seen[x] = now[x]
        /\ \A x \in DOMAIN old \ DOMAIN now : seen[x] = old[x]
    <3>1. seen = Updated(old, now)
      BY <1>5, <2>1, <2>o
    <3> QED
      BY <3>1 DEF Updated
  <2> QED
    BY <1>10, <1>12, <1>13, <2>1, <2>2, <2>o
<1>15. ASSUME NEW s \in slots
       PROVE  latest[s] \in VisibleIds(t) /\ w.slotOf[latest[s]] = s
  <2> DEFINE S == {i \in VisibleIds(t) : w.slotOf[i] = s}
  <2>1. S # {} /\ S \subseteq Int /\ IsFiniteSet(S)
    BY <1>3, <1>10, FS_Subset
  <2>2. \E m \in S : \A x \in S : x <= m
    <3> HIDE DEF S
    <3> QED
      BY <2>1, SomeIsGreatest
  <2> QED
    BY <1>4, <2>2
<1>16. /\ DOMAIN lastId = DOMAIN seen
       /\ \A s \in DOMAIN seen : lastId[s] \in DOMAIN w.slotOf /\ w.slotOf[lastId[s]] = s
  <2>o. PICK old : old = e.lastId
    OBVIOUS
  <2>u. /\ DOMAIN lastId = DOMAIN old \cup DOMAIN latest
        /\ \A x \in DOMAIN latest : lastId[x] = latest[x]
        /\ \A x \in DOMAIN old \ DOMAIN latest : lastId[x] = old[x]
    <3>1. lastId = Updated(old, latest)
      BY <1>6, <2>o
    <3> QED
      BY <3>1 DEF Updated
  <2>1. /\ DOMAIN lastId = DOMAIN e.lastId \cup DOMAIN latest
        /\ \A x \in DOMAIN latest : lastId[x] = latest[x]
        /\ \A x \in DOMAIN e.lastId \ DOMAIN latest : lastId[x] = e.lastId[x]
    BY <2>o, <2>u
  <2>2. DOMAIN latest = slots
    BY <1>4
  <2>3. DOMAIN lastId = DOMAIN seen
    BY <1>12, <1>13, <1>14, <2>1, <2>2
  <2>4. ASSUME NEW s \in DOMAIN seen
        PROVE  lastId[s] \in DOMAIN w.slotOf /\ w.slotOf[lastId[s]] = s
    <3>1. CASE s \in slots
      BY <1>2, <1>15, <2>1, <2>2, <3>1
    <3>2. CASE s \notin slots
      <4>1. s \in DOMAIN e.lastId /\ lastId[s] = e.lastId[s]
        BY <2>1, <2>2, <2>3, <3>2
      <4> QED
        BY <1>2, <1>12, <4>1
    <3> QED
      BY <3>1, <3>2
  <2> QED
    BY <2>3, <2>4
<1>17. salient \subseteq DOMAIN seen
  <2>1. e.salient \subseteq 1 .. w.nextSlot - 1
    BY <1>12, <1>13 DEF MemoryStands
  <2>2. StablePeople(t) \subseteq VisibleIds(t)
    BY DEF StablePeople
  <2> QED
    BY <1>3, <1>7, <1>11, <1>14, <2>1, <2>2
<1>18. MemoryStands(n)
  <2>1. /\ n.slotOf = w.slotOf /\ n.nextSlot = w.nextSlot /\ n.seen = seen
        /\ n.lastId = lastId /\ n.salient = salient /\ n.left = e.left
        /\ n.appeared = e.appeared /\ n.lastTold = e.lastTold
    BY <1>9
  <2>2. MemoryShape(n)
    BY <1>9 DEF MemoryShape
  <2>3. SlotsStand(n)
    BY <1>2, <2>1 DEF SlotsStand
  <2>4. /\ e.left \cup e.appeared \subseteq e.salient
        /\ \A s \in e.left : <<s, "left">> \in DOMAIN e.lastTold
    BY DEF MemoryStands
  <2>5. n.left \cup n.appeared \subseteq n.salient
    BY <1>7, <2>1, <2>4
  <2> QED
    BY <1>14, <1>16, <1>17, <2>1, <2>2, <2>3, <2>4, <2>5 DEF MemoryStands
<1> QED
  BY <1>2, <1>9, <1>m, <1>18

(* What is proposed is proposed of somebody who has a slot; a departure is *)
(* that of a slot nobody in sight has.                                     *)
Proposals(n, t, g, sight) ==
    Appearing(n, t, g) \cup Leaving(n, t) \cup Rising(n, t, sight) \cup Turning(n, t, g)

LEMMA ProposalsAre ==
  ASSUME NEW n, MemoryStands(n), NEW t, VisibleIds(t) \subseteq DOMAIN n.slotOf,
         NEW g, NEW sight \in Sights(n, t), NEW p \in Proposals(n, t, g, sight)
  PROVE  /\ p.kind \in Kinds /\ p.id \in DOMAIN n.slotOf /\ p = Proposal(p.kind, p.id)
         /\ p.kind = "appeared" => p.id \in VisibleIds(t)
         /\ p.kind = "left" => p \in Leaving(n, t)
         /\ p.kind \in Conditions => p \in Rising(n, t, sight)
<1>1. CASE p \in Appearing(n, t, g)
  <2>1. p.kind = "appeared" /\ p.id \in VisibleIds(t) /\ p = Proposal(p.kind, p.id)
    BY <1>1 DEF Appearing, Proposal, StablePeople
  <2> QED
    BY <2>1, EngineAssumption DEF Kinds
<1>2. CASE p \in Leaving(n, t)
  <2>1. PICK s \in n.salient : p = Proposal("left", n.lastId[s])
    BY <1>2 DEF Leaving
  <2>2. n.lastId[s] \in DOMAIN n.slotOf
    BY DEF MemoryStands
  <2>3. p.kind = "left" /\ p.id \in DOMAIN n.slotOf /\ p = Proposal(p.kind, p.id)
    BY <2>1, <2>2 DEF Proposal
  <2> QED
    BY <1>2, <2>3, EngineAssumption DEF Kinds
<1>3. CASE p \in Rising(n, t, sight)
  <2>1. PICK w \in sight : p = Proposal(w[2], w[1])
    BY <1>3 DEF Rising
  <2>2. w[1] \in VisibleIds(t) /\ w[2] \in Conditions
    BY DEF Sights
  <2>3. p.kind \in Conditions /\ p.id \in VisibleIds(t) /\ p = Proposal(p.kind, p.id)
    BY <2>1, <2>2 DEF Proposal
  <2> QED
    BY <1>3, <2>3, EngineAssumption DEF Kinds
<1>4. CASE p \in Turning(n, t, g)
  <2>1. p.kind = "target" /\ p.id \in VisibleIds(t) /\ p = Proposal(p.kind, p.id)
    BY <1>4 DEF Turning, Proposal
  <2> QED
    BY <2>1, EngineAssumption DEF Kinds
<1> QED
  BY <1>1, <1>2, <1>3, <1>4 DEF Proposals

(* The memory m that n becomes once its events are told.                   *)
Tells(m, n, now, events, gone) ==
    /\ MemoryShape(m)
    /\ m.slotOf = n.slotOf /\ m.nextSlot = n.nextSlot /\ m.seen = n.seen
    /\ m.lastId = n.lastId /\ m.motion = n.motion
    /\ \A p \in events : p.kind \in DOMAIN m.lastKind /\ m.lastKind[p.kind] = now
    /\ \A k \in DOMAIN n.lastKind :
         k \in DOMAIN m.lastKind /\ (m.lastKind[k] = now \/ m.lastKind[k] = n.lastKind[k])
    /\ \A x : x \in DOMAIN m.lastTold
               <=> x \in DOMAIN n.lastTold \/ \E p \in events : x = KeyOf(n, p)
    /\ m.appeared = n.appeared \cup SlotsTold(n, events, "appeared")
    /\ m.salient = n.salient \cup SlotsTold(n, events, "appeared")
    /\ m.left = n.left \cup SlotsTold(n, events, "left")
    /\ \A x : x \in m.active
               <=> \/ x \in n.active /\ x \notin gone
                   \/ \E p \in events : p.kind \in Conditions /\ x = KeyOf(n, p)

LEMMA ToldIs ==
  ASSUME NEW n, MemoryShape(n), NEW now, NEW g, NEW props, NEW gone, NEW events,
         NEW quiet, quiet = [n EXCEPT !.active = @ \ gone],
         NEW m, m = [Told(quiet, props, events, now) EXCEPT !.prev = g]
  PROVE  Tells(m, n, now, events, gone)
<1>1. /\ MemoryShape(quiet)
      /\ quiet.slotOf = n.slotOf /\ quiet.nextSlot = n.nextSlot /\ quiet.seen = n.seen
      /\ quiet.lastId = n.lastId /\ quiet.motion = n.motion
      /\ quiet.lastKind = n.lastKind /\ quiet.lastTold = n.lastTold
      /\ quiet.appeared = n.appeared /\ quiet.salient = n.salient /\ quiet.left = n.left
      /\ quiet.active = n.active \ gone
  BY DEF MemoryShape
<1>2. \A p : KeyOf(quiet, p) = KeyOf(n, p)
  BY <1>1 DEF KeyOf
<1>3. \A kind : SlotsTold(quiet, events, kind) = SlotsTold(n, events, kind)
  BY <1>2 DEF SlotsTold
<1>4. PICK k1, k2, a1, s1, l1, c1 :
        /\ k1 = Updated(n.lastKind, [k \in {p.kind : p \in events} |-> now])
        /\ k2 = Updated(n.lastTold, [k \in {KeyOf(n, p) : p \in events} |-> now])
        /\ a1 = n.appeared \cup SlotsTold(n, events, "appeared")
        /\ s1 = n.salient \cup SlotsTold(n, events, "appeared")
        /\ l1 = n.left \cup SlotsTold(n, events, "left")
        /\ c1 = (n.active \ gone)
                  \cup {KeyOf(n, p) : p \in {q \in events : q.kind \in Conditions}}
  OBVIOUS
<1>5. m = [[quiet EXCEPT !.lastKind = k1, !.lastTold = k2, !.appeared = a1, !.salient = s1,
                         !.left = l1, !.active = c1] EXCEPT !.prev = g]
  <2>1. /\ {KeyOf(quiet, p) : p \in events} = {KeyOf(n, p) : p \in events}
        /\ {KeyOf(quiet, p) : p \in {q \in events : q.kind \in Conditions}}
             = {KeyOf(n, p) : p \in {q \in events : q.kind \in Conditions}}
    BY <1>2
  <2> QED
    BY <1>1, <1>3, <1>4, <2>1 DEF Told, Departed
<1>6. PICK told : told = [quiet EXCEPT !.lastKind = k1, !.lastTold = k2, !.appeared = a1,
                                      !.salient = s1, !.left = l1, !.active = c1]
  OBVIOUS
<1>7. /\ MemoryShape(told)
      /\ told.slotOf = quiet.slotOf /\ told.nextSlot = quiet.nextSlot
      /\ told.seen = quiet.seen /\ told.lastId = quiet.lastId /\ told.motion = quiet.motion
      /\ told.lastKind = k1 /\ told.lastTold = k2 /\ told.appeared = a1
      /\ told.salient = s1 /\ told.left = l1 /\ told.active = c1
  <2>1. MemoryShape(quiet)
    BY <1>1
  <2> QED
    BY <1>6, <2>1 DEF MemoryShape
<1>8. m = [told EXCEPT !.prev = g]
  BY <1>5, <1>6
<1>9. /\ MemoryShape(m)
      /\ m.slotOf = told.slotOf /\ m.nextSlot = told.nextSlot
      /\ m.seen = told.seen /\ m.lastId = told.lastId /\ m.motion = told.motion
      /\ m.lastKind = told.lastKind /\ m.lastTold = told.lastTold
      /\ m.appeared = told.appeared /\ m.salient = told.salient /\ m.left = told.left
      /\ m.active = told.active
  <2>1. MemoryShape(told)
    BY <1>7
  <2> QED
    BY <1>8, <2>1 DEF MemoryShape
<1>10. /\ m.slotOf = n.slotOf /\ m.nextSlot = n.nextSlot /\ m.seen = n.seen
       /\ m.lastId = n.lastId /\ m.motion = n.motion
       /\ m.lastKind = k1 /\ m.lastTold = k2 /\ m.appeared = a1
       /\ m.salient = s1 /\ m.left = l1 /\ m.active = c1
  BY <1>1, <1>7, <1>9
<1>11. /\ \A p \in events : p.kind \in DOMAIN k1 /\ k1[p.kind] = now
       /\ \A k \in DOMAIN n.lastKind :
            k \in DOMAIN k1 /\ (k1[k] = now \/ k1[k] = n.lastKind[k])
  BY <1>4 DEF Updated
<1>12. \A x : x \in DOMAIN k2 <=> x \in DOMAIN n.lastTold \/ \E p \in events : x = KeyOf(n, p)
  BY <1>4 DEF Updated
<1>13. \A x : x \in c1 <=> \/ x \in n.active /\ x \notin gone
                           \/ \E p \in events : p.kind \in Conditions /\ x = KeyOf(n, p)
  BY <1>4
<1> QED
  BY <1>4, <1>9, <1>10, <1>11, <1>12, <1>13 DEF Tells

(* Nobody who was told of and is gone stays untold but for the cooldown.   *)
NobodyForgottenIn(m, t) ==
    \A s \in m.salient \ SlotsInSight(m, t) :
        /\ <<s, "left">> \notin DOMAIN m.lastTold
        /\ t.stamp.ts - m.seen[s] >= LeftLost
        => Within(Cooldown, m.lastKind, "left", t.stamp.ts)

(* Of several departures at once, that of the lowest slot is told.         *)
LEMMA OneDeparts ==
  ASSUME NEW n, MemoryStands(n), NEW t, NEW quiet, quiet.slotOf = n.slotOf,
         NEW props, \A p \in props : p.kind = "left" => p \in Leaving(n, t),
         NEW now, NEW p \in props, p.kind = "left", Allowed(quiet, p, now)
  PROVE  \E q \in Emitted(quiet, props, now) : q.kind = "left"
<1> DEFINE departing == {q \in props : Allowed(quiet, q, now) /\ q.kind = "left"}
           S == {n.slotOf[q.id] : q \in departing}
<1>1. \A q \in departing : \E s \in DOMAIN n.seen :
         q = Proposal("left", n.lastId[s]) /\ n.slotOf[q.id] = s /\ s \in Nat
  <2> SUFFICES ASSUME NEW q \in departing
               PROVE  \E s \in DOMAIN n.seen :
                        q = Proposal("left", n.lastId[s]) /\ n.slotOf[q.id] = s /\ s \in Nat
    OBVIOUS
  <2>1. q \in Leaving(n, t)
    OBVIOUS
  <2>2. PICK s \in n.salient : q = Proposal("left", n.lastId[s])
    BY <2>1 DEF Leaving
  <2>3. s \in DOMAIN n.seen /\ s \in Nat /\ n.slotOf[n.lastId[s]] = s
    BY DEF MemoryStands, SlotsStand
  <2> QED
    BY <2>2, <2>3 DEF Proposal
<1>2. S \subseteq Nat /\ S # {}
  BY <1>1
<1>3. PICK m \in S : \A x \in S : m <= x
  <2> HIDE DEF S
  <2>1. Min(S) \in S /\ \A x \in S : Min(S) <= x
    BY <1>2, LeastOfNaturals
  <2> QED
    BY <2>1
<1>4. PICK q \in departing : n.slotOf[q.id] = m
  BY <1>3
<1>5. ASSUME NEW r \in departing, r # q PROVE Earlier(quiet, q, r)
  <2>1. n.slotOf[r.id] # n.slotOf[q.id]
    BY <1>1, <1>5
  <2>2. n.slotOf[r.id] \in Nat /\ n.slotOf[q.id] \in Nat /\ n.slotOf[q.id] <= n.slotOf[r.id]
    BY <1>1, <1>3, <1>4
  <2>3. n.slotOf[q.id] < n.slotOf[r.id]
    BY <2>1, <2>2
  <2> QED
    BY <2>3 DEF Earlier
<1> QED
  BY <1>5 DEF Emitted

(* What a frame makes of the memory n that its proposals start from.       *)
Becomes(m, n, t, events, gone) ==
    /\ MemoryStands(m)
    /\ m.slotOf = n.slotOf /\ m.motion = n.motion
    /\ \A x : x \in m.active
               <=> \/ x \in n.active /\ x \notin gone
                   \/ \E p \in events : p.kind \in Conditions /\ x = KeyOf(n, p)
    /\ NobodyForgottenIn(m, t)

Quieted(n, t, sight) == [n EXCEPT !.active = @ \ Over(n, t, sight)]
EventsOf(n, t, g, sight) ==
    Emitted(Quieted(n, t, sight), Proposals(n, t, g, sight), t.stamp.ts)
After(n, t, g, sight) ==
    [Told(Quieted(n, t, sight), Proposals(n, t, g, sight), EventsOf(n, t, g, sight),
          t.stamp.ts) EXCEPT !.prev = g]

LEMMA UpdateStands ==
  ASSUME NEW n, MemoryStands(n), NEW t, TracksStand(t), t.stamp \in Frames,
         DOMAIN t.tracks \subseteq DOMAIN n.slotOf,
         NEW g, NEW sight \in Sights(n, t),
         NEW events, events = EventsOf(n, t, g, sight),
         NEW m, m = After(n, t, g, sight)
  PROVE  /\ events \subseteq Proposals(n, t, g, sight)
         /\ Becomes(m, n, t, events, Over(n, t, sight))
<1>p. PICK props : props = Proposals(n, t, g, sight)
  OBVIOUS
<1>q. PICK quiet : quiet = Quieted(n, t, sight)
  OBVIOUS
<1>r. /\ events = Emitted(quiet, props, t.stamp.ts)
      /\ m = [Told(quiet, props, events, t.stamp.ts) EXCEPT !.prev = g]
  BY <1>p, <1>q DEF EventsOf, After
<1> DEFINE now == t.stamp.ts
           gone == Over(n, t, sight)
<1>1. Tells(m, n, now, events, gone)
  <2>1. MemoryShape(n)
    BY DEF MemoryStands
  <2> HIDE DEF gone
  <2>2. quiet = [n EXCEPT !.active = @ \ gone]
    BY <1>q DEF gone, Quieted
  <2> QED
    BY <1>r, <2>1, <2>2, ToldIs
<1>t. /\ MemoryShape(m)
      /\ m.slotOf = n.slotOf /\ m.nextSlot = n.nextSlot /\ m.seen = n.seen
      /\ m.lastId = n.lastId
      /\ m.appeared = n.appeared \cup SlotsTold(n, events, "appeared")
      /\ m.salient = n.salient \cup SlotsTold(n, events, "appeared")
      /\ m.left = n.left \cup SlotsTold(n, events, "left")
  BY <1>1 DEF Tells
<1>2. events \subseteq props
  BY <1>r DEF Emitted
<1>3. VisibleIds(t) \subseteq DOMAIN n.slotOf /\ now \in Nat /\ IsFiniteSet(DOMAIN t.tracks)
  BY VisibleAreSeen, PeopleAreFew
<1>4. \A p \in props :
        /\ p.id \in DOMAIN n.slotOf
        /\ p.kind = "appeared" => p.id \in VisibleIds(t)
        /\ p.kind = "left" => p \in Leaving(n, t)
  BY <1>p, <1>3, ProposalsAre
<1>5. ASSUME NEW p \in props, p.kind = "left"
      PROVE  /\ n.slotOf[p.id] \in n.salient
             /\ KeyOf(n, p) = <<n.slotOf[p.id], "left">>
  <2>1. PICK s \in n.salient : p = Proposal("left", n.lastId[s])
    BY <1>4, <1>5 DEF Leaving
  <2>2. n.slotOf[n.lastId[s]] = s
    BY DEF MemoryStands
  <2> QED
    BY <1>5, <2>1, <2>2 DEF Proposal, KeyOf
<1>6. ASSUME NEW s \in SlotsTold(n, events, "left")
      PROVE  s \in n.salient /\ \E p \in events : <<s, "left">> = KeyOf(n, p)
  <2>1. PICK p \in events : p.kind = "left" /\ s = KeyOf(n, p)[1]
    BY DEF SlotsTold
  <2>2. p \in props
    BY <1>2, <2>1
  <2>3. n.slotOf[p.id] \in n.salient /\ KeyOf(n, p) = <<n.slotOf[p.id], "left">>
    BY <1>5, <2>1, <2>2
  <2>4. s = n.slotOf[p.id]
    BY <2>1, <2>3
  <2> QED
    BY <2>1, <2>3, <2>4
<1>7. ASSUME NEW s \in SlotsTold(n, events, "appeared")
      PROVE  s \in DOMAIN n.seen /\ s \in SlotsInSight(m, t)
  <2>1. PICK p \in events : p.kind = "appeared" /\ s = KeyOf(n, p)[1]
    BY DEF SlotsTold
  <2>2. s = n.slotOf[p.id] /\ p.id \in VisibleIds(t) /\ p.id \in DOMAIN n.slotOf
    BY <1>2, <1>4, <2>1 DEF KeyOf
  <2>3. s \in DOMAIN n.seen
    BY <2>2 DEF MemoryStands, SlotsStand
  <2> QED
    BY <1>t, <2>2, <2>3 DEF SlotsInSight
<1>8. \A x : x \in DOMAIN m.lastTold
            <=> x \in DOMAIN n.lastTold \/ \E p \in events : x = KeyOf(n, p)
  BY <1>1 DEF Tells
<1>9. MemoryStands(m)
  <2>1. SlotsStand(m)
    BY <1>t DEF MemoryStands, SlotsStand
  <2>2. m.left \cup m.appeared \subseteq m.salient /\ m.salient \subseteq DOMAIN m.seen
    BY <1>t, <1>6, <1>7 DEF MemoryStands
  <2>3. \A s \in m.left : <<s, "left">> \in DOMAIN m.lastTold
    BY <1>t, <1>6, <1>8 DEF MemoryStands
  <2> QED
    BY <1>t, <2>1, <2>2, <2>3 DEF MemoryStands
<1>10. ASSUME NEW s \in m.salient \ SlotsInSight(m, t),
              <<s, "left">> \notin DOMAIN m.lastTold, now - m.seen[s] >= LeftLost
       PROVE  Within(Cooldown, m.lastKind, "left", now)
  <2>1. s \in n.salient /\ s \notin SlotsInSight(n, t) /\ s \notin n.left
    <3>1. SlotsInSight(m, t) = SlotsInSight(n, t)
      BY <1>t DEF SlotsInSight
    <3>2. s \in n.salient
      BY <1>t, <1>7, <1>10
    <3>3. <<s, "left">> \notin DOMAIN n.lastTold
      BY <1>8, <1>10
    <3> QED
      BY <1>10, <3>1, <3>2, <3>3 DEF MemoryStands
  <2>2. GoneFor(n, t, s) >= LeftLost
    <3> DEFINE ids == {j \in DOMAIN t.tracks : n.slotOf[j] = s}
               spans == {Lost(t.tracks[i], t.stamp) : i \in ids}
               lost == {now - n.seen[s]} \cup spans
    <3>1. s \in DOMAIN n.seen /\ n.seen[s] \in Nat
      BY <2>1 DEF MemoryStands
    <3>2. now - n.seen[s] \in Int /\ now - n.seen[s] >= LeftLost
      BY <1>t, <1>3, <1>10, <3>1
    <3>3. spans \subseteq Int
      BY <1>3 DEF TracksStand, Tracks, Lost
    <3>4. IsFiniteSet(spans)
      <4>1. IsFiniteSet(ids)
        BY <1>3, FS_Subset
      <4>2. [i \in ids |-> Lost(t.tracks[i], t.stamp)] \in Surjection(ids, spans)
        BY DEF Surjection
      <4> HIDE DEF ids, spans
      <4> QED
        BY <4>1, <4>2, FS_Surjection
    <3>5. IsFiniteSet(lost) /\ lost # {} /\ lost \subseteq Int
      <4> HIDE DEF spans
      <4> QED
        BY <3>2, <3>3, <3>4, FS_Union, FS_Singleton
    <3>6. \E d \in lost : \A x \in lost : x <= d
      <4> HIDE DEF lost
      <4> QED
        BY <3>5, SomeIsGreatest
    <3>7. GoneFor(n, t, s) \in lost /\ \A x \in lost : x <= GoneFor(n, t, s)
      BY <3>6 DEF GoneFor
    <3>8. now - n.seen[s] <= GoneFor(n, t, s) /\ GoneFor(n, t, s) \in Int
      <4>1. now - n.seen[s] \in lost
        OBVIOUS
      <4> HIDE DEF lost
      <4> QED
        BY <3>5, <3>7, <4>1
    <3> QED
      BY <3>2, <3>8, EngineAssumption
  <2>3. PICK p : p = Proposal("left", n.lastId[s])
    OBVIOUS
  <2>4. p \in props /\ p.kind = "left" /\ KeyOf(n, p) = <<s, "left">>
    <3>1. p \in Leaving(n, t)
      BY <2>1, <2>2, <2>3 DEF Leaving
    <3>2. p.kind = "left" /\ p.id = n.lastId[s]
      BY <2>3 DEF Proposal
    <3>3. n.slotOf[p.id] = s
      BY <2>1, <3>2 DEF MemoryStands
    <3> QED
      BY <1>p, <1>5, <3>1, <3>2, <3>3 DEF Proposals
  <2>5. /\ quiet.slotOf = n.slotOf /\ quiet.lastKind = n.lastKind
        /\ quiet.lastTold = n.lastTold /\ quiet.aliasAt = n.aliasAt
    BY <1>q DEF MemoryStands, MemoryShape, Quieted
  <2>6. CASE Allowed(quiet, p, now)
    <3>1. PICK q \in events : q.kind = "left"
      <4>1. \A r \in props : r.kind = "left" => r \in Leaving(n, t)
        BY <1>4
      <4>2. p \in props /\ p.kind = "left" /\ quiet.slotOf = n.slotOf
        BY <2>4, <2>5
      <4>3. PICK clock : clock = t.stamp.ts
        OBVIOUS
      <4>4. Allowed(quiet, p, clock)
        BY <2>6, <4>3
      <4>5. \E q \in Emitted(quiet, props, clock) : q.kind = "left"
        BY <4>1, <4>2, <4>4, OneDeparts
      <4> QED
        BY <1>r, <4>3, <4>5
    <3>2. "left" \in DOMAIN m.lastKind /\ m.lastKind["left"] = now
      BY <1>1, <3>1 DEF Tells
    <3> QED
      BY <1>3, <3>2, EngineAssumption DEF Within
  <2>7. CASE ~ Allowed(quiet, p, now)
    <3>1. <<s, "left">> \notin DOMAIN n.lastTold
      BY <1>8, <1>10
    <3>2. Within(Cooldown, n.lastKind, "left", now)
      BY <2>4, <2>5, <2>7, <3>1 DEF Allowed, Within, KeyOf
    <3>3. "left" \in DOMAIN m.lastKind
          /\ (m.lastKind["left"] = now \/ m.lastKind["left"] = n.lastKind["left"])
      BY <1>1, <3>2 DEF Tells, Within
    <3> QED
      BY <1>3, <3>2, <3>3, EngineAssumption DEF Within
  <2> QED
    BY <2>6, <2>7
<1>11. NobodyForgottenIn(m, t)
  BY <1>10 DEF NobodyForgottenIn
<1> QED
  BY <1>p, <1>1, <1>2, <1>9, <1>11 DEF Tells, Becomes

-----------------------------------------------------------------------------
(* The engine between two frames                                           *)

EngineStands ==
    /\ TracksStand(trk)
    /\ MemoryStands(eng)
    /\ DOMAIN trk.tracks \subseteq DOMAIN eng.slotOf
    /\ \A p \in out : p.kind \in Kinds /\ p.id \in DOMAIN eng.slotOf
    /\ NobodyForgottenIn(eng, trk)

(* How people moved is kept for no longer than the head rests.             *)
MotionStands(motion, now, r) ==
    /\ r = None => DOMAIN motion = {}
    /\ r # None => /\ r \in Nat /\ r <= MotionSpan
                   /\ \A i \in DOMAIN motion :
                        motion[i] \in Nat /\ (r = MotionSpan \/ r >= now - motion[i])

HeadStands ==
    /\ MotionStands(eng.motion, trk.stamp.ts, rest)
    /\ rest # None => trk.stamp # None
    /\ NoMotionFromTheHead

(* What was told and still holds is active for the slot it was told of.    *)
HeldStands ==
    \A h \in held : /\ h = <<h[1], h[2]>>
                    /\ h[1] \in DOMAIN trk.tracks /\ h[2] \in Conditions
                    /\ <<eng.slotOf[h[1]], h[2]>> \in eng.active

LEMMA FrameIsKnown ==
  ASSUME EngineStands, NEW frame \in Frames, NEW t \in NextTracks(trk, frame),
         NEW e, e = Remembered(frame), NEW takeover \in Takeovers(e, t), NEW g, NEW head,
         NEW n, n = Noted(WithSlots(e, t, takeover), t, g, head)
  PROVE  /\ TracksStand(t) /\ t.stamp = frame
         /\ MemoryStands(n)
         /\ DOMAIN t.tracks \subseteq DOMAIN n.slotOf /\ VisibleIds(t) \subseteq DOMAIN n.slotOf
         /\ \A i \in DOMAIN e.slotOf : n.slotOf[i] = e.slotOf[i]
         /\ n.motion = Motion(e, t, head)
         /\ n.active = StillActive(e, head)
<1>1. TracksStand(trk) /\ MemoryStands(eng) /\ DOMAIN trk.tracks \subseteq DOMAIN eng.slotOf
  BY DEF EngineStands
<1>2. /\ TracksStand(t) /\ t.stamp = frame
      /\ \A i \in DOMAIN t.tracks :
              \/ i \in DOMAIN Current(trk, frame).tracks
              \/ /\ i >= Current(trk, frame).nextId
                 /\ t.tracks[i] = Started(frame)
  BY <1>1, NextTracksAre
<1>3. MemoryStands(e) /\ DOMAIN Current(trk, frame).tracks \subseteq DOMAIN e.slotOf
  BY <1>1, NoMemoryStands, NoTracksStand DEF Remembered, Current
<1>4. /\ MemoryStands(n)
      /\ DOMAIN n.slotOf = DOMAIN e.slotOf \cup VisibleIds(t)
      /\ \A i \in DOMAIN e.slotOf : n.slotOf[i] = e.slotOf[i]
      /\ n.motion = Motion(e, t, head)
      /\ n.active = StillActive(e, head)
  BY <1>2, <1>3, NotedStands
<1>5. ASSUME NEW i \in DOMAIN t.tracks, t.tracks[i] = Started(frame) PROVE i \in VisibleIds(t)
  BY <1>2, <1>5, FrameTimes DEF VisibleIds, Lost, Started
<1>6. DOMAIN t.tracks \subseteq DOMAIN n.slotOf
  BY <1>2, <1>3, <1>4, <1>5
<1> QED
  BY <1>2, <1>4, <1>6

LEMMA MotionIsAtRest ==
  ASSUME EngineStands, HeadStands, NEW frame \in Frames, Timely(frame),
         NEW head \in {"stationary", "moving"}, NEW t, t.stamp = frame,
         NEW motion, motion = Motion(Remembered(frame), t, head)
  PROVE  MotionStands(motion, frame.ts, Rest(frame, head))
<1>1. frame.ts \in Nat /\ MotionSpan \in Nat /\ None \notin Int
  BY FrameTimes, EngineAssumption, TrackAssumption
<1>2. CASE head = "moving"
  <2>1. motion = <<>> /\ Rest(frame, head) = None
    BY <1>2 DEF Motion, Rest
  <2> QED
    BY <2>1 DEF MotionStands
<1> DEFINE here == [i \in VisibleIds(t) |-> frame.ts]
<1>3. CASE head = "stationary" /\ ~ (Continues(frame) /\ rest # None)
  <2>1. Rest(frame, head) = 0
    BY <1>3 DEF Rest
  <2>2. DOMAIN Remembered(frame).motion = {}
    BY <1>3 DEF Remembered, NoMemory, Continues, HeadStands, MotionStands
  <2>3. motion = Updated(here, Remembered(frame).motion)
    BY <1>3 DEF Motion
  <2>4. \A i \in DOMAIN motion : motion[i] = frame.ts
    BY <2>2, <2>3 DEF Updated
  <2> QED
    BY <1>1, <2>1, <2>4 DEF MotionStands
<1>4. CASE head = "stationary" /\ Continues(frame) /\ rest # None
  <2>1. trk.stamp \in Frames /\ trk.stamp.ts \in Nat /\ frame.ts - trk.stamp.ts \in Nat
    BY <1>1, <1>4, FrameTimes DEF EngineStands, TracksStand, Continues, Timely
  <2>2. rest \in Nat
    BY <1>4 DEF HeadStands, MotionStands
  <2>3. PICK x \in Nat : x = rest + frame.ts - trk.stamp.ts
    BY <1>1, <2>1, <2>2
  <2>4. PICK r : r = Min({MotionSpan, x})
    OBVIOUS
  <2>5. Rest(frame, head) = r
    BY <1>4, <2>3, <2>4 DEF Rest
  <2>6. (r = MotionSpan /\ MotionSpan <= x) \/ (r = x /\ x <= MotionSpan)
    BY <1>1, <2>4 DEF Min
  <2>7. PICK old : old = eng.motion
    OBVIOUS
  <2>8. motion = Updated(here, old)
    BY <1>4, <2>7 DEF Motion, Remembered, Continues
  <2>9. \A i \in DOMAIN motion :
           motion[i] = frame.ts \/ (i \in DOMAIN old /\ motion[i] = old[i])
    BY <2>8 DEF Updated
  <2>10. \A i \in DOMAIN old :
            old[i] \in Nat /\ (rest = MotionSpan \/ rest >= trk.stamp.ts - old[i])
    BY <1>4, <2>7 DEF HeadStands, MotionStands
  <2>11. ASSUME NEW i \in DOMAIN motion
         PROVE  motion[i] \in Nat /\ (r = MotionSpan \/ r >= frame.ts - motion[i])
    <3>1. CASE motion[i] = frame.ts
      BY <1>1, <2>3, <2>6, <3>1
    <3>2. CASE i \in DOMAIN old /\ motion[i] = old[i]
      <4>1. PICK k \in Nat : k = old[i]
        BY <2>10, <3>2
      <4>2. rest = MotionSpan \/ rest >= trk.stamp.ts - k
        BY <2>10, <3>2, <4>1
      <4>3. r = MotionSpan \/ r >= frame.ts - k
        BY <1>1, <2>1, <2>2, <2>3, <2>6, <4>2
      <4> QED
        BY <3>2, <4>1, <4>3
    <3> QED
      BY <2>9, <3>1, <3>2
  <2> QED
    BY <1>1, <2>3, <2>5, <2>6, <2>11 DEF MotionStands
<1> QED
  BY <1>2, <1>3, <1>4

NotToldAgain ==
    \A p \in out' : <<p.id, p.kind>> \in held /\ trk'.stamp # None
                       /\ ~ Regressed(trk.stamp, trk'.stamp)
         => \E j \in VisibleIds(trk') \ {p.id} : eng'.slotOf[j] = eng'.slotOf[p.id]

EngineIInv == EngineStands /\ HeadStands /\ HeldStands

LEMMA AnswerKeeps ==
  ASSUME EngineIInv, AnswerFrame
  PROVE  EngineIInv' /\ NotToldAgain
<1>1. PICK frame \in Frames, head \in {"stationary", "moving"} :
      /\ Timely(frame)
      /\ \E a \in Answers(frame) :
           /\ Observe(a[1], a[2])
           /\ \E noted \in Knowledge(frame, a[1], a[2], head) :
                \E sight \in Sights(noted, a[1]) :
                  /\ Update(noted, a[1], a[2], sight)
                  /\ held' = StillHeld(IF Regressed(trk.stamp, frame) THEN {} ELSE held,
                                       head, sight)
      /\ rest' = Rest(frame, head)
  BY DEF AnswerFrame
<1>2. PICK a \in Answers(frame) :
           /\ Observe(a[1], a[2])
           /\ \E noted \in Knowledge(frame, a[1], a[2], head) :
                \E sight \in Sights(noted, a[1]) :
                  /\ Update(noted, a[1], a[2], sight)
                  /\ held' = StillHeld(IF Regressed(trk.stamp, frame) THEN {} ELSE held,
                                       head, sight)
  BY <1>1
<1>3. PICK t, g : t = a[1] /\ g = a[2]
  OBVIOUS
<1>4. t \in NextTracks(trk, frame) /\ trk' = t
  BY <1>2, <1>3 DEF Answers, Observe
<1>n. PICK n \in Knowledge(frame, t, g, head) :
                \E sight \in Sights(n, t) :
                  /\ Update(n, t, g, sight)
                  /\ held' = StillHeld(IF Regressed(trk.stamp, frame) THEN {} ELSE held,
                                       head, sight)
  BY <1>2, <1>3
<1>5. PICK sight \in Sights(n, t) :
                  /\ Update(n, t, g, sight)
                  /\ held' = StillHeld(IF Regressed(trk.stamp, frame) THEN {} ELSE held,
                                       head, sight)
  BY <1>n
<1>6. PICK e : e = Remembered(frame)
  OBVIOUS
<1>7. PICK takeover \in Takeovers(e, t) : n = Noted(WithSlots(e, t, takeover), t, g, head)
  BY <1>n, <1>6 DEF Knowledge
<1>8. /\ TracksStand(t) /\ t.stamp = frame
      /\ MemoryStands(n)
      /\ DOMAIN t.tracks \subseteq DOMAIN n.slotOf /\ VisibleIds(t) \subseteq DOMAIN n.slotOf
      /\ \A i \in DOMAIN e.slotOf : n.slotOf[i] = e.slotOf[i]
      /\ n.motion = Motion(e, t, head)
      /\ n.active = StillActive(e, head)
  BY <1>4, <1>6, <1>7, FrameIsKnown DEF EngineIInv
<1>9. PICK props : props = Proposals(n, t, g, sight)
  OBVIOUS
<1>10. PICK events : events = EventsOf(n, t, g, sight)
  OBVIOUS
<1>11. PICK m : m = After(n, t, g, sight)
  OBVIOUS
<1>12. out' = events /\ eng' = m
  BY <1>5, <1>10, <1>11 DEF Update, Proposals, EventsOf, After, Quieted
<1>13. events \subseteq props /\ Becomes(m, n, t, events, Over(n, t, sight))
  <2>1. t.stamp \in Frames /\ DOMAIN t.tracks \subseteq DOMAIN n.slotOf
    BY <1>8
  <2>2. MemoryStands(n) /\ TracksStand(t) /\ sight \in Sights(n, t)
    BY <1>5, <1>8
  <2> QED
    BY <1>9, <1>10, <1>11, <2>1, <2>2, UpdateStands
<1>14. /\ MemoryStands(m) /\ events \subseteq props
       /\ m.slotOf = n.slotOf /\ m.motion = n.motion
       /\ \A x : x \in m.active
                  <=> \/ x \in n.active /\ x \notin Over(n, t, sight)
                      \/ \E p \in events : p.kind \in Conditions /\ x = KeyOf(n, p)
       /\ NobodyForgottenIn(m, t)
  BY <1>13 DEF Becomes
<1>15. \A p \in events :
         /\ p.kind \in Kinds /\ p.id \in DOMAIN n.slotOf
         /\ p.kind \in Conditions => p \in Rising(n, t, sight)
  BY <1>5, <1>8, <1>9, <1>14, ProposalsAre
<1>16. EngineStands'
  BY <1>4, <1>8, <1>12, <1>14, <1>15 DEF EngineStands
<1>17. ASSUME NEW p \in events, p.kind \in Conditions
       PROVE  /\ <<p.id, p.kind>> \in sight /\ p.id \in VisibleIds(t)
              /\ \/ <<n.slotOf[p.id], p.kind>> \notin n.active
                 \/ \E j \in VisibleIds(t) \ {p.id} : n.slotOf[j] = n.slotOf[p.id]
              /\ p.kind \in MotionEvents
                   => p.id \in DOMAIN n.motion /\ frame.ts - n.motion[p.id] >= MotionSpan
  <2>1. PICK w \in sight :
           /\ p = Proposal(w[2], w[1])
           /\ \/ <<n.slotOf[w[1]], w[2]>> \notin n.active
              \/ \E j \in VisibleIds(t) : j < w[1] /\ n.slotOf[j] = n.slotOf[w[1]]
    BY <1>15, <1>17 DEF Rising
  <2>2. /\ w \in VisibleIds(t) \X Conditions
        /\ w[2] \in MotionEvents => /\ w[1] \in DOMAIN n.motion
                                    /\ t.stamp.ts - n.motion[w[1]] >= MotionSpan
    BY <1>5 DEF Sights
  <2>3. w = <<w[1], w[2]>> /\ w[1] \in VisibleIds(t) /\ p.kind = w[2] /\ p.id = w[1]
    BY <2>1, <2>2 DEF Proposal
  <2>4. p.id \in Int
    BY <1>8, <2>3, VisibleAreSeen
  <2> QED
    BY <1>8, <2>1, <2>2, <2>3, <2>4
<1>18. HeadStands'
  <2>1. PICK r : r = Rest(frame, head)
    OBVIOUS
  <2>2. MotionStands(n.motion, frame.ts, r)
    BY <1>1, <1>6, <1>8, <2>1, MotionIsAtRest DEF EngineIInv
  <2>3. frame # None /\ frame.ts \in Nat /\ MotionSpan \in Nat
    BY FrameTimes, EngineAssumption
  <2>4. ASSUME NEW p \in events, p.kind \in MotionEvents PROVE r = MotionSpan
    <3>1. p.id \in DOMAIN n.motion /\ frame.ts - n.motion[p.id] >= MotionSpan
      BY <1>17, <2>4, EngineAssumption
    <3>2. r \in Nat /\ r <= MotionSpan /\ n.motion[p.id] \in Nat
          /\ (r = MotionSpan \/ r >= frame.ts - n.motion[p.id])
      BY <2>2, <3>1 DEF MotionStands
    <3> QED
      BY <2>3, <3>1, <3>2
  <2>5. rest' = r
    BY <1>1, <2>1
  <2> QED
    BY <1>4, <1>8, <1>12, <1>14, <2>2, <2>3, <2>4, <2>5 DEF HeadStands, NoMotionFromTheHead
<1>19. HeldStands'
  <2> SUFFICES ASSUME NEW h \in held'
               PROVE  /\ h = <<h[1], h[2]>>
                      /\ h[1] \in DOMAIN t.tracks /\ h[2] \in Conditions
                      /\ <<m.slotOf[h[1]], h[2]>> \in m.active
    BY <1>4, <1>12 DEF HeldStands
  <2>1. /\ \/ ~ Regressed(trk.stamp, frame) /\ h \in held
           \/ \E p \in events : p.kind \in Conditions /\ h = <<p.id, p.kind>>
        /\ h[1] \in VisibleIds(t) => h \in sight
        /\ h[1] \in DOMAIN t.tracks
        /\ head = "moving" => h[2] \notin MotionEvents
        /\ \A j \in VisibleIds(t) : m.slotOf[j] = m.slotOf[h[1]] => j = h[1]
    BY <1>4, <1>5, <1>12 DEF StillHeld
  <2>2. CASE \E p \in events : p.kind \in Conditions /\ h = <<p.id, p.kind>>
    <3>1. PICK p \in events : p.kind \in Conditions /\ h = <<p.id, p.kind>>
      BY <2>2
    <3>2. KeyOf(n, p) = <<m.slotOf[h[1]], h[2]>>
      BY <1>14, <3>1, EngineAssumption DEF KeyOf
    <3> QED
      BY <1>14, <2>1, <3>1, <3>2
  <2>3. CASE ~ Regressed(trk.stamp, frame) /\ h \in held
    <3>1. e = eng
      BY <1>6, <2>3 DEF Remembered
    <3>2. /\ h = <<h[1], h[2]>> /\ h[1] \in DOMAIN eng.slotOf /\ h[2] \in Conditions
          /\ <<eng.slotOf[h[1]], h[2]>> \in eng.active
      BY <2>3 DEF EngineIInv, HeldStands, EngineStands
    <3>3. m.slotOf[h[1]] = eng.slotOf[h[1]]
      BY <1>8, <1>14, <3>1, <3>2
    <3>4. PICK key : key = <<m.slotOf[h[1]], h[2]>>
      OBVIOUS
    <3>5. key \in n.active
      BY <1>8, <2>1, <3>1, <3>2, <3>3, <3>4 DEF StillActive
    <3>6. ASSUME key \in Over(n, t, sight) PROVE FALSE
      <4>1. PICK w \in (VisibleIds(t) \X Conditions) \ sight : key = <<n.slotOf[w[1]], w[2]>>
        BY <3>6 DEF Over
      <4>2. w[1] \in VisibleIds(t) /\ w = <<w[1], w[2]>>
        BY <4>1
      <4>3. n.slotOf[w[1]] = m.slotOf[h[1]] /\ w[2] = h[2]
        BY <3>4, <4>1
      <4>4. w[1] = h[1]
        BY <1>14, <2>1, <4>2, <4>3
      <4> QED
        BY <2>1, <3>2, <4>1, <4>2, <4>3, <4>4
    <3> QED
      BY <1>14, <2>1, <3>2, <3>4, <3>5, <3>6
  <2> QED
    BY <2>1, <2>2, <2>3
<1>20. NotToldAgain
  <2> SUFFICES ASSUME NEW p \in events, <<p.id, p.kind>> \in held,
                      ~ Regressed(trk.stamp, frame)
               PROVE  \E j \in VisibleIds(t) \ {p.id} : m.slotOf[j] = m.slotOf[p.id]
    BY <1>4, <1>8, <1>12 DEF NotToldAgain
  <2>1. PICK h : h = <<p.id, p.kind>>
    OBVIOUS
  <2>2. /\ p.id \in DOMAIN eng.slotOf /\ p.kind \in Conditions
        /\ <<eng.slotOf[p.id], p.kind>> \in eng.active
    BY DEF EngineIInv, HeldStands, EngineStands
  <2>3. e = eng
    BY <1>6 DEF Remembered
  <2>4. n.slotOf[p.id] = eng.slotOf[p.id]
    BY <1>8, <2>2, <2>3
  <2>5. head = "moving" => p.kind \notin MotionEvents
    <3> SUFFICES ASSUME head = "moving", p.kind \in MotionEvents PROVE FALSE
      OBVIOUS
    <3>1. n.motion = <<>>
      BY <1>8 DEF Motion
    <3>2. p.id \in DOMAIN n.motion
      BY <1>17, <2>2
    <3> QED
      BY <3>1, <3>2
  <2>6. <<n.slotOf[p.id], p.kind>> \in n.active
    BY <1>8, <2>2, <2>3, <2>4, <2>5 DEF StillActive
  <2> QED
    BY <1>14, <1>17, <2>2, <2>6
<1> QED
  BY <1>16, <1>18, <1>19, <1>20 DEF EngineIInv

LEMMA NothingIsKnown ==
  ASSUME trk = NoTracks, eng = NoMemory, out = {}, rest = None, held = {}
  PROVE  EngineIInv
<1>1. EngineStands
  BY NoTracksStand, NoMemoryStands DEF EngineStands, NobodyForgottenIn, NoMemory
<1>2. HeadStands
  BY DEF HeadStands, MotionStands, NoMotionFromTheHead, NoMemory
<1>3. HeldStands
  BY DEF HeldStands
<1> QED
  BY <1>1, <1>2, <1>3 DEF EngineIInv

LEMMA EngineStep ==
  ASSUME EngineIInv, [MCNext]_<<vars, rest, held>>
  PROVE  EngineIInv' /\ [NotToldAgain]_<<vars, rest, held>>
<1>1. CASE AnswerFrame
  BY <1>1, AnswerKeeps
<1>2. CASE FailFrame
  <2>1. trk' = NoTracks /\ eng' = NoMemory /\ out' = {} /\ rest' = None /\ held' = {}
    BY <1>2 DEF FailFrame, Restart, StartOver
  <2>2. NotToldAgain
    BY <2>1 DEF NotToldAgain
  <2>3. EngineStands'
    BY <2>1, NoTracksStand, NoMemoryStands DEF EngineStands, NobodyForgottenIn, NoMemory
  <2>4. HeadStands' /\ HeldStands'
    BY <2>1 DEF HeadStands, MotionStands, NoMotionFromTheHead, NoMemory, HeldStands
  <2> QED
    BY <2>2, <2>3, <2>4 DEF EngineIInv
<1>3. CASE UNCHANGED <<vars, rest, held>>
  BY <1>3 DEF EngineIInv, EngineStands, HeadStands, HeldStands, NoMotionFromTheHead, vars
<1> QED
  BY <1>1, <1>2, <1>3 DEF MCNext

THEOREM EngineInvariance == MCSpec => []EngineIInv
<1>1. MCInit => EngineIInv
  BY NothingIsKnown DEF MCInit, Init, PersonInit, TrackInit
<1>2. EngineIInv /\ [MCNext]_<<vars, rest, held>> => EngineIInv'
  BY EngineStep
<1> QED
  BY <1>1, <1>2, PTL DEF MCSpec

(* Everybody in the picture has a slot, what is told of a slot is told of  *)
(* one that exists, and who was told of and is gone for left_lost_ms has   *)
(* been reported as left, unless another departure is still cooling down   *)
(* (EventEngine.update of engine.py).                                      *)
THEOREM EverybodyIsKnown == MCSpec => []KnowsEverybody
<1>1. EngineIInv => KnowsEverybody
  <2> SUFFICES ASSUME EngineIInv PROVE KnowsEverybody
    OBVIOUS
  <2>1. EngineStands
    BY DEF EngineIInv
  <2>2. TypeOK
    BY <2>1 DEF TypeOK, EngineStands, MemoryStands, SlotsStand
  <2>3. NobodyIsForgotten
    BY <2>1 DEF EngineStands, NobodyForgottenIn, NobodyIsForgotten
  <2> QED
    BY <2>2, <2>3 DEF KnowsEverybody
<1> QED
  BY <1>1, EngineInvariance, PTL

(* A robot that turns its head sees everybody move: what it says about     *)
(* motion rests on frames taken with the head at rest, for as long as the  *)
(* motion takes (_observe_tracks of engine.py forgets how people moved).   *)
THEOREM MotionOnlyAtRest == MCSpec => []NoMotionFromTheHead
<1>1. EngineIInv => NoMotionFromTheHead
  BY DEF EngineIInv, HeadStands
<1> QED
  BY <1>1, EngineInvariance, PTL

(* Rising edge: what was told of a person is not told again while it goes  *)
(* on, whatever the cooldown (_active_conditions of engine.py).            *)
THEOREM ToldOnTheRise == MCSpec => ToldOnce
<1>1. EngineIInv /\ [MCNext]_<<vars, rest, held>> => [NotToldAgain]_<<vars, rest, held>>
  BY EngineStep
<1>2. MCSpec => [][NotToldAgain]_<<vars, rest, held>>
  BY <1>1, EngineInvariance, PTL DEF MCSpec
<1> QED
  BY <1>2 DEF ToldOnce, NotToldAgain
=============================================================================
