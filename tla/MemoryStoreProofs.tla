------------------------- MODULE MemoryStoreProofs -------------------------
(***************************************************************************)
(* Safety of MemoryStore for any faces and likenesses, any number of       *)
(* streams, people and strangers, and any window of the retriever.         *)
(***************************************************************************)
EXTENDS MCMemoryStore, FiniteSetTheorems, TLAPS

Vectors == [owner : People, from : 0..MaxAnons, face : Faces]
AnonVectorRecords == [owner : Anons, face : Faces]
Rows == [status : {"none", "active", "merged"}, seen : Int, into : 0..MaxPeople,
         face : Faces \cup {None}]
MatchRows == [vector : Vectors, face : Faces]
QueryStates ==
    [pc : {"idle", "person", "known", "anonymous", "create", "embed", "profile", "update"},
     todo : Seq(Faces), met : SUBSET Anons, match : {None} \cup Vectors \cup Anons, seen : Int]
TeachStates ==
    [pc : {"idle", "anonymous", "profile", "link", "write", "commit"},
     face : Faces \cup {None}, name : Names \cup {None}, ref : Refs \cup {None},
     match : Anons \cup {None}, id : 0..MaxPeople]

Shapes ==
    /\ person \in [People -> Names \cup {None}]
    /\ vectors \subseteq Vectors
    /\ anon \in [Anons -> Rows]
    /\ link \in [Refs -> 0..MaxPeople]
    /\ denied \subseteq MatchRows /\ matches \subseteq MatchRows
    /\ crops \subseteq People
    /\ query \in [Streams -> QueryStates]
    /\ teach \in TeachStates
    /\ sightings \in [Anons -> Int]
    /\ mishaps \in Nat

(* What a vector came from is a profile that was merged, with its face in  *)
(* it; rows refer to people who have a name.                               *)
VectorsStand ==
    \A v \in vectors :
        /\ person[v.owner] # None
        /\ v.from # 0 => anon[v.from].status = "merged" /\ anon[v.from].face = v.face

ProfilesStand ==
    \A a \in Anons :
        /\ anon[a].status = "none" => anon[a].face = None
        /\ anon[a].status = "merged" => anon[a].into # 0 /\ person[anon[a].into] # None

LinksStand == \A r \in Refs : link[r] # 0 => person[link[r]] # None

MatchesStand == denied \subseteq matches /\ \A m \in matches : m.vector \in vectors

Counted ==
    \A a \in Anons : /\ 0 <= anon[a].seen
                     /\ anon[a].seen <= sightings[a] /\ sightings[a] <= FamiliarSeen

(* What a query has looked up is there, and what it has yet to store finds *)
(* its profile: nobody else adds the face of a profile just created.       *)
Stands(q) ==
    /\ q.pc # "idle" => q.todo # <<>>
    /\ q.pc = "known" => q.match \in vectors
    /\ q.pc \in {"embed", "profile", "update"} =>
         q.match \in Anons /\ anon[q.match].status # "none"
    /\ q.pc = "embed" => anon[q.match].face = None
    /\ q.pc = "update" => 0 <= q.seen /\ q.seen <= sightings[q.match]

QueriesStand == \A s \in Streams : Stands(query[s])

OneCreator ==
    \A s, t \in Streams : query[s].pc = "embed" /\ query[t].pc = "embed"
                          /\ query[s].match = query[t].match => s = t

(* A request that updates a person has one, with an account nobody has;    *)
(* one that commits a person brings an id and a crop nobody uses.          *)
TeachingStands ==
    /\ teach.pc # "idle" => teach.face \in Faces /\ teach.name \in Names
    /\ teach.pc \in {"profile", "link"} => teach.id \in People /\ person[teach.id] # None
    /\ teach.pc = "link" => teach.ref \in Refs /\ link[teach.ref] = 0
    /\ teach.pc = "commit" => /\ teach.id \in People /\ person[teach.id] = None
                              /\ teach.id \in crops

IInv ==
    /\ Shapes /\ VectorsStand /\ ProfilesStand /\ LinksStand /\ MatchesStand
    /\ Counted /\ QueriesStand /\ OneCreator /\ TeachingStands /\ CropsAccountedFor

-----------------------------------------------------------------------------
(* Lemmas on Min and on what the retriever returns                         *)

(* A nonempty set of naturals has a smallest member: the set of intervals  *)
(* 1..i has one.                                                           *)
LEMMA MinIsLeast ==
  ASSUME NEW S \in SUBSET Nat, S # {}
  PROVE  Min(S) \in S /\ \A j \in S : Min(S) <= j
<1> DEFINE T == {1..i : i \in S}
<1>1. T \subseteq FiniteSubsetsOf(Nat) /\ T # {}
  <2>1. \A i \in S : IsFiniteSet(1..i) /\ 1..i \subseteq Nat
    BY FS_Interval
  <2> QED
    BY <2>1 DEF FiniteSubsetsOf
<1>2. IsWellFoundedOn(StrictSubsetOrdering(Nat), FiniteSubsetsOf(Nat))
  BY FS_StrictSubsetOrderingWellFounded
<1>3. PICK x \in T : \A y \in T : ~ (<<y, x>> \in StrictSubsetOrdering(Nat))
  <2> HIDE DEF T
  <2> QED
    BY <1>1, <1>2, WFMin
<1>4. PICK i \in S : x = 1..i
  BY <1>3
<1>5. ASSUME NEW j \in S, j < i PROVE FALSE
  <2>1. 1..j \subseteq 1..i /\ 1..i \subseteq Nat /\ i \in 1..i /\ i \notin 1..j
    BY <1>5
  <2>2. <<1..j, 1..i>> \in StrictSubsetOrdering(Nat)
    BY <2>1 DEF StrictSubsetOrdering
  <2> QED
    BY <1>3, <1>4, <2>2
<1>6. \A j \in S : i <= j
  BY <1>5
<1> QED
  BY <1>6 DEF Min

LEMMA MinOfTwo ==
  ASSUME NEW x \in Int, NEW y \in Int
  PROVE  /\ Min({x, y}) \in Int /\ Min({x, y}) <= x /\ Min({x, y}) <= y
         /\ Min({x, y}) = x \/ Min({x, y}) = y
<1>1. \E z \in {x, y} : \A w \in {x, y} : z =< w
  BY DEF Min
<1> QED
  BY <1>1 DEF Min

(* A search looks at some of the vectors it is given ...                   *)
LEMMA NearestAreMembers ==
  ASSUME NEW E, NEW f, NEW k
  PROVE  \A F \in Nearest(E, f, k) : F \subseteq E
BY DEF Nearest, kSubset

(* ... and names one of them, or nothing.                                  *)
LEMMA PersonMatchIsVector ==
  ASSUME NEW E, NEW f, NEW D, NEW e \in PersonMatches(E, f, D, None), e # None
  PROVE  e \in E
<1>1. PICK F \in Nearest(E, f, Window + 1) :
        e \in UNION {ResultsOf(Verdicts(W \ D, f, Cardinality(F) > Window), None) :
                       W \in Nearest(F, f, Window)}
  BY DEF PersonMatches
<1>2. PICK W \in Nearest(F, f, Window) :
        e \in ResultsOf(Verdicts(W \ D, f, Cardinality(F) > Window), None)
  BY <1>1
<1>3. e \in Verdicts(W \ D, f, Cardinality(F) > Window)
  BY <1>2 DEF ResultsOf
<1>4. e \in W
  BY <1>3 DEF Verdicts, BestOf
<1> QED
  BY <1>4, NearestAreMembers

(* Of the profiles it names an active one.                                 *)
LEMMA AnonymousMatchIsActive ==
  ASSUME NEW E, NEW f, NEW A, NEW e \in AnonymousMatches(E, f, A, None), e # None
  PROVE  e \in E /\ e.owner \in A
<1> DEFINE found(F) == {d \in F : d.owner \in A}
           verdicts(F, W) == Verdicts(W, f, Cardinality(found(F)) > Window)
           vetoed(F, W) == {d \in verdicts(F, W) : InactiveBeats(F, A, d, f)}
<1>1. PICK F \in Nearest(E, f, Window + 1) :
        e \in UNION {ResultsOf(verdicts(F, W) \ vetoed(F, W), None)
                       \cup (IF vetoed(F, W) = {} THEN {} ELSE {None}) :
                       W \in Nearest(found(F), f, Window)}
  BY DEF AnonymousMatches
<1>2. PICK W \in Nearest(found(F), f, Window) :
        e \in ResultsOf(verdicts(F, W) \ vetoed(F, W), None)
  BY <1>1
<1>3. e \in verdicts(F, W)
  BY <1>2 DEF ResultsOf
<1>4. e \in W
  BY <1>3 DEF Verdicts, BestOf
<1>5. e \in found(F)
  BY <1>4, NearestAreMembers
<1> QED
  BY <1>5, NearestAreMembers

-----------------------------------------------------------------------------
(* Background queries                                                      *)

LEMMA NoQueryIsState == NoQuery \in QueryStates
BY DEF NoQuery, QueryStates

(* The moves of one stream's query, whatever they do to the tables.        *)
Moves(s, q) ==
    /\ q \in QueryStates
    /\ query' = [query EXCEPT ![s] = q]

LEMMA NextTargetMoves ==
  ASSUME Shapes, NEW s \in Streams, query[s].todo # <<>>, NEW met \in SUBSET Anons,
         NextTarget(s, met)
  PROVE  \E q \in QueryStates : /\ Moves(s, q)
                                /\ q.pc \in {"idle", "person"} /\ (q.pc # "idle" => q.todo # <<>>)
<1> DEFINE old == query[s]
           next == [NoQuery EXCEPT !.pc = "person", !.todo = Tail(old.todo), !.met = met]
<1>1. old \in QueryStates /\ old.todo \in Seq(Faces)
  BY DEF Shapes, QueryStates
<1>2. next \in QueryStates /\ next.pc = "person" /\ next.todo = Tail(old.todo)
  <2>1. Tail(old.todo) \in Seq(Faces)
    BY <1>1
  <2> QED
    BY <2>1, NoQueryIsState DEF QueryStates
<1>3. CASE Len(old.todo) = 1
  <2>1. query' = [query EXCEPT ![s] = NoQuery]
    BY <1>3 DEF NextTarget
  <2> QED
    BY <2>1, NoQueryIsState DEF Moves, NoQuery
<1>4. CASE Len(old.todo) # 1
  <2>1. query' = [query EXCEPT ![s] = next]
    BY <1>4 DEF NextTarget
  <2>2. Len(Tail(old.todo)) = Len(old.todo) - 1 /\ Len(old.todo) # 0
    BY <1>1
  <2>3. next.todo # <<>>
    <3>1. Len(old.todo) \in Nat /\ Len(Tail(old.todo)) # 0
      BY <1>1, <1>4, <2>2
    <3>2. Tail(old.todo) # <<>>
      <4> DEFINE rest == Tail(old.todo)
      <4>1. rest \in Seq(Faces) /\ Len(rest) # 0
        BY <1>1, <3>1
      <4> HIDE DEF rest
      <4>2. rest # <<>>
        BY <4>1
      <4> QED
        BY <4>2 DEF rest
    <3> HIDE DEF next
    <3> QED
      BY <1>2, <3>2
  <2> QED
    BY <1>2, <2>1, <2>3 DEF Moves
<1> QED
  BY <1>3, <1>4

LEMMA GotoMoves ==
  ASSUME Shapes, NEW s \in Streams, Goto(s, "anonymous") \/ Goto(s, "create")
  PROVE  \E q \in QueryStates : /\ Moves(s, q)
                                /\ q.pc \in {"anonymous", "create"} /\ q.todo = query[s].todo
<1>1. query[s] \in QueryStates
  BY DEF Shapes
<1>2. \A pc \in {"anonymous", "create"} : [query[s] EXCEPT !.pc = pc] \in QueryStates
  BY <1>1 DEF QueryStates
<1> QED
  BY <1>1, <1>2 DEF Goto, Moves, QueryStates

(* Other queries stand when tables only gain rows, and no face is put      *)
(* where another query is about to put one.                                *)
LEMMA OthersStand ==
  ASSUME IInv, NEW t \in Streams,
         vectors \subseteq vectors',
         \A a \in Anons : anon[a].status # "none" =>
             /\ anon'[a].status # "none" /\ sightings[a] <= sightings'[a],
         sightings' \in [Anons -> Int],
         query[t].pc = "embed" => anon'[query[t].match].face = anon[query[t].match].face,
         query'[t] = query[t]
  PROVE  Stands(query[t])'
<1>1. Stands(query[t]) /\ query[t].seen \in Int
  BY DEF IInv, QueriesStand, Shapes, QueryStates
<1>2. query[t].pc = "update" =>
        /\ query[t].match \in Anons /\ anon[query[t].match].status # "none"
        /\ 0 <= query[t].seen /\ query[t].seen <= sightings[query[t].match]
  BY <1>1 DEF Stands
<1>3. sightings \in [Anons -> Int]
  BY DEF IInv, Shapes
<1>4. query[t].pc = "update" => query[t].seen <= sightings'[query[t].match]
  BY <1>1, <1>2, <1>3
<1> QED
  BY <1>1, <1>2, <1>4 DEF Stands

LEMMA OneCreatorStays ==
  ASSUME IInv, NEW s \in Streams, NEW q \in QueryStates, Moves(s, q),
         q.pc = "embed" => \A t \in Streams : query[t].pc = "embed" => query[t].match # q.match
  PROVE  OneCreator'
<1>1. query \in [Streams -> QueryStates]
  BY DEF IInv, Shapes
<1>2. \A t \in Streams : query'[t] = IF t = s THEN q ELSE query[t]
  BY <1>1 DEF Moves
<1> QED
  BY <1>2 DEF IInv, OneCreator

(* A query that writes nothing.                                            *)
LEMMA LookingKeeps ==
  ASSUME IInv, NEW s \in Streams, NEW q \in QueryStates, Moves(s, q), q.pc # "embed",
         UNCHANGED <<tables, teach, mishaps>>,
         sightings' \in [Anons -> Int],
         \A a \in Anons : sightings[a] <= sightings'[a] /\ sightings'[a] <= FamiliarSeen,
         Stands(q)'
  PROVE  IInv'
<1>q. /\ query \in [Streams -> QueryStates] /\ query' \in [Streams -> QueryStates]
      /\ \A t \in Streams : query'[t] = IF t = s THEN q ELSE query[t]
  BY DEF IInv, Shapes, Moves
<1>1. Shapes'
  BY <1>q DEF IInv, Shapes, tables
<1>2. VectorsStand' /\ ProfilesStand' /\ LinksStand' /\ MatchesStand'
  BY DEF IInv, VectorsStand, ProfilesStand, LinksStand, MatchesStand, tables
<1>3. Counted'
  <2>1. \A a \in Anons : anon[a].seen \in Int /\ sightings[a] \in Int /\ sightings'[a] \in Int
    BY DEF IInv, Shapes, Rows
  <2> QED
    BY <2>1 DEF IInv, Counted, tables
<1>4. QueriesStand'
  <2>1. ASSUME NEW t \in Streams, t # s PROVE Stands(query[t])'
    BY <2>1, <1>q, OthersStand DEF tables
  <2>2. Stands(query[s])'
    BY <1>q DEF Stands
  <2> QED
    BY <2>1, <2>2 DEF QueriesStand
<1>5. OneCreator'
  BY OneCreatorStays
<1>6. TeachingStands'
  BY DEF IInv, TeachingStands, tables
<1>7. CropsAccountedFor'
  BY DEF IInv, CropsAccountedFor, tables
<1> QED
  BY <1>1, <1>2, <1>3, <1>4, <1>5, <1>6, <1>7 DEF IInv

LEMMA UnseenKeeps ==
  ASSUME IInv, NEW s \in Streams, NEW q \in QueryStates, Moves(s, q), q.pc # "embed",
         UNCHANGED <<tables, teach, mishaps, sightings>>, Stands(q)'
  PROVE  IInv'
<1>1. sightings' \in [Anons -> Int]
  BY DEF IInv, Shapes
<1>2. \A a \in Anons : sightings[a] <= sightings'[a] /\ sightings'[a] <= FamiliarSeen
  BY <1>1 DEF IInv, Counted
<1> QED
  BY <1>1, <1>2, LookingKeeps

LEMMA StartKeeps ==
  ASSUME IInv, NEW s \in Streams, NEW faces \in Pictures, StartQuery(s, faces)
  PROVE  IInv'
<1> DEFINE q == [NoQuery EXCEPT !.pc = "person", !.todo = faces]
<1>1. faces \in Seq(Faces) /\ faces # <<>>
  BY StoreAssumption
<1>2. q \in QueryStates /\ q.pc = "person" /\ q.todo = faces
  BY <1>1, NoQueryIsState DEF QueryStates
<1>3. Moves(s, q) /\ UNCHANGED <<tables, teach, mishaps, sightings>>
  BY <1>2 DEF StartQuery, Moves
<1> HIDE DEF q
<1>4. PICK r \in QueryStates : r = q
  BY <1>2
<1> QED
  BY <1>1, <1>2, <1>3, <1>4, UnseenKeeps DEF Stands

LEMMA QueryPersonKeeps ==
  ASSUME IInv, NEW s \in Streams, QueryPerson(s)
  PROVE  IInv'
<1>1. PICK e \in PersonMatches(vectors, Head(query[s].todo), Denied, None) :
        \/ e # None /\ query' = [query EXCEPT ![s].pc = "known", ![s].match = e]
        \/ e = None /\ Goto(s, "anonymous")
  BY DEF QueryPerson
<1>u. UNCHANGED <<tables, teach, mishaps, sightings>>
  BY DEF QueryPerson
<1>q. query[s] \in QueryStates /\ query \in [Streams -> QueryStates]
  BY DEF IInv, Shapes
<1>t. query[s].todo # <<>>
  BY DEF QueryPerson, IInv, QueriesStand, Stands
<1>2. CASE e # None /\ query' = [query EXCEPT ![s].pc = "known", ![s].match = e]
  <2>1. e \in vectors /\ e \in Vectors
    BY <1>2, PersonMatchIsVector DEF IInv, Shapes
  <2>2. PICK r : r = [query[s] EXCEPT !.pc = "known", !.match = e]
    OBVIOUS
  <2>3. r \in QueryStates /\ r.pc = "known" /\ r.match = e /\ r.todo = query[s].todo
    BY <1>q, <2>1, <2>2 DEF QueryStates
  <2>4. Moves(s, r)
    BY <1>2, <1>q, <2>2, <2>3 DEF Moves
  <2>5. Stands(r)'
    BY <1>t, <1>u, <2>1, <2>3 DEF Stands, tables
  <2> QED
    BY <1>u, <2>3, <2>4, <2>5, UnseenKeeps
<1>3. CASE e = None /\ Goto(s, "anonymous")
  <2>1. PICK r \in QueryStates : /\ Moves(s, r)
                                /\ r.pc \in {"anonymous", "create"} /\ r.todo = query[s].todo
    BY <1>3, GotoMoves DEF IInv
  <2> QED
    BY <1>t, <1>u, <2>1, UnseenKeeps DEF Stands
<1> QED
  BY <1>1, <1>2, <1>3

LEMMA SkipKeeps ==
  ASSUME IInv, NEW s \in Streams, SkipTarget(s)
  PROVE  IInv'
<1>1. query[s].todo # <<>> /\ query[s].met \in SUBSET Anons
  BY DEF SkipTarget, IInv, Shapes, QueryStates, QueriesStand, Stands
<1>2. PICK r \in QueryStates : /\ Moves(s, r)
                              /\ r.pc \in {"idle", "person"} /\ (r.pc # "idle" => r.todo # <<>>)
  BY <1>1, NextTargetMoves DEF SkipTarget, IInv
<1> QED
  BY <1>2, UnseenKeeps DEF SkipTarget, Stands

LEMMA FailsKeeps ==
  ASSUME IInv, NEW s \in Streams, QueryFails(s)
  PROVE  IInv'
<1>1. PICK r : r = NoQuery
  OBVIOUS
<1>2. r \in QueryStates /\ r.pc = "idle"
  BY <1>1, NoQueryIsState DEF NoQuery
<1>3. Moves(s, r)
  BY <1>1, <1>2 DEF QueryFails, Moves
<1> QED
  BY <1>2, <1>3, UnseenKeeps DEF QueryFails, Stands

LEMMA QueryAnonymousKeeps ==
  ASSUME IInv, NEW s \in Streams, QueryAnonymous(s)
  PROVE  IInv'
<1>1. PICK e \in AnonymousMatches(AnonVectors, Head(query[s].todo), Active, None) :
        \/ e = None /\ Goto(s, "create")
        \/ e # None /\ query' = [query EXCEPT ![s].pc = "profile", ![s].match = e.owner]
  BY DEF QueryAnonymous
<1>u. UNCHANGED <<tables, teach, mishaps, sightings>>
  BY DEF QueryAnonymous
<1>q. query[s] \in QueryStates /\ query \in [Streams -> QueryStates]
  BY DEF IInv, Shapes
<1>t. query[s].todo # <<>>
  BY DEF QueryAnonymous, IInv, QueriesStand, Stands
<1>2. CASE e # None /\ query' = [query EXCEPT ![s].pc = "profile", ![s].match = e.owner]
  <2>1. e.owner \in Anons /\ anon[e.owner].status = "active"
    BY <1>2, AnonymousMatchIsActive DEF Active
  <2>2. PICK r : r = [query[s] EXCEPT !.pc = "profile", !.match = e.owner]
    OBVIOUS
  <2>3. r \in QueryStates /\ r.pc = "profile" /\ r.match = e.owner /\ r.todo = query[s].todo
    BY <1>q, <2>1, <2>2 DEF QueryStates
  <2>4. Moves(s, r)
    BY <1>2, <1>q, <2>2, <2>3 DEF Moves
  <2>5. Stands(r)'
    BY <1>t, <1>u, <2>1, <2>3 DEF Stands, tables
  <2> QED
    BY <1>u, <2>3, <2>4, <2>5, UnseenKeeps
<1>3. CASE e = None /\ Goto(s, "create")
  <2>1. PICK r \in QueryStates : /\ Moves(s, r)
                                /\ r.pc \in {"anonymous", "create"} /\ r.todo = query[s].todo
    BY <1>3, GotoMoves DEF IInv
  <2> QED
    BY <1>t, <1>u, <2>1, UnseenKeeps DEF Stands
<1> QED
  BY <1>1, <1>2, <1>3

LEMMA ReadKeeps ==
  ASSUME IInv, NEW s \in Streams, ReadAnonymousProfile(s)
  PROVE  IInv'
<1> DEFINE a == query[s].match
           seen == Min({anon[a].seen + 1, FamiliarSeen})
           met == query[s].met
<1>u. UNCHANGED <<tables, teach, mishaps>>
  BY DEF ReadAnonymousProfile
<1>q. query[s] \in QueryStates /\ query \in [Streams -> QueryStates] /\ Stands(query[s])
  BY DEF IInv, Shapes, QueriesStand
<1>t. query[s].todo # <<>> /\ a \in Anons /\ anon[a].status # "none" /\ met \in SUBSET Anons
  BY <1>q DEF ReadAnonymousProfile, Stands, QueryStates
<1>n. /\ sightings \in [Anons -> Int] /\ FamiliarSeen \in Int /\ FamiliarSeen > 0
      /\ \A b \in Anons : anon[b].seen \in Int
  BY StoreAssumption DEF IInv, Shapes, Rows
<1>1. CASE Counts(s, a)
  <2>1. /\ query' = [query EXCEPT ![s].pc = "update", ![s].met = @ \cup {a}, ![s].seen = seen]
        /\ sightings' = [sightings EXCEPT ![a] = IF a \in met THEN @ ELSE Min({@ + 1, FamiliarSeen})]
    BY <1>1 DEF ReadAnonymousProfile
  <2>2. a \notin met
    BY <1>1 DEF Counts
  <2>3. /\ seen \in Int /\ seen <= anon[a].seen + 1 /\ seen <= FamiliarSeen
        /\ seen = anon[a].seen + 1 \/ seen = FamiliarSeen
    <3>1. PICK x \in Int : x = anon[a].seen + 1
      BY <1>n, <1>t
    <3>2. seen = Min({x, FamiliarSeen})
      BY <3>1
    <3> HIDE DEF seen
    <3> QED
      BY <1>n, <3>1, <3>2, MinOfTwo
  <2>x. PICK x \in Int : x = sightings[a] + 1
    BY <1>n, <1>t
  <2>4. PICK n \in Int : n = Min({x, FamiliarSeen})
    BY <1>n, MinOfTwo
  <2>5. n <= FamiliarSeen /\ (n = sightings[a] + 1 \/ n = FamiliarSeen)
    BY <1>n, <2>x, <2>4, MinOfTwo
  <2>6. sightings' = [sightings EXCEPT ![a] = n]
    BY <1>n, <1>t, <2>1, <2>2, <2>x, <2>4
  <2>c. /\ 0 <= anon[a].seen /\ anon[a].seen <= sightings[a]
        /\ \A b \in Anons : sightings[b] <= FamiliarSeen
    BY <1>t DEF IInv, Counted
  <2>7. seen <= n /\ 0 <= seen /\ sightings[a] <= n
    <3> HIDE DEF a, seen
    <3> QED
      BY <1>n, <1>t, <2>3, <2>5, <2>c
  <2>8. PICK r : r = [query[s] EXCEPT !.pc = "update", !.met = @ \cup {a}, !.seen = seen]
    OBVIOUS
  <2>9. r \in QueryStates /\ r.pc = "update" /\ r.match = a /\ r.todo = query[s].todo /\ r.seen = seen
    <3>1. [query[s] EXCEPT !.pc = "update", !.met = @ \cup {a}, !.seen = seen] \in QueryStates
      <4> HIDE DEF a, seen
      <4> QED
        BY <1>q, <1>t, <2>3 DEF QueryStates
    <3>2. r.pc = "update" /\ r.match = a /\ r.todo = query[s].todo /\ r.seen = seen
      BY <1>q, <2>8 DEF QueryStates
    <3> QED
      BY <2>8, <3>1, <3>2
  <2>10. Moves(s, r)
    <3> HIDE DEF a, seen
    <3> QED
      BY <1>q, <2>1, <2>8, <2>9 DEF Moves
  <2>11. /\ sightings' \in [Anons -> Int]
         /\ \A b \in Anons : sightings[b] <= sightings'[b] /\ sightings'[b] <= FamiliarSeen
    <3> HIDE DEF a
    <3> QED
      BY <1>n, <1>t, <2>5, <2>6, <2>7, <2>c
  <2>12. Stands(r)'
    <3>1. sightings'[a] = n
      BY <1>n, <1>t, <2>6
    <3> HIDE DEF a, seen
    <3> QED
      BY <1>t, <1>u, <2>7, <2>9, <3>1 DEF Stands, tables
  <2> QED
    BY <1>u, <2>9, <2>10, <2>11, <2>12, LookingKeeps
<1>2. CASE ~ Counts(s, a)
  <2>1. NextTarget(s, met) /\ UNCHANGED sightings
    BY <1>2 DEF ReadAnonymousProfile
  <2>2. PICK r \in QueryStates : /\ Moves(s, r)
                                /\ r.pc \in {"idle", "person"} /\ (r.pc # "idle" => r.todo # <<>>)
    BY <1>t, <2>1, NextTargetMoves DEF IInv
  <2> QED
    BY <1>u, <2>1, <2>2, UnseenKeeps DEF Stands
<1> QED
  BY <1>1, <1>2

(* The queries' own writes to the tables.                                  *)
LEMMA KnownKeeps ==
  ASSUME IInv, NEW s \in Streams, KnownPerson(s)
  PROVE  IInv'
<1>q. query[s] \in QueryStates /\ query \in [Streams -> QueryStates] /\ Stands(query[s])
  BY DEF IInv, Shapes, QueriesStand
<1>t. query[s].todo # <<>> /\ query[s].met \in SUBSET Anons /\ query[s].match \in vectors
      /\ query[s].todo \in Seq(Faces)
  BY <1>q DEF KnownPerson, Stands, QueryStates
<1>u. UNCHANGED <<person, vectors, anon, link, denied, crops, teach, sightings, mishaps>>
  BY DEF KnownPerson
<1>1. \E r \in QueryStates : /\ Moves(s, r)
                             /\ r.pc \in {"idle", "person"} /\ (r.pc # "idle" => r.todo # <<>>)
  <2>1. CASE AfterEvent(s)
    BY <2>1, NoQueryIsState DEF AfterEvent, Moves, NoQuery
  <2>2. CASE NextTarget(s, query[s].met)
    BY <1>t, <2>2, NextTargetMoves DEF IInv
  <2> QED
    BY <2>1, <2>2 DEF KnownPerson
<1>2. PICK r \in QueryStates : /\ Moves(s, r)
                               /\ r.pc \in {"idle", "person"} /\ (r.pc # "idle" => r.todo # <<>>)
  BY <1>1
<1>3. matches \subseteq matches'
      /\ \A m \in matches' \ matches : m \in MatchRows /\ m.vector \in vectors
  <2>1. Head(query[s].todo) \in Faces
    BY <1>t
  <2>2. query[s].match \in Vectors
    BY <1>t DEF IInv, Shapes
  <2> QED
    BY <1>t, <2>1, <2>2 DEF KnownPerson, Recorded, MatchRows
<1>4. Shapes'
  <2>1. query' \in [Streams -> QueryStates]
    BY <1>q, <1>2 DEF Moves
  <2> QED
    BY <1>u, <1>3, <2>1 DEF IInv, Shapes
<1>5. VectorsStand' /\ ProfilesStand' /\ LinksStand' /\ Counted'
  BY <1>u DEF IInv, VectorsStand, ProfilesStand, LinksStand, Counted
<1>6. MatchesStand'
  BY <1>u, <1>3 DEF IInv, MatchesStand
<1>7. QueriesStand'
  <2>1. ASSUME NEW t \in Streams, t # s PROVE Stands(query[t])'
    <3>1. query'[t] = query[t]
      BY <1>q, <1>2, <2>1 DEF Moves
    <3>2. sightings \in [Anons -> Int] /\ \A a \in Anons : sightings[a] <= sightings[a]
      BY DEF IInv, Shapes
    <3> QED
      BY <1>u, <3>1, <3>2, OthersStand
  <2>2. Stands(query[s])'
    <3>1. query'[s] = r
      BY <1>q, <1>2 DEF Moves
    <3> QED
      BY <1>2, <3>1 DEF Stands
  <2> QED
    BY <2>1, <2>2 DEF QueriesStand
<1>8. OneCreator'
  BY <1>2, OneCreatorStays
<1>9. TeachingStands'
  BY <1>u DEF IInv, TeachingStands
<1>10. CropsAccountedFor'
  BY <1>u DEF IInv, CropsAccountedFor
<1> QED
  BY <1>4, <1>5, <1>6, <1>7, <1>8, <1>9, <1>10 DEF IInv

LEMMA CreateKeeps ==
  ASSUME IInv, NEW s \in Streams, CreateAnonymousProfile(s)
  PROVE  IInv'
<1>q. query[s] \in QueryStates /\ query \in [Streams -> QueryStates] /\ Stands(query[s])
  BY DEF IInv, Shapes, QueriesStand
<1>u. UNCHANGED <<person, vectors, link, denied, matches, crops, teach, mishaps>>
  BY DEF CreateAnonymousProfile
<1>m. FreeAnons \in SUBSET Nat /\ FreeAnons # {}
  BY StoreAssumption DEF CreateAnonymousProfile, FreeAnons, Anons
<1>1. PICK a \in FreeAnons : a = Min(FreeAnons)
  BY <1>m, MinIsLeast
<1>2. a \in Anons /\ anon[a].status = "none"
  BY DEF FreeAnons
<1>3. PICK row : row = [NoRow EXCEPT !.status = "active", !.seen = 1]
  OBVIOUS
<1>4. row \in Rows /\ row.status = "active" /\ row.seen = 1 /\ row.face = None
  <2>1. NoRow \in Rows /\ NoRow.face = None
    BY StoreAssumption DEF NoRow, Rows
  <2>2. [NoRow EXCEPT !.status = "active", !.seen = 1] \in Rows
    <3>1. PICK n : n = NoRow
      OBVIOUS
    <3>2. n \in Rows /\ 1 \in Int /\ "active" \in {"none", "active", "merged"}
      BY <2>1, <3>1
    <3>3. [n EXCEPT !.status = "active", !.seen = 1] \in Rows
      BY <3>2 DEF Rows
    <3> QED
      BY <3>1, <3>3
  <2>3. row.status = "active" /\ row.seen = 1 /\ row.face = None
    BY <1>3, <2>1 DEF NoRow
  <2> QED
    BY <1>3, <2>2, <2>3
<1>5. /\ anon' = [anon EXCEPT ![a] = row]
      /\ query' = [query EXCEPT ![s].pc = "embed", ![s].match = a]
      /\ sightings' = [sightings EXCEPT ![a] = 1]
  BY <1>1, <1>3 DEF CreateAnonymousProfile
<1>6. PICK r : r = [query[s] EXCEPT !.pc = "embed", !.match = a]
  OBVIOUS
<1>7. r \in QueryStates /\ r.pc = "embed" /\ r.match = a /\ r.todo = query[s].todo
  BY <1>q, <1>2, <1>6 DEF QueryStates
<1>8. Moves(s, r)
  BY <1>q, <1>5, <1>6, <1>7 DEF Moves
<1>s. /\ anon \in [Anons -> Rows] /\ sightings \in [Anons -> Int]
      /\ anon' \in [Anons -> Rows] /\ sightings' \in [Anons -> Int]
      /\ query' \in [Streams -> QueryStates]
  <2>1. anon \in [Anons -> Rows] /\ sightings \in [Anons -> Int]
    BY DEF IInv, Shapes
  <2>2. anon' \in [Anons -> Rows] /\ sightings' \in [Anons -> Int]
    BY <1>2, <1>4, <1>5, <2>1
  <2>3. query' \in [Streams -> QueryStates]
    BY <1>q, <1>7, <1>8 DEF Moves
  <2> QED
    BY <2>1, <2>2, <2>3
<1>a. /\ anon'[a] = row /\ sightings'[a] = 1
      /\ \A b \in Anons \ {a} : anon'[b] = anon[b] /\ sightings'[b] = sightings[b]
  BY <1>2, <1>5, <1>s
<1>9. Shapes'
  BY <1>u, <1>s DEF IInv, Shapes
<1>10. VectorsStand'
  <2>1. \A v \in vectors : v.from # 0 => v.from \in Anons
    BY DEF IInv, Shapes, Vectors, Anons
  <2> QED
    BY <1>u, <1>2, <1>a, <2>1 DEF IInv, VectorsStand
<1>11. ProfilesStand' /\ LinksStand' /\ MatchesStand'
  BY <1>u, <1>2, <1>4, <1>a DEF IInv, ProfilesStand, LinksStand, MatchesStand
<1>12. Counted'
  <2>1. FamiliarSeen \in Int /\ FamiliarSeen > 0
    BY StoreAssumption
  <2> QED
    BY <1>4, <1>a, <2>1 DEF IInv, Counted
<1>13. QueriesStand'
  <2>1. ASSUME NEW t \in Streams, t # s PROVE Stands(query[t])'
    <3>1. query'[t] = query[t]
      BY <1>q, <1>8, <2>1 DEF Moves
    <3>2. \A b \in Anons : anon[b].status # "none" =>
             anon'[b].status # "none" /\ sightings[b] <= sightings'[b]
      BY <1>2, <1>a, <1>s
    <3>3. query[t].pc = "embed" => anon'[query[t].match].face = anon[query[t].match].face
      BY <1>2, <1>a DEF IInv, QueriesStand, Stands
    <3> QED
      BY <1>u, <1>s, <3>1, <3>2, <3>3, OthersStand
  <2>2. Stands(query[s])'
    <3>1. query'[s] = r
      BY <1>q, <1>8 DEF Moves
    <3>2. query[s].todo # <<>>
      BY <1>q DEF CreateAnonymousProfile, Stands
    <3> QED
      BY <1>2, <1>4, <1>7, <1>a, <3>1, <3>2 DEF Stands
  <2> QED
    BY <2>1, <2>2 DEF QueriesStand
<1>14. OneCreator'
  <2>1. \A t \in Streams : query[t].pc = "embed" => query[t].match # a
    BY <1>2 DEF IInv, QueriesStand, Stands
  <2> QED
    BY <1>7, <1>8, <2>1, OneCreatorStays
<1>15. TeachingStands' /\ CropsAccountedFor'
  BY <1>u DEF IInv, TeachingStands, CropsAccountedFor
<1> QED
  BY <1>9, <1>10, <1>11, <1>12, <1>13, <1>14, <1>15 DEF IInv

LEMMA EmbeddingKeeps ==
  ASSUME IInv, NEW s \in Streams, AddAnonymousEmbedding(s)
  PROVE  IInv'
<1>q. query[s] \in QueryStates /\ query \in [Streams -> QueryStates] /\ Stands(query[s])
  BY DEF IInv, Shapes, QueriesStand
<1>u. UNCHANGED <<person, vectors, link, denied, matches, crops, teach, sightings, mishaps>>
  BY DEF AddAnonymousEmbedding
<1>1. PICK a \in Anons : /\ a = query[s].match /\ anon[a].status # "none"
                         /\ anon[a].face = None
  BY <1>q DEF AddAnonymousEmbedding, Stands
<1>2. PICK f \in Faces : f = Head(query[s].todo)
  BY <1>q DEF AddAnonymousEmbedding, Stands, QueryStates
<1>3. anon' = [anon EXCEPT ![a].face = f] /\ query[s].pc = "embed"
  BY <1>1, <1>2 DEF AddAnonymousEmbedding
<1>4. PICK r \in QueryStates : /\ Moves(s, r)
                               /\ r.pc \in {"idle", "person"} /\ (r.pc # "idle" => r.todo # <<>>)
  <2>1. query[s].todo # <<>> /\ query[s].met \cup {a} \in SUBSET Anons
    BY <1>q, <1>3 DEF Stands, QueryStates
  <2>2. NextTarget(s, query[s].met \cup {a})
    BY <1>1 DEF AddAnonymousEmbedding
  <2> QED
    BY <2>1, <2>2, NextTargetMoves DEF IInv
<1>s. anon \in [Anons -> Rows] /\ anon' \in [Anons -> Rows]
  <2>1. anon \in [Anons -> Rows]
    BY DEF IInv, Shapes
  <2>2. [anon[a] EXCEPT !.face = f] \in Rows
    BY <2>1 DEF Rows
  <2> QED
    BY <1>3, <2>1, <2>2
<1>a. /\ \A b \in Anons : /\ anon'[b].status = anon[b].status /\ anon'[b].seen = anon[b].seen
                          /\ anon'[b].into = anon[b].into
      /\ \A b \in Anons \ {a} : anon'[b] = anon[b]
  BY <1>3, <1>s DEF Rows
<1>5. Shapes'
  <2>1. query' \in [Streams -> QueryStates]
    BY <1>q, <1>4 DEF Moves
  <2> QED
    BY <1>u, <1>s, <2>1 DEF IInv, Shapes
<1>6. VectorsStand'
  <2>1. ASSUME NEW v \in vectors, v.from # 0
        PROVE  /\ v.from \in Anons /\ v.from # a /\ anon[v.from].status = "merged"
               /\ anon[v.from].face = v.face
    <3>1. v.from \in Anons /\ v.face \in Faces
      BY <2>1 DEF IInv, Shapes, Vectors, Anons
    <3>2. anon[v.from].status = "merged" /\ anon[v.from].face = v.face
      BY <2>1 DEF IInv, VectorsStand
    <3> QED
      BY <1>1, <3>1, <3>2, StoreAssumption
  <2> QED
    BY <1>u, <1>a, <2>1 DEF IInv, VectorsStand
<1>7. ProfilesStand' /\ LinksStand' /\ MatchesStand' /\ Counted'
  BY <1>u, <1>1, <1>a DEF IInv, ProfilesStand, LinksStand, MatchesStand, Counted
<1>8. QueriesStand'
  <2>1. ASSUME NEW t \in Streams, t # s PROVE Stands(query[t])'
    <3>1. query'[t] = query[t]
      BY <1>q, <1>4, <2>1 DEF Moves
    <3>2. sightings \in [Anons -> Int] /\ \A b \in Anons : sightings[b] <= sightings[b]
      BY DEF IInv, Shapes
    <3>3. query[t].pc = "embed" => query[t].match \in Anons /\ query[t].match # a
      BY <1>1, <1>3, <2>1 DEF IInv, OneCreator, QueriesStand, Stands
    <3>4. query[t].pc = "embed" => anon'[query[t].match].face = anon[query[t].match].face
      BY <1>a, <3>3
    <3> QED
      BY <1>u, <1>a, <3>1, <3>2, <3>4, OthersStand
  <2>2. Stands(query[s])'
    <3>1. query'[s] = r
      BY <1>q, <1>4 DEF Moves
    <3> QED
      BY <1>4, <3>1 DEF Stands
  <2> QED
    BY <2>1, <2>2 DEF QueriesStand
<1>9. OneCreator'
  BY <1>4, OneCreatorStays
<1>10. TeachingStands' /\ CropsAccountedFor'
  BY <1>u DEF IInv, TeachingStands, CropsAccountedFor
<1> QED
  BY <1>5, <1>6, <1>7, <1>8, <1>9, <1>10 DEF IInv

LEMMA UpdateKeeps ==
  ASSUME IInv, NEW s \in Streams, UpdateAnonymousProfile(s)
  PROVE  IInv'
<1>q. query[s] \in QueryStates /\ query \in [Streams -> QueryStates] /\ Stands(query[s])
  BY DEF IInv, Shapes, QueriesStand
<1>u. UNCHANGED <<person, vectors, link, denied, matches, crops, teach, sightings, mishaps>>
  BY DEF UpdateAnonymousProfile
<1>1. PICK a \in Anons : /\ a = query[s].match /\ anon[a].status # "none"
                         /\ 0 <= query[s].seen /\ query[s].seen <= sightings[a]
  BY <1>q DEF UpdateAnonymousProfile, Stands
<1>2. PICK n \in Int : n = query[s].seen
  BY <1>q DEF QueryStates
<1>3. anon' = [anon EXCEPT ![a].seen = n]
  BY <1>1, <1>2 DEF UpdateAnonymousProfile, Updated
<1>4. PICK r \in QueryStates : /\ Moves(s, r)
                               /\ r.pc \in {"idle", "person"} /\ (r.pc # "idle" => r.todo # <<>>)
  <2>1. query[s].todo # <<>> /\ query[s].met \in SUBSET Anons
    BY <1>q DEF UpdateAnonymousProfile, Stands, QueryStates
  <2>2. CASE AfterEvent(s)
    BY <2>2, NoQueryIsState DEF AfterEvent, Moves, NoQuery
  <2>3. CASE NextTarget(s, query[s].met)
    BY <2>1, <2>3, NextTargetMoves DEF IInv
  <2> QED
    BY <2>2, <2>3 DEF UpdateAnonymousProfile
<1>s. anon \in [Anons -> Rows] /\ anon' \in [Anons -> Rows]
  <2>1. anon \in [Anons -> Rows]
    BY DEF IInv, Shapes
  <2>2. [anon[a] EXCEPT !.seen = n] \in Rows
    BY <2>1 DEF Rows
  <2> QED
    BY <1>3, <2>1, <2>2
<1>a. /\ \A b \in Anons : /\ anon'[b].status = anon[b].status /\ anon'[b].face = anon[b].face
                          /\ anon'[b].into = anon[b].into
      /\ \A b \in Anons \ {a} : anon'[b] = anon[b]
      /\ anon'[a].seen = n
  BY <1>3, <1>s DEF Rows
<1>5. Shapes'
  <2>1. query' \in [Streams -> QueryStates]
    BY <1>q, <1>4 DEF Moves
  <2> QED
    BY <1>u, <1>s, <2>1 DEF IInv, Shapes
<1>6. VectorsStand'
  <2>1. \A v \in vectors : v.from # 0 => v.from \in Anons
    BY DEF IInv, Shapes, Vectors, Anons
  <2> QED
    BY <1>u, <1>a, <2>1 DEF IInv, VectorsStand
<1>7. ProfilesStand' /\ LinksStand' /\ MatchesStand'
  BY <1>u, <1>a DEF IInv, ProfilesStand, LinksStand, MatchesStand
<1>c. Counted'
  BY <1>u, <1>1, <1>2, <1>a DEF IInv, Counted
<1>8. QueriesStand'
  <2>1. ASSUME NEW t \in Streams, t # s PROVE Stands(query[t])'
    <3>1. query'[t] = query[t]
      BY <1>q, <1>4, <2>1 DEF Moves
    <3>2. sightings \in [Anons -> Int] /\ \A b \in Anons : sightings[b] <= sightings[b]
      BY DEF IInv, Shapes
    <3>3. query[t].pc = "embed" => anon'[query[t].match].face = anon[query[t].match].face
      BY <1>a DEF IInv, QueriesStand, Stands
    <3> QED
      BY <1>u, <1>a, <3>1, <3>2, <3>3, OthersStand
  <2>2. Stands(query[s])'
    <3>1. query'[s] = r
      BY <1>q, <1>4 DEF Moves
    <3> QED
      BY <1>4, <3>1 DEF Stands
  <2> QED
    BY <2>1, <2>2 DEF QueriesStand
<1>9. OneCreator'
  BY <1>4, OneCreatorStays
<1>10. TeachingStands' /\ CropsAccountedFor'
  BY <1>u DEF IInv, TeachingStands, CropsAccountedFor
<1> QED
  BY <1>5, <1>6, <1>7, <1>8, <1>9, <1>10, <1>c DEF IInv

-----------------------------------------------------------------------------
(* The handlers                                                            *)

(* Whose crops are those of a taught vector.                               *)
Kept == {v.owner : v \in {u \in vectors : u.from = 0}}

LEMMA PeopleAreFinite == IsFiniteSet(1..MaxPeople)
<1>1. MaxPeople \in Nat
  BY StoreAssumption
<1> QED
  BY <1>1, FS_Interval

LEMMA NoLess ==
  ASSUME NEW k \in Nat, NEW x \in Nat, NEW y \in Nat, x <= y
  PROVE  /\ k <= x => k <= y /\ k <= y + 1
         /\ k <= x + 1 => k <= y + 1
         /\ k <= x + 1 /\ x < y => k <= y + 0
OBVIOUS

LEMMA CropsStay ==
  ASSUME IInv, Kept' = Kept, crops' = crops, mishaps' \in Nat,
         mishaps <= mishaps',
         teach.pc = "commit" /\ teach'.pc # "commit" => mishaps < mishaps'
  PROVE  CropsAccountedFor'
<1>1. mishaps \in Nat /\ crops \subseteq People
  BY DEF IInv, Shapes
<1>2. PICK n : n = Cardinality(crops \ Kept)
  OBVIOUS
<1>3. n \in Nat
  <2>1. IsFiniteSet(1..MaxPeople)
    BY PeopleAreFinite
  <2>2. IsFiniteSet(crops \ Kept)
    BY <1>1, <2>1, FS_Subset DEF People
  <2> QED
    BY <1>2, <2>2, FS_CardinalityType
<1>4. Kept \subseteq crops /\ n <= mishaps + (IF teach.pc = "commit" THEN 1 ELSE 0)
  BY <1>2 DEF IInv, CropsAccountedFor, Kept
<1>5. n <= mishaps' + (IF teach'.pc = "commit" THEN 1 ELSE 0)
  <2>1. CASE teach.pc = "commit" /\ teach'.pc # "commit"
    <3>1. n <= mishaps + 1 /\ mishaps < mishaps'
      BY <1>4, <2>1
    <3>2. n <= mishaps' + 0
      BY <1>1, <1>3, <3>1, NoLess
    <3> QED
      BY <2>1, <3>2
  <2>2. CASE teach.pc # "commit"
    <3>1. n <= mishaps
      BY <1>1, <1>4, <2>2
    <3>2. n <= mishaps' /\ n <= mishaps' + 1
      BY <1>1, <1>3, <3>1, NoLess
    <3> QED
      BY <3>2
  <2>3. CASE teach'.pc = "commit"
    <3>1. n <= mishaps + 1
      BY <1>1, <1>3, <1>4
    <3>2. n <= mishaps' + 1
      BY <1>1, <1>3, <3>1, NoLess
    <3> QED
      BY <2>3, <3>2
  <2> QED
    BY <2>1, <2>2, <2>3
<1>6. Kept' \subseteq crops' /\ Cardinality(crops' \ Kept') = n
  BY <1>2, <1>4
<1> QED
  BY <1>5, <1>6 DEF CropsAccountedFor, Kept

LEMMA QueriesWait ==
  ASSUME IInv, UNCHANGED <<query, sightings>>, vectors \subseteq vectors',
         \A a \in Anons : anon[a].status # "none" =>
             anon'[a].status # "none" /\ anon'[a].face = anon[a].face
  PROVE  QueriesStand' /\ OneCreator'
<1>1. ASSUME NEW t \in Streams PROVE Stands(query[t])'
  <2>1. sightings \in [Anons -> Int] /\ \A b \in Anons : sightings[b] <= sightings[b]
    BY DEF IInv, Shapes
  <2>2. query[t].pc = "embed" => anon'[query[t].match].face = anon[query[t].match].face
    BY DEF IInv, QueriesStand, Stands
  <2> QED
    BY <2>1, <2>2, OthersStand
<1> QED
  BY <1>1 DEF QueriesStand, OneCreator, IInv

LEMMA NoTeachIsState == NoTeach \in TeachStates /\ NoTeach.pc = "idle"
BY StoreAssumption DEF NoTeach, TeachStates

(* A handler that writes nothing.                                          *)
LEMMA AskingKeeps ==
  ASSUME IInv, UNCHANGED <<tables, query, sightings, mishaps>>, teach' \in TeachStates,
         TeachingStands', teach.pc # "commit"
  PROVE  IInv'
<1>1. Shapes'
  BY DEF IInv, Shapes, tables
<1>2. VectorsStand' /\ ProfilesStand' /\ LinksStand' /\ MatchesStand' /\ Counted'
  BY DEF IInv, VectorsStand, ProfilesStand, LinksStand, MatchesStand, Counted, tables
<1>3. QueriesStand' /\ OneCreator'
  BY QueriesWait DEF tables
<1>4. CropsAccountedFor'
  <2>1. mishaps \in Nat /\ UNCHANGED <<vectors, crops, mishaps>>
    BY DEF IInv, Shapes, tables
  <2> QED
    BY <2>1, CropsStay DEF Kept
<1> QED
  BY <1>1, <1>2, <1>3, <1>4 DEF IInv

LEMMA TeachKeeps ==
  ASSUME IInv, NEW f \in Faces, NEW name \in Names, NEW ref \in Refs \cup {None},
         TeachPerson(f, name, ref)
  PROVE  IInv'
<1>u. UNCHANGED <<tables, query, sightings, mishaps>> /\ teach.pc = "idle"
  BY DEF TeachPerson
<1>1. PICK e \in PersonMatches(vectors, f, Denied, None) :
         \/ /\ e = None
            /\ teach' = [NoTeach EXCEPT !.pc = "anonymous", !.face = f, !.name = name, !.ref = ref]
         \/ /\ e # None /\ ~ TeachConflict(name, ref, e.owner)
            /\ teach' = [NoTeach EXCEPT !.pc = "profile", !.face = f, !.name = name,
                                        !.ref = ref, !.id = e.owner]
  BY DEF TeachPerson
<1>n. PICK n \in TeachStates : n = NoTeach
  BY NoTeachIsState
<1>2. CASE e = None
  <2>1. teach' = [n EXCEPT !.pc = "anonymous", !.face = f, !.name = name, !.ref = ref]
    BY <1>1, <1>2, <1>n
  <2>2. /\ teach' \in TeachStates
        /\ teach'.pc = "anonymous" /\ teach'.face = f /\ teach'.name = name
    BY <2>1 DEF TeachStates
  <2> QED
    BY <1>u, <2>2, AskingKeeps DEF TeachingStands
<1>3. CASE e # None
  <2>1. teach' = [n EXCEPT !.pc = "profile", !.face = f, !.name = name, !.ref = ref, !.id = e.owner]
    BY <1>1, <1>3, <1>n
  <2>2. e \in vectors
    BY <1>3, PersonMatchIsVector
  <2>3. e.owner \in People /\ e.owner \in 0..MaxPeople /\ person[e.owner] # None
    BY <2>2 DEF IInv, Shapes, Vectors, VectorsStand, People
  <2>4. /\ teach' \in TeachStates
        /\ teach'.pc = "profile" /\ teach'.face = f /\ teach'.name = name /\ teach'.id = e.owner
    BY <2>1, <2>3 DEF TeachStates
  <2>5. person' = person
    BY <1>u DEF tables
  <2> QED
    BY <1>u, <2>3, <2>4, <2>5, AskingKeeps DEF TeachingStands
<1> QED
  BY <1>2, <1>3

LEMMA TeachQueryKeeps ==
  ASSUME IInv, TeachQueryAnonymous
  PROVE  IInv'
<1>u. UNCHANGED <<tables, query, sightings, mishaps>> /\ teach.pc = "anonymous"
  BY DEF TeachQueryAnonymous
<1>1. PICK e \in AnonymousMatches(AnonVectors, teach.face, Active, None) :
         teach' = [teach EXCEPT !.pc = "write", !.match = IF e = None THEN None ELSE e.owner]
  BY DEF TeachQueryAnonymous
<1>2. PICK m \in Anons \cup {None} : m = IF e = None THEN None ELSE e.owner
  <2>1. e # None => e.owner \in Anons
    BY AnonymousMatchIsActive DEF Active
  <2> QED
    BY <2>1
<1>3. teach \in TeachStates /\ teach' = [teach EXCEPT !.pc = "write", !.match = m]
  BY <1>1, <1>2 DEF IInv, Shapes
<1>4. /\ teach' \in TeachStates
      /\ teach'.pc = "write" /\ teach'.face = teach.face /\ teach'.name = teach.name
  BY <1>3 DEF TeachStates
<1> QED
  BY <1>u, <1>4, AskingKeeps DEF TeachingStands, IInv

(* Naming a person again or linking an account leaves no row without the   *)
(* person it refers to.                                                    *)
LEMMA NamingStands ==
  ASSUME IInv, NEW p \in People, NEW name \in Names, person' = Upserted(p, name)
  PROVE  /\ person' \in [People -> Names \cup {None}] /\ person'[p] # None
         /\ \A q \in People : person[q] # None => person'[q] # None
         /\ \A q \in People \ {p} : person'[q] = person[q]
BY StoreAssumption DEF IInv, Shapes, Upserted

LEMMA LinkingStands ==
  ASSUME IInv, NEW ref \in Refs \cup {None}, NEW p \in People, link' = LinkedTo(ref, p),
         \A q \in People : person[q] # None => person'[q] # None, person'[p] # None
  PROVE  link' \in [Refs -> 0..MaxPeople] /\ LinksStand'
<1>1. link \in [Refs -> 0..MaxPeople] /\ p \in 0..MaxPeople
  BY DEF IInv, Shapes, People
<1>2. link' \in [Refs -> 0..MaxPeople]
  BY <1>1 DEF LinkedTo
<1>3. ASSUME NEW r \in Refs, link'[r] # 0 PROVE person'[link'[r]] # None
  <2>1. link'[r] = p \/ link'[r] = link[r]
    BY <1>1 DEF LinkedTo
  <2>2. link[r] # 0 => link[r] \in People /\ person[link[r]] # None
    BY <1>1 DEF IInv, LinksStand, People
  <2> QED
    BY <1>3, <2>1, <2>2
<1> QED
  BY <1>2, <1>3 DEF LinksStand

(* The rows of a database whose people only become more.                   *)
LEMMA PeopleStand ==
  ASSUME IInv, UNCHANGED <<vectors, anon>>,
         \A q \in People : person[q] # None => person'[q] # None
  PROVE  VectorsStand' /\ ProfilesStand'
<1>1. /\ \A v \in vectors : v.owner \in People
      /\ \A a \in Anons : anon[a].into # 0 => anon[a].into \in People
  BY DEF IInv, Shapes, Vectors, Rows, People
<1> QED
  BY <1>1 DEF IInv, VectorsStand, ProfilesStand

LEMMA UpdatePersonKeeps ==
  ASSUME IInv, UpdateExistingPerson
  PROVE  IInv'
<1>1. /\ teach.pc = "profile" /\ person' = Upserted(teach.id, teach.name)
      /\ UNCHANGED <<vectors, anon, link, denied, matches, crops, query, sightings, mishaps>>
  BY DEF UpdateExistingPerson
<1>2. teach.id \in People /\ teach.name \in Names /\ teach \in TeachStates
  BY <1>1 DEF IInv, TeachingStands, Shapes
<1>3. /\ person' \in [People -> Names \cup {None}] /\ person'[teach.id] # None
      /\ \A q \in People : person[q] # None => person'[q] # None
  BY <1>1, <1>2, NamingStands
<1>4. \/ teach' = NoTeach
      \/ /\ teach' = [teach EXCEPT !.pc = "link"]
         /\ teach.ref \in Refs /\ link[teach.ref] = 0
  BY <1>2 DEF UpdateExistingPerson, TeachStates
<1>5. teach' \in TeachStates /\ TeachingStands'
  <2>1. CASE teach' = NoTeach
    BY <2>1, NoTeachIsState DEF TeachingStands
  <2>2. CASE /\ teach' = [teach EXCEPT !.pc = "link"]
             /\ teach.ref \in Refs /\ link[teach.ref] = 0
    <3>1. /\ teach' \in TeachStates /\ teach'.pc = "link" /\ teach'.id = teach.id
          /\ teach'.face = teach.face /\ teach'.name = teach.name /\ teach'.ref = teach.ref
      BY <1>2, <2>2 DEF TeachStates
    <3>2. teach.face \in Faces
      BY <1>1 DEF IInv, TeachingStands
    <3> QED
      BY <1>1, <1>2, <1>3, <2>2, <3>1, <3>2 DEF TeachingStands
  <2> QED
    BY <1>4, <2>1, <2>2
<1>6. Shapes'
  BY <1>1, <1>3, <1>5 DEF IInv, Shapes
<1>7. VectorsStand' /\ ProfilesStand'
  BY <1>1, <1>3, PeopleStand
<1>8. LinksStand'
  <2>1. \A r \in Refs : link[r] # 0 => link[r] \in People
    BY DEF IInv, Shapes, People
  <2> QED
    BY <1>1, <1>3, <2>1 DEF IInv, LinksStand
<1>9. MatchesStand' /\ Counted'
  BY <1>1 DEF IInv, MatchesStand, Counted
<1>10. QueriesStand' /\ OneCreator'
  BY <1>1, QueriesWait
<1>11. CropsAccountedFor'
  <2>1. mishaps \in Nat /\ Kept' = Kept
    BY <1>1 DEF IInv, Shapes, Kept
  <2> QED
    BY <1>1, <2>1, CropsStay
<1> QED
  BY <1>5, <1>6, <1>7, <1>8, <1>9, <1>10, <1>11 DEF IInv

(* Only the links change: link_external_user, and the last step of         *)
(* teaching somebody known.                                                *)
LEMMA LinksKeep ==
  ASSUME IInv, NEW r \in Refs, NEW p \in People, person[p] # None,
         link' = [link EXCEPT ![r] = p], teach' \in {teach, NoTeach}, teach.pc \in {"idle", "link"},
         teach.pc = "link" => teach' = NoTeach,
         UNCHANGED <<person, vectors, anon, denied, matches, crops, query, sightings, mishaps>>
  PROVE  IInv'
<1>1. link' \in [Refs -> 0..MaxPeople] /\ LinksStand'
  <2>1. link \in [Refs -> 0..MaxPeople] /\ p \in 0..MaxPeople
    BY DEF IInv, Shapes, People
  <2> QED
    BY <2>1 DEF IInv, LinksStand
<1>2. teach' \in TeachStates /\ teach'.pc = "idle"
  BY NoTeachIsState DEF IInv, Shapes
<1>3. Shapes'
  BY <1>1, <1>2 DEF IInv, Shapes
<1>4. VectorsStand' /\ ProfilesStand' /\ MatchesStand' /\ Counted'
  BY DEF IInv, VectorsStand, ProfilesStand, MatchesStand, Counted
<1>5. QueriesStand' /\ OneCreator'
  BY QueriesWait
<1>6. TeachingStands'
  BY <1>2 DEF TeachingStands
<1>7. CropsAccountedFor'
  <2>1. mishaps \in Nat /\ Kept' = Kept
    BY DEF IInv, Shapes, Kept
  <2> QED
    BY <2>1, CropsStay
<1> QED
  BY <1>1, <1>3, <1>4, <1>5, <1>6, <1>7 DEF IInv

LEMMA LinkExistingKeeps ==
  ASSUME IInv, LinkExistingPerson
  PROVE  IInv'
<1>1. teach.ref \in Refs /\ teach.id \in People /\ person[teach.id] # None
  BY DEF LinkExistingPerson, IInv, TeachingStands
<1> QED
  BY <1>1, LinksKeep DEF LinkExistingPerson

LEMMA LinkExternalKeeps ==
  ASSUME IInv, NEW r \in Refs, NEW p \in People, LinkExternalUser(r, p)
  PROVE  IInv'
BY LinksKeep DEF LinkExternalUser

LEMMA CorrectKeeps ==
  ASSUME IInv, NEW m \in matches, CorrectIdentity(m)
  PROVE  IInv'
<1>1. /\ denied' = {d \in denied : d.vector # m.vector} \cup {m}
      /\ UNCHANGED <<person, vectors, anon, link, matches, crops, query, teach, sightings, mishaps>>
  BY DEF CorrectIdentity
<1>2. Shapes'
  BY <1>1 DEF IInv, Shapes
<1>3. VectorsStand' /\ ProfilesStand' /\ LinksStand' /\ Counted'
  BY <1>1 DEF IInv, VectorsStand, ProfilesStand, LinksStand, Counted
<1>4. MatchesStand' /\ TeachingStands'
  BY <1>1 DEF IInv, MatchesStand, TeachingStands
<1>5. QueriesStand' /\ OneCreator'
  BY <1>1, QueriesWait
<1>6. CropsAccountedFor'
  BY <1>1 DEF IInv, CropsAccountedFor
<1> QED
  BY <1>2, <1>3, <1>4, <1>5, <1>6 DEF IInv

(* A crash leaves the crop of the request it ended.                        *)
LEMMA CrashKeeps ==
  ASSUME IInv, Crash
  PROVE  IInv'
<1>1. /\ mishaps' = mishaps + 1 /\ query' = [s \in Streams |-> NoQuery] /\ teach' = NoTeach
      /\ UNCHANGED <<person, vectors, anon, link, denied, matches, crops, sightings>>
  BY DEF Crash, tables
<1>n. mishaps \in Nat /\ mishaps' \in Nat /\ mishaps < mishaps' /\ mishaps <= mishaps'
  BY <1>1 DEF IInv, Shapes
<1>2. Shapes'
  <2>1. query' \in [Streams -> QueryStates] /\ teach' \in TeachStates
    BY <1>1, NoQueryIsState, NoTeachIsState
  <2> QED
    BY <1>1, <1>n, <2>1 DEF IInv, Shapes
<1>3. VectorsStand' /\ ProfilesStand' /\ LinksStand' /\ MatchesStand' /\ Counted'
  BY <1>1 DEF IInv, VectorsStand, ProfilesStand, LinksStand, MatchesStand, Counted
<1>4. QueriesStand' /\ OneCreator'
  <2>1. \A s \in Streams : query'[s].pc = "idle"
    BY <1>1 DEF NoQuery
  <2> QED
    BY <2>1 DEF QueriesStand, Stands, OneCreator
<1>5. TeachingStands'
  BY <1>1, NoTeachIsState DEF TeachingStands
<1>6. CropsAccountedFor'
  <2>1. Kept' = Kept
    BY <1>1 DEF Kept
  <2> QED
    BY <1>1, <1>n, <2>1, CropsStay
<1> QED
  BY <1>2, <1>3, <1>4, <1>5, <1>6 DEF IInv

LEMMA CropsAreFinite ==
  ASSUME IInv
  PROVE  IsFiniteSet(crops \ Kept) /\ Cardinality(crops \ Kept) \in Nat
<1>1. IsFiniteSet(1..MaxPeople)
  BY PeopleAreFinite
<1>2. crops \ Kept \in SUBSET (1..MaxPeople)
  BY DEF IInv, Shapes, People
<1>3. IsFiniteSet(crops \ Kept)
  BY <1>1, <1>2, FS_Subset
<1> QED
  BY <1>3, FS_CardinalityType

LEMMA FreePersonIsFree ==
  ASSUME FreePeople # {}
  PROVE  Min(FreePeople) \in People /\ person[Min(FreePeople)] = None /\ Min(FreePeople) \notin crops
<1>1. FreePeople \in SUBSET Nat
  BY StoreAssumption DEF FreePeople, People
<1> QED
  BY <1>1, MinIsLeast DEF FreePeople

(* Whose crop is kept has a name.                                          *)
LEMMA KeptHaveNames ==
  ASSUME IInv
  PROVE  \A p \in Kept : person[p] # None
BY DEF IInv, VectorsStand, Kept

LEMMA WriteKeeps ==
  ASSUME IInv, WriteEmbeddingArtifact
  PROVE  IInv'
<1>1. PICK p \in People : p = Min(FreePeople) /\ person[p] = None /\ p \notin crops
  BY FreePersonIsFree DEF WriteEmbeddingArtifact
<1>2. /\ teach.pc = "write" /\ crops' = crops \cup {p}
      /\ teach' = [teach EXCEPT !.pc = "commit", !.id = p]
      /\ UNCHANGED <<person, vectors, anon, link, denied, matches, query, sightings, mishaps>>
  BY <1>1 DEF WriteEmbeddingArtifact
<1>3. teach \in TeachStates /\ p \in 0..MaxPeople
  BY DEF IInv, Shapes, People
<1>4. /\ teach' \in TeachStates /\ teach'.pc = "commit" /\ teach'.id = p
      /\ teach'.face = teach.face /\ teach'.name = teach.name
  BY <1>2, <1>3 DEF TeachStates
<1>5. Shapes'
  BY <1>2, <1>4 DEF IInv, Shapes
<1>6. VectorsStand' /\ ProfilesStand' /\ LinksStand' /\ MatchesStand' /\ Counted'
  BY <1>2 DEF IInv, VectorsStand, ProfilesStand, LinksStand, MatchesStand, Counted
<1>7. QueriesStand' /\ OneCreator'
  BY <1>2, QueriesWait
<1>8. TeachingStands'
  BY <1>1, <1>2, <1>4 DEF IInv, TeachingStands
<1>9. CropsAccountedFor'
  <2>1. Kept' = Kept /\ Kept \subseteq crops /\ Cardinality(crops \ Kept) <= mishaps + 0
    BY <1>2 DEF IInv, CropsAccountedFor, Kept
  <2>2. crops' \ Kept' = (crops \ Kept) \cup {p}
    BY <1>1, <1>2, <2>1
  <2>3. Cardinality(crops' \ Kept') = Cardinality(crops \ Kept) + 1
    BY <1>1, <2>2, CropsAreFinite, FS_AddElement
  <2>4. mishaps \in Nat /\ Cardinality(crops \ Kept) \in Nat
    BY CropsAreFinite DEF IInv, Shapes
  <2>5. Cardinality(crops' \ Kept') <= mishaps + 1
    <3> HIDE DEF Kept
    <3> QED
      BY <2>1, <2>3, <2>4
  <2> QED
    BY <1>2, <1>4, <2>1, <2>5 DEF CropsAccountedFor, Kept
<1> QED
  BY <1>5, <1>6, <1>7, <1>8, <1>9 DEF IInv

LEMMA FailTeachKeeps ==
  ASSUME IInv, FailTeach
  PROVE  IInv'
<1>1. PICK p \in People : p = teach.id /\ p \in crops /\ person[p] = None
  BY DEF FailTeach, IInv, TeachingStands
<1>2. /\ teach.pc = "commit" /\ teach' = NoTeach
      /\ UNCHANGED <<person, vectors, anon, link, denied, matches, query, sightings>>
      /\ \/ crops' = crops \ {p} /\ UNCHANGED mishaps
         \/ CropLeft
  BY <1>1 DEF FailTeach, WithoutCrop
<1>3. /\ mishaps \in Nat /\ mishaps' \in Nat /\ mishaps <= mishaps'
      /\ CropLeft => mishaps < mishaps' /\ crops' = crops
  BY <1>2 DEF CropLeft, IInv, Shapes
<1>4. teach' \in TeachStates /\ teach'.pc = "idle"
  BY <1>2, NoTeachIsState
<1>5. Shapes'
  BY <1>2, <1>3, <1>4 DEF IInv, Shapes
<1>6. VectorsStand' /\ ProfilesStand' /\ LinksStand' /\ MatchesStand' /\ Counted'
  BY <1>2 DEF IInv, VectorsStand, ProfilesStand, LinksStand, MatchesStand, Counted
<1>7. QueriesStand' /\ OneCreator'
  BY <1>2, QueriesWait
<1>8. TeachingStands'
  BY <1>4 DEF TeachingStands
<1>9. CASE CropLeft
  <2>1. Kept' = Kept
    BY <1>2 DEF Kept
  <2>2. CropsAccountedFor'
    <3> HIDE DEF Kept
    <3> QED
      BY <1>3, <1>9, <2>1, CropsStay
  <2> QED
    BY <1>5, <1>6, <1>7, <1>8, <2>2 DEF IInv
<1>10. CASE crops' = crops \ {p} /\ UNCHANGED mishaps
  <2>1. Kept' = Kept /\ Kept \subseteq crops /\ Cardinality(crops \ Kept) <= mishaps + 1
    BY <1>2 DEF IInv, CropsAccountedFor, Kept
  <2>2. p \notin Kept
    BY <1>1, KeptHaveNames
  <2>3. crops' \ Kept' = (crops \ Kept) \ {p} /\ p \in crops \ Kept
    BY <1>1, <1>10, <2>1, <2>2
  <2>4. Cardinality(crops' \ Kept') = Cardinality(crops \ Kept) - 1
    BY <2>3, CropsAreFinite, FS_RemoveElement
  <2>5. mishaps \in Nat /\ Cardinality(crops \ Kept) \in Nat
    BY CropsAreFinite DEF IInv, Shapes
  <2>6. Cardinality(crops' \ Kept') <= mishaps + 0
    <3> HIDE DEF Kept
    <3> QED
      BY <2>1, <2>4, <2>5
  <2>7. Kept' \subseteq crops'
    BY <1>10, <2>1, <2>2
  <2>8. CropsAccountedFor'
    BY <1>4, <1>10, <2>6, <2>7 DEF CropsAccountedFor, Kept
  <2> QED
    BY <1>5, <1>6, <1>7, <1>8, <2>8 DEF IInv
<1> QED
  BY <1>2, <1>9, <1>10

(* A profile that becomes a person: its vector is copied and its row says  *)
(* whom it became.                                                         *)
LEMMA MergingStands ==
  ASSUME IInv, NEW a \in Active, NEW p \in People, anon' = Merged(a, p),
         vectors \subseteq vectors',
         \A v \in vectors' \ (vectors \cup Copied(a, p)) :
           v \in Vectors /\ v.from = 0 /\ v.owner = p,
         \A q \in People : person[q] # None => person'[q] # None, person'[p] # None
  PROVE  /\ vectors' \subseteq Vectors /\ anon' \in [Anons -> Rows]
         /\ VectorsStand' /\ ProfilesStand'
         /\ \A b \in Anons : anon[b].status # "none" =>
              anon'[b].status # "none" /\ anon'[b].face = anon[b].face
         /\ \A b \in Anons : anon'[b].seen = anon[b].seen
<1>1. a \in Anons /\ anon[a].status = "active" /\ anon \in [Anons -> Rows] /\ p \in 0..MaxPeople
  BY DEF Active, IInv, Shapes, People
<1>2. [anon[a] EXCEPT !.status = "merged", !.into = p] \in Rows
  BY <1>1 DEF Rows
<1>3. anon' = [anon EXCEPT ![a] = [anon[a] EXCEPT !.status = "merged", !.into = p]]
  BY <1>1 DEF Merged
<1>4. anon' \in [Anons -> Rows]
  BY <1>1, <1>2, <1>3
<1>5. /\ \A b \in Anons \ {a} : anon'[b] = anon[b]
      /\ anon'[a].status = "merged" /\ anon'[a].into = p /\ anon'[a].face = anon[a].face
      /\ anon'[a].seen = anon[a].seen
  BY <1>1, <1>3 DEF Rows
<1>6. \A v \in Copied(a, p) : /\ v \in Vectors /\ v.owner = p /\ v.from = a
                             /\ v.face = anon[a].face
  <2>1. anon[a].face # None => anon[a].face \in Faces
    BY <1>1 DEF Rows
  <2>2. a \in 0..MaxAnons
    BY <1>1 DEF Anons
  <2> QED
    BY <2>1, <2>2 DEF Copied, Vectors
<1>7. vectors' \subseteq Vectors
  BY <1>6 DEF IInv, Shapes
<1>8. VectorsStand'
  <2>1. ASSUME NEW v \in vectors', v \in vectors
        PROVE  /\ person'[v.owner] # None
               /\ v.from # 0 => anon'[v.from].status = "merged" /\ anon'[v.from].face = v.face
    <3>1. v.owner \in People /\ (v.from # 0 => v.from \in Anons)
      BY <2>1 DEF IInv, Shapes, Vectors, Anons
    <3>2. /\ person[v.owner] # None
          /\ v.from # 0 => anon[v.from].status = "merged" /\ anon[v.from].face = v.face
      BY <2>1 DEF IInv, VectorsStand
    <3>3. v.from # 0 => anon'[v.from] = anon[v.from]
      BY <1>1, <1>5, <3>1, <3>2
    <3> QED
      BY <3>1, <3>2, <3>3
  <2>2. ASSUME NEW v \in vectors', v \in Copied(a, p)
        PROVE  /\ person'[v.owner] # None
               /\ v.from # 0 => anon'[v.from].status = "merged" /\ anon'[v.from].face = v.face
    BY <1>5, <1>6, <2>2
  <2> QED
    BY <2>1, <2>2 DEF VectorsStand
<1>9. ProfilesStand'
  <2>1. \A b \in Anons : anon[b].into # 0 => anon[b].into \in People
    BY <1>1 DEF Rows, People
  <2> QED
    BY <1>1, <1>5, <2>1 DEF IInv, ProfilesStand, People
<1> QED
  BY <1>1, <1>4, <1>5, <1>7, <1>8, <1>9

(* Vectors that were copied keep nobody's crop.                            *)
LEMMA CopiesKeepNoCrop ==
  ASSUME NEW a \in Anons, NEW p
  PROVE  \A v \in Copied(a, p) : v.from # 0
BY DEF Copied, Anons

LEMMA CommitKeeps ==
  ASSUME IInv, CommitTeach
  PROVE  IInv'
<1>1. PICK p \in People : p = teach.id /\ p \in crops /\ person[p] = None
  BY DEF CommitTeach, IInv, TeachingStands
<1>2. /\ teach.pc = "commit" /\ teach' = NoTeach
      /\ person' = Upserted(p, teach.name) /\ link' = LinkedTo(teach.ref, p)
      /\ UNCHANGED <<denied, matches, crops, query, sightings, mishaps>>
  BY <1>1 DEF CommitTeach
<1>3. teach.name \in Names /\ teach.face \in Faces /\ teach.ref \in Refs \cup {None}
  BY <1>2 DEF IInv, TeachingStands, Shapes, TeachStates
<1>4. /\ person' \in [People -> Names \cup {None}] /\ person'[p] # None
      /\ \A q \in People : person[q] # None => person'[q] # None
  BY <1>2, <1>3, NamingStands
<1>5. link' \in [Refs -> 0..MaxPeople] /\ LinksStand'
  BY <1>2, <1>3, <1>4, LinkingStands
<1>6. PICK v : v = Taught
  OBVIOUS
<1>7. v \in Vectors /\ v.from = 0 /\ v.owner = p
  <2>1. 0 \in 0..MaxAnons
    BY StoreAssumption
  <2> QED
    BY <1>1, <1>3, <1>6, <2>1 DEF Taught, Vectors
<1>8. PICK C : /\ vectors' = vectors \cup {v} \cup C /\ \A w \in C : w.from # 0
               /\ vectors' \subseteq Vectors /\ anon' \in [Anons -> Rows]
               /\ VectorsStand' /\ ProfilesStand'
               /\ \A b \in Anons : anon[b].status # "none" =>
                    anon'[b].status # "none" /\ anon'[b].face = anon[b].face
               /\ \A b \in Anons : anon'[b].seen = anon[b].seen
  <2>1. CASE teach.match = None
    <3>1. vectors' = vectors \cup {v} \cup {} /\ anon' = anon
      BY <1>6, <2>1 DEF CommitTeach
    <3>2. vectors' \subseteq Vectors /\ anon' \in [Anons -> Rows]
      BY <1>7, <3>1 DEF IInv, Shapes
    <3>3. VectorsStand'
      <4>1. \A w \in vectors : w.owner \in People
        BY DEF IInv, Shapes, Vectors
      <4> QED
        BY <1>4, <1>7, <3>1, <4>1 DEF IInv, VectorsStand
    <3>4. ProfilesStand'
      <4>1. \A a \in Anons : anon[a].into # 0 => anon[a].into \in People
        BY DEF IInv, Shapes, Rows, People
      <4> QED
        BY <1>4, <3>1, <4>1 DEF IInv, ProfilesStand
    <3>5. PICK D : D = {}
      OBVIOUS
    <3>6. vectors' = vectors \cup {v} \cup D /\ \A w \in D : w.from # 0
      BY <3>1, <3>5
    <3> QED
      BY <3>1, <3>2, <3>3, <3>4, <3>6
  <2>2. CASE teach.match # None
    <3>1. PICK a \in Active : a = teach.match
      BY <2>2 DEF CommitTeach
    <3>2. vectors' = vectors \cup {v} \cup Copied(a, p) /\ anon' = Merged(a, p)
      BY <1>1, <1>6, <2>2, <3>1 DEF CommitTeach
    <3>3. \A w \in vectors' \ (vectors \cup Copied(a, p)) :
             w \in Vectors /\ w.from = 0 /\ w.owner = p
      BY <1>7, <3>2
    <3>4. \A w \in Copied(a, p) : w.from # 0
      BY CopiesKeepNoCrop DEF Active
    <3>5. /\ vectors' \subseteq Vectors /\ anon' \in [Anons -> Rows]
          /\ VectorsStand' /\ ProfilesStand'
          /\ \A b \in Anons : anon[b].status # "none" =>
               anon'[b].status # "none" /\ anon'[b].face = anon[b].face
          /\ \A b \in Anons : anon'[b].seen = anon[b].seen
      BY <1>4, <3>2, <3>3, MergingStands
    <3> QED
      BY <3>2, <3>4, <3>5
  <2> QED
    BY <2>1, <2>2
<1>9. teach' \in TeachStates /\ teach'.pc = "idle"
  BY <1>2, NoTeachIsState
<1>10. Shapes'
  BY <1>2, <1>4, <1>5, <1>8, <1>9 DEF IInv, Shapes
<1>11. MatchesStand' /\ Counted'
  BY <1>2, <1>8 DEF IInv, MatchesStand, Counted
<1>12. QueriesStand' /\ OneCreator'
  BY <1>2, <1>8, QueriesWait
<1>13. TeachingStands'
  BY <1>9 DEF TeachingStands
<1>14. CropsAccountedFor'
  <2>1. Kept \subseteq crops /\ Cardinality(crops \ Kept) <= mishaps + 1
    BY <1>2 DEF IInv, CropsAccountedFor, Kept
  <2>2. p \notin Kept
    BY <1>1, KeptHaveNames
  <2>3. Kept' = Kept \cup {p}
    BY <1>7, <1>8 DEF Kept
  <2>4. crops' \ Kept' = (crops \ Kept) \ {p} /\ p \in crops \ Kept
    BY <1>1, <1>2, <2>2, <2>3
  <2>5. Cardinality(crops' \ Kept') = Cardinality(crops \ Kept) - 1
    BY <2>4, CropsAreFinite, FS_RemoveElement
  <2>6. mishaps \in Nat /\ Cardinality(crops \ Kept) \in Nat
    BY CropsAreFinite DEF IInv, Shapes
  <2>7. Cardinality(crops' \ Kept') <= mishaps + 0
    <3> HIDE DEF Kept
    <3> QED
      BY <2>1, <2>5, <2>6
  <2>8. Kept' \subseteq crops'
    BY <1>1, <1>2, <2>1, <2>3
  <2> QED
    BY <1>2, <1>9, <2>7, <2>8 DEF CropsAccountedFor, Kept
<1> QED
  BY <1>5, <1>8, <1>10, <1>11, <1>12, <1>13, <1>14 DEF IInv

LEMMA MergeKeeps ==
  ASSUME IInv, NEW a \in Anons, NEW p \in People, NEW name \in Names \cup {None},
         NEW ref \in Refs \cup {None}, MergeAnonymousPerson(a, p, name, ref)
  PROVE  IInv'
<1>1. /\ teach.pc = "idle" /\ a \in Active /\ link' = LinkedTo(ref, p)
      /\ vectors' = vectors \cup Copied(a, p) /\ anon' = Merged(a, p)
      /\ UNCHANGED <<denied, matches, crops, query, teach, sightings, mishaps>>
  BY DEF MergeAnonymousPerson
<1>2. /\ person' \in [People -> Names \cup {None}] /\ person'[p] # None
      /\ \A q \in People : person[q] # None => person'[q] # None
  <2>1. CASE name = None
    BY <2>1 DEF MergeAnonymousPerson, IInv, Shapes
  <2>2. CASE name # None
    <3>1. name \in Names /\ person' = Upserted(p, name)
      BY <2>2 DEF MergeAnonymousPerson
    <3> QED
      BY <3>1, NamingStands
  <2> QED
    BY <2>1, <2>2
<1>3. link' \in [Refs -> 0..MaxPeople] /\ LinksStand'
  BY <1>1, <1>2, LinkingStands
<1>4. /\ vectors' \subseteq Vectors /\ anon' \in [Anons -> Rows]
      /\ VectorsStand' /\ ProfilesStand'
      /\ \A b \in Anons : anon[b].status # "none" =>
           anon'[b].status # "none" /\ anon'[b].face = anon[b].face
      /\ \A b \in Anons : anon'[b].seen = anon[b].seen
  BY <1>1, <1>2, MergingStands
<1>5. Shapes'
  BY <1>1, <1>2, <1>3, <1>4 DEF IInv, Shapes
<1>6. MatchesStand' /\ Counted'
  BY <1>1, <1>4 DEF IInv, MatchesStand, Counted
<1>7. QueriesStand' /\ OneCreator'
  BY <1>1, <1>4, QueriesWait
<1>8. TeachingStands'
  BY <1>1 DEF IInv, TeachingStands
<1>9. CropsAccountedFor'
  <2>1. \A w \in Copied(a, p) : w.from # 0
    BY CopiesKeepNoCrop
  <2>2. Kept' = Kept
    BY <1>1, <2>1 DEF Kept
  <2>3. mishaps \in Nat /\ mishaps <= mishaps
    BY DEF IInv, Shapes
  <2> QED
    BY <1>1, <2>2, <2>3, CropsStay
<1> QED
  BY <1>3, <1>4, <1>5, <1>6, <1>7, <1>8, <1>9 DEF IInv

-----------------------------------------------------------------------------

LEMMA InitIInv == Init => IInv
<1> SUFFICES ASSUME Init PROVE IInv
  OBVIOUS
<1>n. MaxPeople \in Nat /\ MaxAnons \in Nat /\ FamiliarSeen \in Nat /\ FamiliarSeen > 0
  BY StoreAssumption
<1>1. anon \in [Anons -> Rows]
  <2>1. NoRow \in Rows
    BY <1>n DEF NoRow, Rows
  <2>2. \A f \in Faces : [status |-> "active", seen |-> FamiliarSeen, into |-> 0, face |-> f] \in Rows
    BY <1>n DEF Rows
  <2> QED
    BY <2>1, <2>2 DEF Init, Strangers
<1>2. \A a \in Anons : \/ anon[a] = NoRow
                       \/ /\ anon[a].status = "active" /\ anon[a].seen = FamiliarSeen
                          /\ anon[a].face \in Faces
  BY DEF Init, Strangers
<1>3. sightings = [a \in Anons |-> anon[a].seen]
  BY DEF Init
<1>4. Shapes
  <2>1. sightings \in [Anons -> Int]
    BY <1>1, <1>3 DEF Rows
  <2>2. query \in [Streams -> QueryStates] /\ teach \in TeachStates
    BY NoQueryIsState, NoTeachIsState DEF Init
  <2> QED
    BY <1>1, <1>n, <2>1, <2>2 DEF Init, Shapes
<1>5. VectorsStand /\ LinksStand /\ MatchesStand
  BY DEF Init, VectorsStand, LinksStand, MatchesStand
<1>6. ProfilesStand
  BY <1>2 DEF ProfilesStand, NoRow
<1>7. Counted
  <2>1. \A a \in Anons : anon[a].seen = 0 \/ anon[a].seen = FamiliarSeen
    BY <1>2 DEF NoRow
  <2>2. \A a \in Anons : sightings[a] = anon[a].seen
    BY <1>3
  <2> QED
    BY <1>n, <2>1, <2>2 DEF Counted
<1>8. QueriesStand /\ OneCreator
  <2>1. \A s \in Streams : query[s].pc = "idle"
    BY DEF Init, NoQuery
  <2> QED
    BY <2>1 DEF QueriesStand, Stands, OneCreator
<1>9. TeachingStands
  BY NoTeachIsState DEF Init, TeachingStands
<1>10. CropsAccountedFor
  <2>1. crops = {} /\ mishaps = 0 /\ vectors = {} /\ teach.pc = "idle"
    BY NoTeachIsState DEF Init
  <2>2. {v.owner : v \in {u \in vectors : u.from = 0}} = {}
    BY <2>1
  <2>3. Cardinality(crops \ {}) = 0
    BY <2>1, FS_EmptySet
  <2> QED
    BY <2>1, <2>2, <2>3 DEF CropsAccountedFor
<1> QED
  BY <1>4, <1>5, <1>6, <1>7, <1>8, <1>9, <1>10 DEF IInv

LEMMA StepKeeps == IInv /\ [Next]_vars => IInv'
<1> SUFFICES ASSUME IInv, [Next]_vars PROVE IInv'
  OBVIOUS
<1>1. CASE UNCHANGED vars
  <2>1. Shapes' /\ VectorsStand' /\ ProfilesStand' /\ LinksStand' /\ MatchesStand' /\ Counted'
    BY <1>1 DEF vars, IInv, Shapes, VectorsStand, ProfilesStand, LinksStand,
      MatchesStand, Counted
  <2>2. QueriesStand' /\ OneCreator' /\ TeachingStands' /\ CropsAccountedFor'
    BY <1>1 DEF vars, IInv, QueriesStand, Stands, OneCreator, TeachingStands, CropsAccountedFor
  <2> QED
    BY <2>1, <2>2 DEF IInv
<1>2. ASSUME NEW s \in Streams, QueryStep(s) PROVE IInv'
  BY <1>2, StartKeeps, QueryPersonKeeps, SkipKeeps, KnownKeeps, QueryAnonymousKeeps,
    CreateKeeps,
     EmbeddingKeeps, ReadKeeps, UpdateKeeps, FailsKeeps DEF QueryStep
<1>3. CASE TeachStep
  BY <1>3, TeachKeeps, UpdatePersonKeeps, LinkExistingKeeps, TeachQueryKeeps, WriteKeeps,
     CommitKeeps, FailTeachKeeps DEF TeachStep
<1>4. CASE HandlerStep
  BY <1>4, MergeKeeps, CorrectKeeps, LinkExternalKeeps DEF HandlerStep
<1>5. CASE Crash
  BY <1>5, CrashKeeps
<1> QED
  BY <1>1, <1>2, <1>3, <1>4, <1>5 DEF Next

THEOREM StoreInvariance == Spec => []IInv
BY InitIInv, StepKeeps, PTL DEF Spec

(* The rows of the tables and the crop files agree, for any interleaving   *)
(* of queries and handlers and whatever crashed.                           *)
THEOREM TablesAgree == Spec => []Integrity
<1>1. IInv => Integrity
  <2> SUFFICES ASSUME IInv PROVE Integrity
    OBVIOUS
  <2>1. \A v \in vectors :
          /\ v.owner \in People /\ person[v.owner] # None /\ v.face \in Faces
          /\ v.from # 0 => anon[v.from].face = v.face
    BY DEF IInv, Shapes, Vectors, VectorsStand
  <2>2. \A a \in Anons :
          /\ anon[a].seen \in 0..FamiliarSeen
          /\ anon[a].status = "merged" => anon[a].into # 0 /\ person[anon[a].into] # None
    <3>1. \A a \in Anons : anon[a].seen \in Int /\ sightings[a] \in Int /\ FamiliarSeen \in Int
      BY StoreAssumption DEF IInv, Shapes, Rows
    <3>2. \A a \in Anons : 0 <= anon[a].seen /\ anon[a].seen <= FamiliarSeen
      BY <3>1 DEF IInv, Counted
    <3> QED
      BY <3>1, <3>2 DEF IInv, ProfilesStand
  <2>3. \A r \in Refs : link[r] # 0 => person[link[r]] # None
    BY DEF IInv, LinksStand
  <2>4. Denied \subseteq {m.vector : m \in matches} /\ {m.vector : m \in matches} \subseteq vectors
    BY DEF IInv, MatchesStand, Denied
  <2>5. person \in [People -> Names \cup {None}] /\ CropsAccountedFor
    BY DEF IInv, Shapes
  <2>6. TypeOK
    BY <2>1, <2>2, <2>3, <2>4, <2>5 DEF TypeOK
  <2> QED
    BY <2>5, <2>6 DEF Integrity
<1> QED
  BY <1>1, StoreInvariance, PTL

(* Familiarity is earned: no profile counts more sightings than queries    *)
(* that found it, however the queries of several streams read and write.   *)
THEOREM FamiliarityIsEarned == Spec => []SeenIsEarned
<1>1. IInv => SeenIsEarned
  BY DEF IInv, Counted, SeenIsEarned
<1> QED
  BY <1>1, StoreInvariance, PTL

-----------------------------------------------------------------------------
(* What a step may do to the rows                                          *)

StaysMerged(a) ==
    anon[a].status = "merged" => anon'[a].status = "merged" /\ anon'[a].into = anon[a].into

(* A stranger with a face keeps it, as a stranger or as somebody.          *)
StaysKnown(a) ==
    anon[a].status = "active" /\ anon[a].face # None =>
        \/ anon'[a].status = "active" /\ anon'[a].face = anon[a].face
        \/ \E p \in People : [owner |-> p, from |-> a, face |-> anon[a].face] \in vectors'

LEMMA RowsMove ==
  ASSUME IInv, Next
  PROVE  vectors \subseteq vectors' /\ \A a \in Anons : StaysMerged(a) /\ StaysKnown(a)
<1>r. anon \in [Anons -> Rows]
  BY DEF IInv, Shapes
<1>1. CASE UNCHANGED <<vectors, anon>>
  BY <1>1 DEF StaysMerged, StaysKnown
<1>2. ASSUME NEW s \in Streams, CreateAnonymousProfile(s)
      PROVE  vectors \subseteq vectors' /\ \A a \in Anons : StaysMerged(a) /\ StaysKnown(a)
  <2>1. FreeAnons \in SUBSET Nat /\ FreeAnons # {}
    BY <1>2, StoreAssumption DEF CreateAnonymousProfile, FreeAnons, Anons
  <2>2. PICK b \in Anons : anon[b].status = "none" /\ b = Min(FreeAnons)
    BY <2>1, MinIsLeast DEF FreeAnons
  <2>3. vectors' = vectors /\ \A a \in Anons \ {b} : anon'[a] = anon[a]
    BY <1>2, <1>r, <2>2 DEF CreateAnonymousProfile
  <2> QED
    BY <2>2, <2>3 DEF StaysMerged, StaysKnown
<1>3. ASSUME NEW s \in Streams, AddAnonymousEmbedding(s)
      PROVE  vectors \subseteq vectors' /\ \A a \in Anons : StaysMerged(a) /\ StaysKnown(a)
  <2>1. PICK b \in Anons : b = query[s].match /\ anon[b].face = None
    BY <1>3 DEF AddAnonymousEmbedding, IInv, QueriesStand, Stands
  <2>2. /\ vectors' = vectors /\ \A a \in Anons \ {b} : anon'[a] = anon[a]
        /\ anon'[b].status = anon[b].status /\ anon'[b].into = anon[b].into
    BY <1>3, <1>r, <2>1 DEF AddAnonymousEmbedding, Rows
  <2> QED
    BY <2>1, <2>2 DEF StaysMerged, StaysKnown
<1>4. ASSUME NEW s \in Streams, UpdateAnonymousProfile(s)
      PROVE  vectors \subseteq vectors' /\ \A a \in Anons : StaysMerged(a) /\ StaysKnown(a)
  <2>1. PICK b \in Anons : b = query[s].match
    BY <1>4 DEF UpdateAnonymousProfile, IInv, QueriesStand, Stands
  <2>2. /\ vectors' = vectors /\ \A a \in Anons \ {b} : anon'[a] = anon[a]
        /\ anon'[b].status = anon[b].status /\ anon'[b].into = anon[b].into
        /\ anon'[b].face = anon[b].face
    BY <1>4, <1>r, <2>1 DEF UpdateAnonymousProfile, Updated, Rows
  <2> QED
    BY <2>2 DEF StaysMerged, StaysKnown
<1>5. ASSUME NEW b \in Active, NEW p \in People, anon' = Merged(b, p),
             vectors \cup Copied(b, p) \subseteq vectors'
      PROVE  vectors \subseteq vectors' /\ \A a \in Anons : StaysMerged(a) /\ StaysKnown(a)
  <2>1. b \in Anons /\ anon[b].status = "active"
    BY DEF Active
  <2>2. \A a \in Anons \ {b} : anon'[a] = anon[a]
    BY <1>5, <1>r, <2>1 DEF Merged
  <2>3. anon[b].face # None => [owner |-> p, from |-> b, face |-> anon[b].face] \in vectors'
    BY <1>5 DEF Copied
  <2>4. StaysMerged(b) /\ StaysKnown(b)
    BY <2>1, <2>3 DEF StaysMerged, StaysKnown
  <2> QED
    BY <1>5, <2>2, <2>4 DEF StaysMerged, StaysKnown
<1>6. CASE CommitTeach
  <2>1. teach.id \in People
    BY <1>6 DEF CommitTeach, IInv, TeachingStands
  <2>2. CASE teach.match = None
    BY <1>6, <2>2 DEF CommitTeach, StaysMerged, StaysKnown
  <2>3. CASE teach.match # None
    <3>1. /\ teach.match \in Active /\ anon' = Merged(teach.match, teach.id)
          /\ vectors \cup Copied(teach.match, teach.id) \subseteq vectors'
      BY <1>6, <2>3 DEF CommitTeach
    <3> QED
      BY <1>5, <2>1, <3>1
  <2> QED
    BY <2>2, <2>3
<1>7. ASSUME NEW a \in Anons, NEW p \in People, NEW name \in Names \cup {None},
             NEW ref \in Refs \cup {None}, MergeAnonymousPerson(a, p, name, ref)
      PROVE  vectors \subseteq vectors' /\ \A b \in Anons : StaysMerged(b) /\ StaysKnown(b)
  <2>1. a \in Active /\ anon' = Merged(a, p) /\ vectors \cup Copied(a, p) \subseteq vectors'
    BY <1>7 DEF MergeAnonymousPerson
  <2> QED
    BY <1>5, <2>1
<1>8. ASSUME NEW s \in Streams, QueryStep(s)
      PROVE  \/ UNCHANGED <<vectors, anon>>
             \/ CreateAnonymousProfile(s) \/ AddAnonymousEmbedding(s) \/ UpdateAnonymousProfile(s)
  BY <1>8 DEF QueryStep, StartQuery, QueryPerson, SkipTarget, KnownPerson, QueryAnonymous,
     ReadAnonymousProfile, QueryFails, tables
<1>9. CASE TeachStep
  <2>1. UNCHANGED <<vectors, anon>> \/ CommitTeach
    BY <1>9 DEF TeachStep, TeachPerson, UpdateExistingPerson, LinkExistingPerson,
       TeachQueryAnonymous, WriteEmbeddingArtifact, FailTeach, tables
  <2> QED
    BY <1>1, <1>6, <2>1
<1>10. CASE HandlerStep
  <2>1. \/ UNCHANGED <<vectors, anon>>
        \/ \E a \in Anons, p \in People, name \in Names \cup {None}, ref \in Refs \cup {None} :
             MergeAnonymousPerson(a, p, name, ref)
    BY <1>10 DEF HandlerStep, CorrectIdentity, LinkExternalUser
  <2> QED
    BY <1>1, <1>7, <2>1
<1>11. CASE Crash
  BY <1>1, <1>11 DEF Crash, tables
<1> QED
  BY <1>1, <1>2, <1>3, <1>4, <1>8, <1>9, <1>10, <1>11 DEF Next

(* Only link_external_user, which does nothing else, moves an account from *)
(* one person to another.                                                  *)
LEMMA LinksMove ==
  ASSUME IInv, Next, NEW r \in Refs, link[r] # 0, link'[r] # link[r]
  PROVE  UNCHANGED <<person, vectors, anon, teach, query>>
<1>r. link \in [Refs -> 0..MaxPeople]
  BY DEF IInv, Shapes
<1>t. ASSUME NEW ref \in Refs \cup {None}, NEW p, ~ TakenByOther(ref, p), link' = LinkedTo(ref, p)
      PROVE  FALSE
  <2>1. ref # None /\ link' = [link EXCEPT ![ref] = p]
    BY <1>t DEF LinkedTo
  <2>2. r = ref /\ link[ref] \in {0, p} /\ link'[r] = p
    BY <1>r, <1>t, <2>1 DEF TakenByOther
  <2> QED
    BY <2>2
<1>1. link' # link
  OBVIOUS
<1>2. ASSUME NEW s \in Streams, QueryStep(s) PROVE FALSE
  BY <1>1, <1>2 DEF QueryStep, StartQuery, QueryPerson, SkipTarget, KnownPerson, QueryAnonymous,
     CreateAnonymousProfile, AddAnonymousEmbedding, ReadAnonymousProfile, UpdateAnonymousProfile,
     QueryFails, tables
<1>3. CASE TeachStep
  <2>1. CASE LinkExistingPerson
    <3>1. teach.ref \in Refs /\ link[teach.ref] = 0 /\ link' = [link EXCEPT ![teach.ref] = teach.id]
      BY <2>1 DEF LinkExistingPerson, IInv, TeachingStands
    <3> QED
      BY <1>r, <3>1
  <2>2. CASE CommitTeach
    <3>1. teach.ref \in Refs \cup {None}
      BY DEF IInv, Shapes, TeachStates
    <3> QED
      BY <1>t, <2>2, <3>1 DEF CommitTeach
  <2> QED
    BY <1>1, <1>3, <2>1, <2>2 DEF TeachStep, TeachPerson, UpdateExistingPerson,
       TeachQueryAnonymous, WriteEmbeddingArtifact, FailTeach, tables
<1>4. CASE HandlerStep
  <2>1. ASSUME NEW a \in Anons, NEW p \in People, NEW name \in Names \cup {None},
               NEW ref \in Refs \cup {None}, MergeAnonymousPerson(a, p, name, ref)
        PROVE  FALSE
    <3>1. link' = LinkedTo(ref, p) /\ ~ TakenByOther(ref, p)
      BY <2>1 DEF MergeAnonymousPerson, TakenByOther
    <3> QED
      BY <1>t, <3>1
  <2> QED
    BY <1>1, <1>4, <2>1 DEF HandlerStep, CorrectIdentity, LinkExternalUser
<1>5. ~ Crash
  BY <1>1 DEF Crash, tables
<1> QED
  BY <1>2, <1>3, <1>4, <1>5 DEF Next

(* A stranger who became a person stays that person, whatever a query that *)
(* read the profile before has still to write; teaching and merging take   *)
(* no account from the person it belongs to.                               *)
THEOREM SettledForGood == Spec => SettledStays
<1> DEFINE Merging == \A a \in Anons : anon[a].status = "merged" =>
                        anon'[a].status = "merged" /\ anon'[a].into = anon[a].into
           Linking == \A r \in Refs : link[r] # 0 /\ link'[r] # link[r] =>
                        UNCHANGED <<person, vectors, anon, teach, query>>
<1>1. IInv /\ [Next]_vars => [Merging]_vars
  BY RowsMove DEF StaysMerged
<1>2. IInv /\ [Next]_vars => [Linking]_vars
  BY LinksMove
<1>3. Spec => [][Merging]_vars
  BY <1>1, StoreInvariance, PTL DEF Spec
<1>4. Spec => [][Linking]_vars
  BY <1>2, StoreInvariance, PTL DEF Spec
<1> QED
  BY <1>3, <1>4 DEF SettledStays, MergedForGood, AccountsStay

-----------------------------------------------------------------------------
(* Who is remembered                                                       *)

Rememberers(f) == {v.owner : v \in {u \in vectors \ Denied : u.face = f}}
Acquaintances(f) == {a \in Active : anon[a].face = f}

LEMMA MemoriesAreCounted ==
  ASSUME NEW P \in SUBSET People, NEW S \in SUBSET Anons
  PROVE  /\ Cardinality(P) \in Nat /\ Cardinality(S) \in Nat
         /\ Cardinality(P) + Cardinality(S) > 0 <=> P # {} \/ S # {}
<1>1. IsFiniteSet(1..MaxAnons)
  <2>1. MaxAnons \in Nat
    BY StoreAssumption
  <2> QED
    BY <2>1, FS_Interval
<1>2. IsFiniteSet(P) /\ IsFiniteSet(S)
  BY <1>1, PeopleAreFinite, FS_Subset DEF People, Anons
<1>3. Cardinality(P) \in Nat /\ Cardinality(S) \in Nat
  BY <1>2, FS_CardinalityType
<1>4. (Cardinality(P) = 0 <=> P = {}) /\ (Cardinality(S) = 0 <=> S = {})
  BY <1>2, FS_EmptySet
<1> QED
  BY <1>3, <1>4

(* Whoever is remembered stays so, as a person or as a stranger, through   *)
(* merges, promotions, failures and crashes; only a correction, which      *)
(* takes a vector out of use, makes a memory of somebody the last one.     *)
THEOREM NobodyForgotten == Spec => NothingForgotten
<1> DEFINE Step == \A f \in Faces : Memories(f) > 0 /\ Memories(f)' = 0 => denied' # denied
<1>1. ASSUME IInv, IInv', Next, NEW f \in Faces, Memories(f) > 0, denied' = denied
      PROVE  ~ (Memories(f)' = 0)
  <2>1. Rememberers(f) \in SUBSET People /\ Acquaintances(f) \in SUBSET Anons
    BY <1>1 DEF IInv, Shapes, Vectors, Rememberers, Acquaintances, Active
  <2>2. Rememberers(f)' \in SUBSET People /\ Acquaintances(f)' \in SUBSET Anons
    BY <1>1 DEF IInv, Shapes, Vectors, Rememberers, Acquaintances, Active
  <2>3. /\ Memories(f) = Cardinality(Rememberers(f)) + Cardinality(Acquaintances(f))
        /\ Memories(f)' = Cardinality(Rememberers(f)') + Cardinality(Acquaintances(f)')
    BY DEF Memories, Rememberers, Acquaintances
  <2>4. Rememberers(f) # {} \/ Acquaintances(f) # {}
    BY <1>1, <2>1, <2>3, MemoriesAreCounted
  <2>5. vectors \subseteq vectors' /\ Denied' = Denied
    BY <1>1, RowsMove DEF Denied
  <2>6. ASSUME Rememberers(f) # {} PROVE Rememberers(f)' # {}
    BY <2>5, <2>6 DEF Rememberers
  <2>7. ASSUME NEW a \in Acquaintances(f) PROVE Rememberers(f)' # {} \/ Acquaintances(f)' # {}
    <3>1. a \in Anons /\ anon[a].status = "active" /\ anon[a].face = f /\ f # None
      BY <2>7, StoreAssumption DEF Acquaintances, Active
    <3>2. CASE anon'[a].status = "active" /\ anon'[a].face = anon[a].face
      BY <3>1, <3>2 DEF Acquaintances, Active
    <3>3. ASSUME NEW q \in People, [owner |-> q, from |-> a, face |-> anon[a].face] \in vectors'
          PROVE  Rememberers(f)' # {}
      <4>1. PICK v \in vectors' : v = [owner |-> q, from |-> a, face |-> anon[a].face]
        BY <3>3
      <4>2. v.from = a /\ v.face = f /\ a # 0
        BY <3>1, <4>1 DEF Anons
      <4>3. v \notin vectors
        BY <3>1, <4>2, <1>1 DEF IInv, VectorsStand
      <4>4. v \notin Denied'
        BY <1>1, <2>5, <4>3 DEF IInv, MatchesStand, Denied
      <4> QED
        BY <4>1, <4>2, <4>4 DEF Rememberers
    <3>4. StaysKnown(a)
      BY <1>1, <3>1, RowsMove
    <3> QED
      BY <3>1, <3>2, <3>3, <3>4 DEF StaysKnown
  <2>8. Rememberers(f)' # {} \/ Acquaintances(f)' # {}
    BY <2>4, <2>6, <2>7
  <2> QED
    BY <2>2, <2>3, <2>8, MemoriesAreCounted
<1>2. IInv /\ IInv' /\ [Next]_vars => [Step]_vars
  BY <1>1
<1>3. Spec => [][Step]_vars
  BY <1>2, StoreInvariance, PTL DEF Spec
<1> QED
  BY <1>3 DEF NothingForgotten

-----------------------------------------------------------------------------
(* Nobody is remembered twice, as long as a search sees the whole table:   *)
(* beyond that a person with many vectors may hide behind them.            *)
Fits == Cardinality(vectors) <= Window /\ Cardinality(AnonVectors) <= Window

OnlyPerson(f) == \E p \in People : Rememberers(f) = {p}
OnlyStranger(f, a) == Acquaintances(f) = {a}

(* Whoever found nobody, and was not overtaken since, would have found the *)
(* only one there is.                                                      *)
QueryMissed(s) ==
    LET f == Head(query[s].todo)
    IN /\ query[s].pc \in {"anonymous", "create", "embed"} => ~ OnlyPerson(f)
       /\ query[s].pc \in {"create", "embed"} => \A a \in Anons : ~ OnlyStranger(f, a)

TeachMissed ==
    /\ teach.pc \in {"anonymous", "write", "commit"} => ~ OnlyPerson(teach.face)
    /\ teach.pc \in {"write", "commit"} =>
         \A a \in Anons : OnlyStranger(teach.face, a) => teach.match = a

Missed ==
    /\ IsFiniteSet(vectors)
    /\ \A s \in Streams \ overtaken : QueryMissed(s)
    /\ None \notin overtaken => TeachMissed

(* What a search of the whole table finds *)

LEMMA LevelsOfLikeness ==
  ASSUME NEW f, NEW g
  PROVE  Score(f, g) \in {0, 1, 2} /\ (Score(f, g) = 2 <=> f = g)
BY DEF Score

LEMMA MaxOfTwoLevels ==
  ASSUME NEW S \in SUBSET {0, 1}, S # {}
  PROVE  Max(S) \in {0, 1}
<1>1. \E x \in S : \A y \in S : x >= y
  <2>1. CASE 1 \in S
    BY <2>1
  <2>2. CASE 1 \notin S
    <3>1. S = {0}
      BY <2>2
    <3> QED
      BY <3>1
  <2> QED
    BY <2>1, <2>2
<1> QED
  BY <1>1 DEF Max

LEMMA WholeTable ==
  ASSUME NEW E, NEW f, NEW k \in Int, IsFiniteSet(E), Cardinality(E) <= k
  PROVE  Nearest(E, f, k) = {E}
BY DEF Nearest

(* The only owner of the face is clear of everybody else.                  *)
LEMMA OnlyOwnerStandsOut ==
  ASSUME NEW W, NEW f, NEW v \in W, v.face = f,
         \A d \in W : d.face = f => d.owner = v.owner
  PROVE  /\ v \in Verdicts(W, f, FALSE)
         /\ \A e \in Verdicts(W, f, FALSE) : e \in W /\ e.face = f
<1>1. \A d \in W : Score(d.face, f) \in {0, 1, 2} /\ (Score(d.face, f) = 2 <=> d.face = f)
  BY LevelsOfLikeness
<1>2. v \in BestOf(W, f) /\ \A e \in BestOf(W, f) : e \in W /\ e.face = f
  <2>1. Score(v.face, f) = 2
    BY <1>1
  <2>2. \A d \in W : Score(v.face, f) >= Score(d.face, f)
    BY <1>1, <2>1
  <2>3. ASSUME NEW e \in W, \A d \in W : Score(e.face, f) >= Score(d.face, f)
        PROVE  e.face = f
    <3>1. Score(e.face, f) >= Score(v.face, f)
      BY <2>3
    <3> QED
      BY <1>1, <2>1, <3>1
  <2> QED
    BY <2>2, <2>3 DEF BestOf
<1> DEFINE others == {d \in W : d.owner # v.owner}
           second == IF others = {} THEN 0 ELSE Max({Score(d.face, f) : d \in others})
<1>3. second \in {0, 1}
  <2>1. \A d \in others : Score(d.face, f) \in {0, 1}
    BY <1>1
  <2>2. others # {} => Max({Score(d.face, f) : d \in others}) \in {0, 1}
    <3> HIDE DEF others
    <3>1. {Score(d.face, f) : d \in others} \in SUBSET {0, 1}
      BY <2>1
    <3>2. others # {} => {Score(d.face, f) : d \in others} # {}
      OBVIOUS
    <3> QED
      BY <3>1, <3>2, MaxOfTwoLevels
  <2> QED
    BY <2>2
<1>4. Score(v.face, f) = 2
  BY <1>1
<1>5. /\ ~ Undecided(others, FALSE)
      /\ Score(v.face, f) >= Threshold
      /\ Score(v.face, f) - second >= Margin
  <2> HIDE DEF second, others
  <2> QED
    BY <1>3, <1>4 DEF Undecided, Threshold, Margin
<1> QED
  BY <1>2, <1>5 DEF Verdicts

LEMMA PersonIsFound ==
  ASSUME NEW E \in SUBSET Vectors, IsFiniteSet(E), Cardinality(E) <= Window, NEW f, NEW D, NEW p,
         {v.owner : v \in {u \in E \ D : u.face = f}} = {p}
  PROVE  None \notin PersonMatches(E, f, D, None)
<1>1. Cardinality(E) \in Nat /\ Window \in Nat
  BY FS_CardinalityType, RetrieverAssumption
<1>2. Nearest(E, f, Window + 1) = {E} /\ Nearest(E, f, Window) = {E}
  BY <1>1, WholeTable
<1>3. (Cardinality(E) > Window) = FALSE
  BY <1>1
<1>4. PICK v \in E \ D : v.face = f /\ v.owner = p
  OBVIOUS
<1>5. \A d \in E \ D : d.face = f => d.owner = v.owner
  BY <1>4
<1>6. v \in Verdicts(E \ D, f, FALSE) /\ \A e \in Verdicts(E \ D, f, FALSE) : e \in E \ D
  BY <1>4, <1>5, OnlyOwnerStandsOut
<1>7. None \notin E
  <2>1. None \notin [owner : Nat, from : Nat, face : Faces]
    BY StoreAssumption
  <2>2. Vectors \subseteq [owner : Nat, from : Nat, face : Faces]
    BY DEF Vectors, People
  <2> QED
    BY <2>1, <2>2
<1>8. ASSUME None \in PersonMatches(E, f, D, None) PROVE FALSE
  <2>1. PICK F \in Nearest(E, f, Window + 1) :
          None \in UNION {ResultsOf(Verdicts(W \ D, f, Cardinality(F) > Window), None) :
                           W \in Nearest(F, f, Window)}
    BY <1>8 DEF PersonMatches
  <2>2. PICK W \in Nearest(F, f, Window) :
          None \in ResultsOf(Verdicts(W \ D, f, Cardinality(F) > Window), None)
    BY <2>1
  <2>3. F = E /\ W = E
    BY <1>2
  <2>4. Verdicts(W \ D, f, Cardinality(F) > Window) = Verdicts(E \ D, f, FALSE)
    BY <1>3, <2>3
  <2> QED
    BY <1>6, <1>7, <2>2, <2>4 DEF ResultsOf
<1> QED
  BY <1>8

LEMMA StrangerIsFound ==
  ASSUME NEW E \in SUBSET AnonVectorRecords, IsFiniteSet(E), Cardinality(E) <= Window,
         NEW f, NEW A, NEW a,
         {d.owner : d \in {c \in E : c.owner \in A /\ c.face = f}} = {a},
         NEW e \in AnonymousMatches(E, f, A, None)
  PROVE  e # None /\ e.owner = a
<1> DEFINE found == {d \in E : d.owner \in A}
           verdicts == Verdicts(found, f, FALSE)
           vetoed == {d \in verdicts : InactiveBeats(E, A, d, f)}
<1>1. /\ Cardinality(E) \in Nat /\ Window \in Nat /\ IsFiniteSet(found)
      /\ Cardinality(found) \in Nat /\ Cardinality(found) <= Cardinality(E)
  BY FS_CardinalityType, FS_Subset, RetrieverAssumption
<1>2. Nearest(E, f, Window + 1) = {E} /\ Nearest(found, f, Window) = {found}
  <2> HIDE DEF found
  <2> QED
    BY <1>1, WholeTable
<1>3. (Cardinality(found) > Window) = FALSE
  <2> HIDE DEF found
  <2> QED
    BY <1>1
<1>4. PICK v \in found : v.face = f /\ v.owner = a
  OBVIOUS
<1>5. \A d \in found : d.face = f => d.owner = v.owner
  BY <1>4
<1>6. v \in verdicts /\ \A d \in verdicts : d \in found /\ d.face = f
  BY <1>4, <1>5, OnlyOwnerStandsOut
<1>7. vetoed = {}
  <2>1. \A c, d \in E : d.face = f => ~ (Score(c.face, f) > Score(d.face, f))
    <3>1. ASSUME NEW c \in E, NEW d \in E, d.face = f PROVE ~ (Score(c.face, f) > Score(d.face, f))
      <4>1. Score(c.face, f) \in {0, 1, 2} /\ Score(d.face, f) = 2
        BY <3>1, LevelsOfLikeness
      <4> QED
        BY <4>1
    <3> QED
      BY <3>1
  <2> QED
    BY <1>6, <2>1 DEF InactiveBeats
<1>9. e \in verdicts
  <2> DEFINE seen(F) == {d \in F : d.owner \in A}
             says(F, W) == Verdicts(W, f, Cardinality(seen(F)) > Window)
             silenced(F, W) == {d \in says(F, W) : InactiveBeats(F, A, d, f)}
  <2>1. PICK F \in Nearest(E, f, Window + 1) :
          e \in UNION {ResultsOf(says(F, W) \ silenced(F, W), None)
                         \cup (IF silenced(F, W) = {} THEN {} ELSE {None}) :
                         W \in Nearest(seen(F), f, Window)}
    BY DEF AnonymousMatches
  <2>2. F = E /\ seen(F) = found
    BY <1>2
  <2>3. PICK W \in Nearest(seen(F), f, Window) :
          e \in ResultsOf(says(F, W) \ silenced(F, W), None)
                 \cup (IF silenced(F, W) = {} THEN {} ELSE {None})
    BY <2>1
  <2>4. W = found
    BY <1>2, <2>2, <2>3
  <2>5. says(F, W) = verdicts
    <3> HIDE DEF seen, found
    <3> QED
      BY <1>3, <2>2, <2>4
  <2>6. silenced(F, W) = vetoed
    <3> HIDE DEF verdicts, says
    <3> QED
      BY <2>2, <2>5
  <2> HIDE DEF verdicts, vetoed, says, silenced
  <2> QED
    BY <1>6, <1>7, <2>3, <2>5, <2>6 DEF ResultsOf
<1>10. e \in found /\ e.face = f
  BY <1>6, <1>9
<1>11. None \notin E
  <2>1. None \notin [owner : Nat, face : Faces]
    BY StoreAssumption
  <2>2. AnonVectorRecords \subseteq [owner : Nat, face : Faces]
    BY DEF AnonVectorRecords, Anons
  <2> QED
    BY <2>1, <2>2
<1> QED
  BY <1>4, <1>5, <1>10, <1>11

LEMMA PersonIsNotMissed ==
  ASSUME IInv, IsFiniteSet(vectors), Fits, NEW f \in Faces, OnlyPerson(f)
  PROVE  None \notin PersonMatches(vectors, f, Denied, None)
<1>1. vectors \in SUBSET Vectors /\ Cardinality(vectors) <= Window
  BY DEF IInv, Shapes, Fits
<1>2. PICK p \in People : {v.owner : v \in {u \in vectors \ Denied : u.face = f}} = {p}
  BY DEF OnlyPerson, Rememberers
<1> QED
  BY <1>1, <1>2, PersonIsFound

LEMMA StrangerIsNotMissed ==
  ASSUME IInv, Fits, NEW f \in Faces, NEW a \in Anons, OnlyStranger(f, a),
         NEW e \in AnonymousMatches(AnonVectors, f, Active, None)
  PROVE  e # None /\ e.owner = a
<1>1. anon \in [Anons -> Rows]
  BY DEF IInv, Shapes
<1>2. AnonVectors \in SUBSET AnonVectorRecords
  BY <1>1 DEF AnonVectors, AnonVectorRecords, Rows
<1>3. IsFiniteSet(AnonVectors)
  <2> DEFINE known == {b \in Anons : anon[b].face # None}
             row == [b \in known |-> [owner |-> b, face |-> anon[b].face]]
  <2>1. IsFiniteSet(known)
    <3>1. MaxAnons \in Nat
      BY StoreAssumption
    <3>2. IsFiniteSet(1..MaxAnons)
      BY <3>1, FS_Interval
    <3> QED
      BY <3>2, FS_Subset DEF Anons
  <2>2. row \in Surjection(known, AnonVectors)
    BY DEF AnonVectors, Surjection
  <2> HIDE DEF known, row
  <2> QED
    BY <2>1, <2>2, FS_Surjection
<1>4. {d.owner : d \in {c \in AnonVectors : c.owner \in Active /\ c.face = f}} = {a}
  <2>1. \A b \in Anons : b \in Active /\ anon[b].face = f <=> b = a
    BY DEF OnlyStranger, Acquaintances
  <2>2. f # None
    BY StoreAssumption
  <2>3. ASSUME NEW c \in AnonVectors, c.owner \in Active, c.face = f PROVE c.owner = a
    BY <2>1, <2>3 DEF AnonVectors
  <2>4. \E c \in AnonVectors : c.owner \in Active /\ c.face = f /\ c.owner = a
    <3>1. PICK c : c = [owner |-> a, face |-> anon[a].face]
      OBVIOUS
    <3>2. c \in AnonVectors
      BY <2>1, <2>2, <3>1 DEF AnonVectors
    <3> QED
      BY <2>1, <3>1, <3>2
  <2> QED
    BY <2>3, <2>4
<1> QED
  BY <1>2, <1>3, <1>4, StrangerIsFound DEF Fits

(* Who does not act and was not overtaken by the change still misses       *)
(* nobody.                                                                 *)
LEMMA OthersMiss ==
  ASSUME IInv, Missed, NEW G, NEW actor \in Streams \cup {None},
         \A f \in Faces \ G : /\ Rememberers(f)' = Rememberers(f)
                              /\ Acquaintances(f)' = Acquaintances(f),
         (overtaken \cup LookedUp(G)) \ {actor} \subseteq overtaken',
         \A t \in Streams \ {actor} : query'[t] = query[t],
         actor # None => teach' = teach,
         actor = None /\ None \notin overtaken' => TeachMissed',
         \A s \in Streams : s = actor /\ s \notin overtaken' => QueryMissed(s)',
         IsFiniteSet(vectors')
  PROVE  Missed'
<1>1. ASSUME NEW t \in Streams, t # actor, t \notin overtaken' PROVE QueryMissed(t)'
  <2>1. t \notin overtaken /\ t \notin LookedUp(G) /\ query'[t] = query[t]
    BY <1>1
  <2>3. PICK q : q = query[t]
    OBVIOUS
  <2>4. PICK f : f = Head(q.todo)
    OBVIOUS
  <2>5. /\ q.pc \in {"anonymous", "create", "embed"} => ~ OnlyPerson(f)
        /\ q.pc \in {"create", "embed"} => \A a \in Anons : ~ OnlyStranger(f, a)
    BY <2>1, <2>3, <2>4 DEF Missed, QueryMissed
  <2>6. ASSUME q.pc \in {"anonymous", "create", "embed"}
        PROVE  Rememberers(f)' = Rememberers(f) /\ Acquaintances(f)' = Acquaintances(f)
    <3>1. q.todo \in Seq(Faces) /\ q.todo # <<>>
      BY <2>3, <2>6 DEF IInv, Shapes, QueryStates, QueriesStand, Stands
    <3>2. f \in Faces
      BY <2>4, <3>1
    <3>3. f \notin G
      BY <2>1, <2>3, <2>4, <2>6 DEF LookedUp
    <3> QED
      BY <3>2, <3>3
  <2>7. /\ q.pc \in {"anonymous", "create", "embed"} => ~ OnlyPerson(f)'
        /\ q.pc \in {"create", "embed"} => \A a \in Anons : ~ OnlyStranger(f, a)'
    BY <2>5, <2>6 DEF OnlyPerson, OnlyStranger
  <2>8. query'[t] = q /\ Head(query'[t].todo) = f
    BY <2>1, <2>3, <2>4
  <2> QED
    BY <2>7, <2>8 DEF QueryMissed
<1>2. ASSUME actor # None, None \notin overtaken' PROVE TeachMissed'
  <2>1. None \notin overtaken /\ None \notin LookedUp(G) /\ teach' = teach
    BY <1>2
  <2>2. PICK q : q = teach
    OBVIOUS
  <2>3. PICK f : f = q.face
    OBVIOUS
  <2>4. q.pc \in {"anonymous", "write", "commit"} =>
          Rememberers(f)' = Rememberers(f) /\ Acquaintances(f)' = Acquaintances(f)
    <3>1. q.pc \in {"anonymous", "write", "commit"} => f \in Faces
      BY <2>2, <2>3 DEF IInv, TeachingStands
    <3>2. q.pc \in {"anonymous", "write", "commit"} => f \notin G
      BY <2>1, <2>2, <2>3 DEF LookedUp
    <3> QED
      BY <3>1, <3>2
  <2>5. /\ q.pc \in {"anonymous", "write", "commit"} => ~ OnlyPerson(f)
        /\ q.pc \in {"write", "commit"} => \A a \in Anons : OnlyStranger(f, a) => q.match = a
    BY <2>1, <2>2, <2>3 DEF Missed, TeachMissed
  <2>6. /\ q.pc \in {"anonymous", "write", "commit"} => ~ OnlyPerson(f)'
        /\ q.pc \in {"write", "commit"} => \A a \in Anons : OnlyStranger(f, a)' => q.match = a
    BY <2>4, <2>5 DEF OnlyPerson, OnlyStranger
  <2>7. teach' = q /\ teach'.face = f
    BY <2>1, <2>2, <2>3
  <2> QED
    BY <2>6, <2>7 DEF TeachMissed
<1>3. \A s \in Streams \ overtaken' : QueryMissed(s)'
  BY <1>1
<1>4. None \notin overtaken' => TeachMissed'
  BY <1>2
<1> QED
  BY <1>3, <1>4 DEF Missed

SameMemories ==
    \A f \in Faces : Rememberers(f)' = Rememberers(f) /\ Acquaintances(f)' = Acquaintances(f)

LEMMA SameRows ==
  ASSUME UNCHANGED <<vectors, denied>>,
         \A a \in Anons : \/ anon'[a].status = anon[a].status /\ anon'[a].face = anon[a].face
                          \/ anon[a].face = None /\ anon'[a].face = None
  PROVE  SameMemories
<1>1. None \notin Faces
  BY StoreAssumption
<1>2. \A f \in Faces : Rememberers(f)' = Rememberers(f)
  BY DEF Rememberers, Denied
<1>3. ASSUME NEW f \in Faces PROVE Acquaintances(f)' = Acquaintances(f)
  BY <1>1 DEF Acquaintances, Active
<1> QED
  BY <1>2, <1>3 DEF SameMemories

(* A step of a query that changes no memory.                               *)
LEMMA QuietMisses ==
  ASSUME IInv, Missed, NEW s \in Streams, NEW q \in QueryStates, Moves(s, q),
         UNCHANGED <<vectors, denied, teach>>,
         \A a \in Anons : \/ anon'[a].status = anon[a].status /\ anon'[a].face = anon[a].face
                          \/ anon[a].face = None /\ anon'[a].face = None,
         overtaken \ {s} \subseteq overtaken',
         q.pc \in {"anonymous", "create", "embed"} => q.todo # <<>>,
         q.pc \in {"anonymous", "create", "embed"} /\ s \notin overtaken' =>
            /\ ~ OnlyPerson(Head(q.todo))
            /\ q.pc # "anonymous" => \A a \in Anons : ~ OnlyStranger(Head(q.todo), a)
  PROVE  SameMemories /\ Missed'
<1>1. SameMemories
  BY SameRows
<1>2. query'[s] = q /\ \A t \in Streams \ {s} : query'[t] = query[t]
  BY DEF IInv, Shapes, Moves
<1>3. ASSUME s \notin overtaken' PROVE QueryMissed(s)'
  <2>1. CASE q.pc \in {"anonymous", "create", "embed"}
    <3>1. PICK f : f = Head(q.todo)
      OBVIOUS
    <3>2. f \in Faces
      BY <2>1, <3>1 DEF QueryStates
    <3>3. ~ OnlyPerson(f) /\ (q.pc # "anonymous" => \A a \in Anons : ~ OnlyStranger(f, a))
      BY <1>3, <2>1, <3>1
    <3>4. ~ OnlyPerson(f)' /\ (q.pc # "anonymous" => \A a \in Anons : ~ OnlyStranger(f, a)')
      BY <1>1, <3>2, <3>3 DEF SameMemories, OnlyPerson, OnlyStranger
    <3>5. Head(query'[s].todo) = f /\ query'[s].pc = q.pc
      BY <1>2, <3>1
    <3> QED
      BY <3>4, <3>5 DEF QueryMissed
  <2>2. CASE q.pc \notin {"anonymous", "create", "embed"}
    BY <1>2, <2>2 DEF QueryMissed
  <2> QED
    BY <2>1, <2>2
<1>4. LookedUp({}) = {}
  BY DEF LookedUp
<1>5. s # None
  BY StoreAssumption
<1>6. IsFiniteSet(vectors')
  BY DEF Missed
<1>7. PICK G : G = {}
  OBVIOUS
<1>8. \A f \in Faces \ G : Rememberers(f)' = Rememberers(f) /\ Acquaintances(f)' = Acquaintances(f)
  BY <1>1 DEF SameMemories
<1>9. (overtaken \cup LookedUp(G)) \ {s} \subseteq overtaken'
  BY <1>4, <1>7
<1>10. \A t \in Streams : t = s /\ t \notin overtaken' => QueryMissed(t)'
  BY <1>3
<1>11. s \in Streams \cup {None} /\ \A t \in Streams \ {s} : query'[t] = query[t]
  BY <1>2
<1>12. (s # None => teach' = teach) /\ (s = None /\ None \notin overtaken' => TeachMissed')
  BY <1>5
<1>13. Missed'
  BY <1>6, <1>8, <1>9, <1>10, <1>11, <1>12, OthersMiss
<1> QED
  BY <1>1, <1>13

LEMMA QueryMisses ==
  ASSUME IInv, Missed, Fits, NEW s \in Streams, QueryStep(s), ~ AddAnonymousEmbedding(s)
  PROVE  SameMemories /\ Missed'
<1>q. query[s] \in QueryStates /\ query \in [Streams -> QueryStates] /\ Stands(query[s])
  BY DEF IInv, Shapes, QueriesStand
<1>r. anon \in [Anons -> Rows]
  BY DEF IInv, Shapes
<1>d. NoQuery \in QueryStates /\ NoQuery.pc = "idle"
  BY NoQueryIsState DEF NoQuery
<1>m. query[s].met \in SUBSET Anons /\ (query[s].pc # "idle" => query[s].todo # <<>>)
  BY <1>q DEF Stands, QueryStates
<1>n. ASSUME NextTarget(s, query[s].met), query[s].pc # "idle"
      PROVE  \E q \in QueryStates : Moves(s, q) /\ q.pc \in {"idle", "person"}
  BY <1>m, <1>n, NextTargetMoves DEF IInv
<1>e. ASSUME AfterEvent(s)
      PROVE  \E q \in QueryStates : Moves(s, q) /\ q.pc \in {"idle", "person"}
  BY <1>d, <1>e DEF AfterEvent, Moves
<1>1. ASSUME NEW faces \in Pictures, StartQuery(s, faces) PROVE SameMemories /\ Missed'
  <2>1. PICK n \in QueryStates : n = NoQuery
    BY <1>d
  <2>2. faces \in Seq(Faces)
    BY StoreAssumption
  <2>3. PICK q : q = [n EXCEPT !.pc = "person", !.todo = faces]
    OBVIOUS
  <2>4. q \in QueryStates /\ q.pc = "person"
    BY <2>2, <2>3 DEF QueryStates
  <2>5. Moves(s, q)
    BY <1>1, <2>1, <2>3, <2>4 DEF StartQuery, Moves
  <2> QED
    BY <1>1, <2>4, <2>5, QuietMisses DEF StartQuery, tables
<1>2. CASE QueryPerson(s)
  <2>1. PICK e \in PersonMatches(vectors, Head(query[s].todo), Denied, None) :
          \/ e # None /\ query' = [query EXCEPT ![s].pc = "known", ![s].match = e]
          \/ e = None /\ Goto(s, "anonymous")
    BY <1>2 DEF QueryPerson
  <2>u. UNCHANGED <<vectors, anon, denied, teach, overtaken>> /\ query[s].pc = "person"
    BY <1>2 DEF QueryPerson, tables
  <2>2. CASE e # None /\ query' = [query EXCEPT ![s].pc = "known", ![s].match = e]
    <3>1. e \in Vectors
      BY <2>2, PersonMatchIsVector DEF IInv, Shapes
    <3>2. PICK q : q = [query[s] EXCEPT !.pc = "known", !.match = e]
      OBVIOUS
    <3>3. q \in QueryStates /\ q.pc = "known"
      BY <1>q, <3>1, <3>2 DEF QueryStates
    <3>4. Moves(s, q)
      BY <1>q, <2>2, <3>2, <3>3 DEF Moves
    <3> QED
      BY <2>u, <3>3, <3>4, QuietMisses
  <2>3. CASE e = None /\ Goto(s, "anonymous")
    <3>1. PICK q : q = [query[s] EXCEPT !.pc = "anonymous"]
      OBVIOUS
    <3>2. q \in QueryStates /\ q.pc = "anonymous" /\ q.todo = query[s].todo
      BY <1>q, <3>1 DEF QueryStates
    <3>3. Moves(s, q)
      BY <1>q, <2>3, <3>1, <3>2 DEF Moves, Goto
    <3>4. q.todo # <<>> /\ Head(q.todo) \in Faces
      BY <1>m, <1>q, <2>u, <3>2 DEF QueryStates
    <3>5. ~ OnlyPerson(Head(q.todo))
      BY <2>1, <2>3, <3>2, <3>4, PersonIsNotMissed DEF Missed
    <3> QED
      BY <2>u, <3>2, <3>3, <3>4, <3>5, QuietMisses
  <2> QED
    BY <2>1, <2>2, <2>3
<1>3. CASE SkipTarget(s)
  <2>1. PICK q \in QueryStates : Moves(s, q) /\ q.pc \in {"idle", "person"}
    BY <1>n, <1>3 DEF SkipTarget
  <2> QED
    BY <1>3, <2>1, QuietMisses DEF SkipTarget, tables
<1>4. CASE KnownPerson(s)
  <2>1. PICK q \in QueryStates : Moves(s, q) /\ q.pc \in {"idle", "person"}
    BY <1>e, <1>n, <1>4 DEF KnownPerson
  <2> QED
    BY <1>4, <2>1, QuietMisses DEF KnownPerson, Settles
<1>5. CASE QueryAnonymous(s)
  <2>1. PICK e \in AnonymousMatches(AnonVectors, Head(query[s].todo), Active, None) :
          \/ e = None /\ Goto(s, "create")
          \/ e # None /\ query' = [query EXCEPT ![s].pc = "profile", ![s].match = e.owner]
    BY <1>5 DEF QueryAnonymous
  <2>u. UNCHANGED <<vectors, anon, denied, teach, overtaken>> /\ query[s].pc = "anonymous"
    BY <1>5 DEF QueryAnonymous, tables
  <2>2. CASE e # None /\ query' = [query EXCEPT ![s].pc = "profile", ![s].match = e.owner]
    <3>1. e.owner \in Anons
      BY <2>2, AnonymousMatchIsActive DEF Active
    <3>2. PICK q : q = [query[s] EXCEPT !.pc = "profile", !.match = e.owner]
      OBVIOUS
    <3>3. q \in QueryStates /\ q.pc = "profile"
      BY <1>q, <3>1, <3>2 DEF QueryStates
    <3>4. Moves(s, q)
      BY <1>q, <2>2, <3>2, <3>3 DEF Moves
    <3> QED
      BY <2>u, <3>3, <3>4, QuietMisses
  <2>3. CASE e = None /\ Goto(s, "create")
    <3>1. PICK q : q = [query[s] EXCEPT !.pc = "create"]
      OBVIOUS
    <3>2. q \in QueryStates /\ q.pc = "create" /\ q.todo = query[s].todo
      BY <1>q, <3>1 DEF QueryStates
    <3>3. Moves(s, q)
      BY <1>q, <2>3, <3>1, <3>2 DEF Moves, Goto
    <3>4. q.todo # <<>> /\ Head(q.todo) \in Faces
      BY <1>m, <1>q, <2>u, <3>2 DEF QueryStates
    <3>5. \A a \in Anons : ~ OnlyStranger(Head(q.todo), a)
      BY <2>1, <2>3, <3>2, <3>4, StrangerIsNotMissed
    <3>6. s \notin overtaken' => ~ OnlyPerson(Head(q.todo))
      BY <2>u, <3>2 DEF Missed, QueryMissed
    <3> QED
      BY <2>u, <3>2, <3>3, <3>4, <3>5, <3>6, QuietMisses
  <2> QED
    BY <2>1, <2>2, <2>3
<1>6. CASE CreateAnonymousProfile(s)
  <2>1. PICK b \in Anons : anon[b].status = "none" /\ b = Min(FreeAnons)
    <3>1. FreeAnons \in SUBSET Nat /\ FreeAnons # {}
      BY <1>6 DEF CreateAnonymousProfile, FreeAnons, Anons
    <3> QED
      BY <3>1, MinIsLeast DEF FreeAnons
  <2>2. /\ anon' = [anon EXCEPT ![b] = [NoRow EXCEPT !.status = "active", !.seen = 1]]
        /\ query' = [query EXCEPT ![s].pc = "embed", ![s].match = b]
        /\ query[s].pc = "create"
        /\ UNCHANGED <<vectors, denied, teach, overtaken>>
    BY <1>6, <2>1 DEF CreateAnonymousProfile
  <2>3. [NoRow EXCEPT !.status = "active", !.seen = 1].face = None
    BY DEF NoRow
  <2>4. anon[b].face = None
    BY <2>1 DEF IInv, ProfilesStand
  <2>5. \A a \in Anons : \/ anon'[a].status = anon[a].status /\ anon'[a].face = anon[a].face
                         \/ anon[a].face = None /\ anon'[a].face = None
    BY <1>r, <2>2, <2>3, <2>4
  <2>6. PICK q : q = [query[s] EXCEPT !.pc = "embed", !.match = b]
    OBVIOUS
  <2>7. q \in QueryStates /\ q.pc = "embed" /\ q.todo = query[s].todo
    BY <1>q, <2>6 DEF QueryStates
  <2>8. Moves(s, q)
    BY <1>q, <2>2, <2>6, <2>7 DEF Moves
  <2>9. q.todo # <<>>
    BY <1>m, <2>2, <2>7
  <2>10. s \notin overtaken' => /\ ~ OnlyPerson(Head(q.todo))
                                /\ \A a \in Anons : ~ OnlyStranger(Head(q.todo), a)
    BY <2>2, <2>7 DEF Missed, QueryMissed
  <2> QED
    BY <2>2, <2>5, <2>7, <2>8, <2>9, <2>10, QuietMisses
<1>7. CASE ReadAnonymousProfile(s)
  <2>1. CASE Counts(s, query[s].match)
    <3>1. PICK q : q = [query[s] EXCEPT !.pc = "update", !.met = @ \cup {query[s].match},
                             !.seen = Min({anon[query[s].match].seen + 1, FamiliarSeen})]
      OBVIOUS
    <3>2. query' = [query EXCEPT ![s] = q] /\ UNCHANGED overtaken
      BY <1>7, <1>q, <2>1, <3>1 DEF ReadAnonymousProfile
    <3>3. q.pc = "update"
      BY <1>q, <3>1 DEF QueryStates
    <3>4. q \in QueryStates
      <4>1. IInv'
        BY <1>7, ReadKeeps
      <4>2. query'[s] \in QueryStates
        BY <4>1 DEF IInv, Shapes
      <4> QED
        BY <1>q, <3>2, <4>2
    <3> QED
      BY <1>7, <3>2, <3>3, <3>4, QuietMisses DEF ReadAnonymousProfile, Moves, tables
  <2>2. CASE ~ Counts(s, query[s].match)
    <3>1. NextTarget(s, query[s].met) /\ Settles(s)
      BY <1>7, <2>2 DEF ReadAnonymousProfile
    <3>2. PICK q \in QueryStates : Moves(s, q) /\ q.pc \in {"idle", "person"}
      BY <1>n, <1>7, <3>1 DEF ReadAnonymousProfile
    <3> QED
      BY <1>7, <3>1, <3>2, QuietMisses DEF ReadAnonymousProfile, Settles, tables
  <2> QED
    BY <2>1, <2>2
<1>8. CASE UpdateAnonymousProfile(s)
  <2>1. PICK q \in QueryStates : Moves(s, q) /\ q.pc \in {"idle", "person"}
    BY <1>e, <1>n, <1>8 DEF UpdateAnonymousProfile
  <2>2. \A a \in Anons : anon'[a].status = anon[a].status /\ anon'[a].face = anon[a].face
    <3>1. query[s].match \in Anons
      BY <1>8, <1>q DEF UpdateAnonymousProfile, Stands
    <3> QED
      BY <1>8, <1>r, <3>1 DEF UpdateAnonymousProfile, Updated, Rows
  <2> QED
    BY <1>8, <2>1, <2>2, QuietMisses DEF UpdateAnonymousProfile, Settles
<1>9. CASE QueryFails(s)
  <2>1. PICK q \in QueryStates : q = NoQuery
    BY <1>d
  <2>2. Moves(s, q) /\ q.pc = "idle"
    BY <1>9, <1>d, <2>1 DEF QueryFails, Moves
  <2> QED
    BY <1>9, <2>2, QuietMisses DEF QueryFails, Settles, tables
<1> QED
  BY <1>1, <1>2, <1>3, <1>4, <1>5, <1>6, <1>7, <1>8, <1>9 DEF QueryStep

(* What RememberedOnce says of one step and one face.                      *)
NoSecond(f) ==
    Memories(f) = 1 /\ Memories(f)' = 2 =>
        \E actor \in overtaken :
          IF actor = None THEN teach' # teach ELSE query'[actor] # query[actor]

LEMMA SameCount ==
  ASSUME NEW f, Rememberers(f)' = Rememberers(f), Acquaintances(f)' = Acquaintances(f)
  PROVE  NoSecond(f)
<1>1. Memories(f)' = Memories(f)
  BY DEF Memories, Rememberers, Acquaintances
<1> QED
  BY <1>1 DEF NoSecond

LEMMA OneOrTheOther ==
  ASSUME NEW P \in SUBSET People, NEW S \in SUBSET Anons
  PROVE  /\ Cardinality(P) + Cardinality(S) = 1 =>
              \/ S = {} /\ \E p \in People : P = {p}
              \/ P = {} /\ \E a \in Anons : S = {a}
         /\ \A x : P \subseteq {x} /\ S = {} => Cardinality(P) + Cardinality(S) # 2
<1>1. IsFiniteSet(1..MaxAnons)
  <2>1. MaxAnons \in Nat
    BY StoreAssumption
  <2> QED
    BY <2>1, FS_Interval
<1>2. IsFiniteSet(P) /\ IsFiniteSet(S)
  BY <1>1, PeopleAreFinite, FS_Subset DEF People, Anons
<1>3. Cardinality(P) \in Nat /\ Cardinality(S) \in Nat
  BY <1>2, FS_CardinalityType
<1>4. /\ (Cardinality(P) = 0 <=> P = {}) /\ (Cardinality(S) = 0 <=> S = {})
      /\ (Cardinality(P) = 1 <=> \E x : P = {x}) /\ (Cardinality(S) = 1 <=> \E x : S = {x})
  BY <1>2, FS_EmptySet, FS_Singleton
<1>5. Cardinality(P) + Cardinality(S) = 1 =>
         (Cardinality(P) = 1 /\ Cardinality(S) = 0) \/ (Cardinality(P) = 0 /\ Cardinality(S) = 1)
  BY <1>3
<1>6. ASSUME NEW x, P \subseteq {x}, S = {} PROVE Cardinality(P) + Cardinality(S) # 2
  <2>1. P = {} \/ P = {x}
    BY <1>6
  <2>2. (Cardinality(P) = 0 \/ Cardinality(P) = 1) /\ Cardinality(S) = 0
    BY <1>4, <1>6, <2>1
  <2> QED
    BY <2>2
<1> QED
  BY <1>4, <1>5, <1>6

LEMMA MemoriesAreSets ==
  ASSUME IInv, NEW f
  PROVE  /\ Rememberers(f) \in SUBSET People /\ Acquaintances(f) \in SUBSET Anons
         /\ Memories(f) = Cardinality(Rememberers(f)) + Cardinality(Acquaintances(f))
BY DEF IInv, Shapes, Vectors, Rememberers, Acquaintances, Active, Memories

LEMMA OneMemory ==
  ASSUME IInv, NEW f, Memories(f) = 1
  PROVE  \/ Acquaintances(f) = {} /\ OnlyPerson(f)
         \/ Rememberers(f) = {} /\ \E a \in Anons : OnlyStranger(f, a)
<1>1. Cardinality(Rememberers(f)) + Cardinality(Acquaintances(f)) = 1
  BY MemoriesAreSets
<1> QED
  BY <1>1, MemoriesAreSets, OneOrTheOther DEF OnlyPerson, OnlyStranger

(* A query adds a face to a profile nobody had: the only memory of it may  *)
(* be another one if the query looked before that was stored.              *)
LEMMA EmbeddingMisses ==
  ASSUME IInv, Missed, NEW s \in Streams, AddAnonymousEmbedding(s)
  PROVE  Missed' /\ \A f \in Faces : NoSecond(f)
<1>q. query[s] \in QueryStates /\ query \in [Streams -> QueryStates] /\ Stands(query[s])
  BY DEF IInv, Shapes, QueriesStand
<1>r. anon \in [Anons -> Rows]
  BY DEF IInv, Shapes
<1>1. PICK a \in Anons : a = query[s].match /\ anon[a].face = None
  BY <1>q DEF AddAnonymousEmbedding, Stands
<1>2. PICK f \in Faces : f = Head(query[s].todo)
  BY <1>q DEF AddAnonymousEmbedding, Stands, QueryStates
<1>3. /\ anon' = [anon EXCEPT ![a].face = f] /\ query[s].pc = "embed"
      /\ UNCHANGED <<vectors, denied, teach>>
      /\ overtaken' = (overtaken \cup LookedUp({f})) \ {s}
      /\ NextTarget(s, query[s].met \cup {a})
  BY <1>1, <1>2 DEF AddAnonymousEmbedding, Overtakes
<1>4. PICK q \in QueryStates : Moves(s, q) /\ q.pc \in {"idle", "person"}
  <2>1. query[s].todo # <<>> /\ query[s].met \cup {a} \in SUBSET Anons
    BY <1>q, <1>3 DEF Stands, QueryStates
  <2> QED
    BY <1>3, <2>1, NextTargetMoves DEF IInv
<1>5. query'[s] = q /\ \A t \in Streams \ {s} : query'[t] = query[t]
  BY <1>q, <1>4 DEF Moves
<1>6. ASSUME NEW g \in Faces \ {f}
      PROVE  Rememberers(g)' = Rememberers(g) /\ Acquaintances(g)' = Acquaintances(g)
  <2>1. Rememberers(g)' = Rememberers(g)
    BY <1>3 DEF Rememberers, Denied
  <2>2. g # None /\ anon'[a].face = f /\ \A b \in Anons \ {a} : anon'[b] = anon[b]
    BY <1>r, <1>3, StoreAssumption DEF Rows
  <2>3. Acquaintances(g)' = Acquaintances(g)
    BY <1>1, <2>2 DEF Acquaintances, Active
  <2> QED
    BY <2>1, <2>3
<1>7. \A t \in Streams : t = s /\ t \notin overtaken' => QueryMissed(t)'
  BY <1>4, <1>5 DEF QueryMissed
<1>8. s # None
  BY StoreAssumption
<1>9. PICK G : G = {f}
  OBVIOUS
<1>10. /\ \A g \in Faces \ G : /\ Rememberers(g)' = Rememberers(g)
                               /\ Acquaintances(g)' = Acquaintances(g)
       /\ (overtaken \cup LookedUp(G)) \ {s} \subseteq overtaken'
  BY <1>3, <1>6, <1>9
<1>11. /\ s \in Streams \cup {None}
       /\ (s # None => teach' = teach) /\ (s = None /\ None \notin overtaken' => TeachMissed')
       /\ IsFiniteSet(vectors')
  BY <1>3, <1>8 DEF Missed
<1>12. Missed'
  BY <1>5, <1>7, <1>10, <1>11, OthersMiss
<1>13. NoSecond(f)
  <2>1. query'[s] # query[s]
    BY <1>3, <1>4, <1>5
  <2>2. s \notin overtaken => Memories(f) # 1
    BY <1>2, <1>3, OneMemory DEF Missed, QueryMissed
  <2> QED
    BY <1>8, <2>1, <2>2 DEF NoSecond
<1> QED
  BY <1>6, <1>12, <1>13, SameCount

(* A handler that changes no memory.                                       *)
LEMMA TeachingMisses ==
  ASSUME IInv, Missed, UNCHANGED <<vectors, anon, denied, query>>, NEW q, teach' = q,
         overtaken \ {None} \subseteq overtaken',
         q.pc \in {"anonymous", "write", "commit"} => q.face \in Faces,
         q.pc \in {"anonymous", "write", "commit"} /\ None \notin overtaken' =>
            /\ ~ OnlyPerson(q.face)
            /\ q.pc # "anonymous" => \A a \in Anons : OnlyStranger(q.face, a) => q.match = a
  PROVE  SameMemories /\ Missed'
<1>1. SameMemories
  BY SameRows
<1>2. None \notin overtaken' => TeachMissed'
  <2>1. PICK f : f = q.face
    OBVIOUS
  <2>2. ASSUME None \notin overtaken', q.pc \in {"anonymous", "write", "commit"}
        PROVE  /\ ~ OnlyPerson(f)'
               /\ q.pc # "anonymous" => \A a \in Anons : OnlyStranger(f, a)' => q.match = a
    <3>1. /\ ~ OnlyPerson(f)
          /\ q.pc # "anonymous" => \A a \in Anons : OnlyStranger(f, a) => q.match = a
      BY <2>1, <2>2
    <3>2. Rememberers(f)' = Rememberers(f) /\ Acquaintances(f)' = Acquaintances(f)
      BY <1>1, <2>1, <2>2 DEF SameMemories
    <3> QED
      BY <3>1, <3>2 DEF OnlyPerson, OnlyStranger
  <2>3. teach'.face = f
    BY <2>1
  <2> QED
    BY <2>2, <2>3 DEF TeachMissed
<1>3. PICK G : G = {}
  OBVIOUS
<1>4. PICK actor : actor = None
  OBVIOUS
<1>5. LookedUp(G) = {}
  BY <1>3 DEF LookedUp
<1>6. /\ actor \in Streams \cup {None} /\ IsFiniteSet(vectors')
      /\ (overtaken \cup LookedUp(G)) \ {actor} \subseteq overtaken'
      /\ \A t \in Streams \ {actor} : query'[t] = query[t]
  BY <1>4, <1>5 DEF Missed
<1>7. \A f \in Faces \ G : Rememberers(f)' = Rememberers(f) /\ Acquaintances(f)' = Acquaintances(f)
  BY <1>1 DEF SameMemories
<1>8. /\ actor # None => teach' = teach
      /\ actor = None /\ None \notin overtaken' => TeachMissed'
  BY <1>2, <1>4
<1>9. \A s \in Streams : s = actor /\ s \notin overtaken' => QueryMissed(s)'
  BY <1>4, StoreAssumption
<1>10. Missed'
  BY <1>6, <1>7, <1>8, <1>9, OthersMiss
<1> QED
  BY <1>1, <1>10

LEMMA TeachMisses ==
  ASSUME IInv, Missed, Fits, TeachStep, ~ CommitTeach
  PROVE  SameMemories /\ Missed'
<1>t. teach \in TeachStates /\ (teach.pc # "idle" => teach.face \in Faces)
  BY DEF IInv, Shapes, TeachingStands
<1>n. PICK n \in TeachStates : n = NoTeach /\ n.pc = "idle"
  BY NoTeachIsState
<1>1. ASSUME NEW f \in Faces, NEW name \in Names, NEW ref \in Refs \cup {None},
             TeachPerson(f, name, ref)
      PROVE  SameMemories /\ Missed'
  <2>1. PICK e \in PersonMatches(vectors, f, Denied, None) :
          \/ /\ e = None
             /\ teach' = [n EXCEPT !.pc = "anonymous", !.face = f, !.name = name, !.ref = ref]
          \/ /\ e # None
             /\ teach' = [n EXCEPT !.pc = "profile", !.face = f, !.name = name,
                                   !.ref = ref, !.id = e.owner]
    BY <1>1, <1>n DEF TeachPerson
  <2>u. UNCHANGED <<vectors, anon, denied, query, overtaken>>
    BY <1>1 DEF TeachPerson, tables
  <2>2. CASE e = None
    <3>1. PICK q : q = [n EXCEPT !.pc = "anonymous", !.face = f, !.name = name, !.ref = ref]
      OBVIOUS
    <3>2. q.pc = "anonymous" /\ q.face = f
      BY <3>1 DEF TeachStates
    <3>3. ~ OnlyPerson(q.face)
      BY <2>1, <2>2, <3>2, PersonIsNotMissed DEF Missed
    <3> QED
      BY <2>1, <2>2, <2>u, <3>1, <3>2, <3>3, TeachingMisses
  <2>3. CASE e # None
    <3>1. PICK q : q = [n EXCEPT !.pc = "profile", !.face = f, !.name = name,
                                 !.ref = ref, !.id = e.owner]
      OBVIOUS
    <3>2. q.pc = "profile"
      BY <3>1 DEF TeachStates
    <3> QED
      BY <2>1, <2>3, <2>u, <3>1, <3>2, TeachingMisses
  <2> QED
    BY <2>2, <2>3
<1>2. CASE UpdateExistingPerson
  <2>1. teach'.pc \in {"link", "idle"}
    <3>1. teach' = [teach EXCEPT !.pc = "link"] \/ teach' = n
      BY <1>2, <1>n DEF UpdateExistingPerson
    <3>2. [teach EXCEPT !.pc = "link"].pc = "link"
      BY <1>t DEF TeachStates
    <3> QED
      BY <1>n, <3>1, <3>2
  <2>2. PICK q : q = teach'
    OBVIOUS
  <2> QED
    BY <1>2, <2>1, <2>2, TeachingMisses DEF UpdateExistingPerson, Settles
<1>3. CASE LinkExistingPerson
  BY <1>3, <1>n, TeachingMisses DEF LinkExistingPerson, Settles
<1>4. CASE TeachQueryAnonymous
  <2>1. PICK e \in AnonymousMatches(AnonVectors, teach.face, Active, None) :
          teach' = [teach EXCEPT !.pc = "write", !.match = IF e = None THEN None ELSE e.owner]
    BY <1>4 DEF TeachQueryAnonymous
  <2>u. UNCHANGED <<vectors, anon, denied, query, overtaken>> /\ teach.pc = "anonymous"
    BY <1>4 DEF TeachQueryAnonymous, tables
  <2>2. PICK m : m = IF e = None THEN None ELSE e.owner
    OBVIOUS
  <2>3. PICK q : q = [teach EXCEPT !.pc = "write", !.match = m]
    OBVIOUS
  <2>4. teach' = q /\ q.pc = "write" /\ q.match = m /\ q.face = teach.face
    BY <1>t, <2>1, <2>2, <2>3 DEF TeachStates
  <2>5. q.face \in Faces
    BY <1>t, <2>u, <2>4
  <2>6. \A a \in Anons : OnlyStranger(q.face, a) => q.match = a
    <3>1. e \in AnonymousMatches(AnonVectors, q.face, Active, None)
      BY <2>1, <2>4
    <3> QED
      BY <2>2, <2>4, <2>5, <3>1, StrangerIsNotMissed
  <2>7. None \notin overtaken' => ~ OnlyPerson(q.face)
    BY <2>u, <2>4 DEF Missed, TeachMissed
  <2> QED
    BY <2>u, <2>4, <2>5, <2>6, <2>7, TeachingMisses
<1>5. CASE WriteEmbeddingArtifact
  <2>1. PICK p : teach' = [teach EXCEPT !.pc = "commit", !.id = p]
    BY <1>5 DEF WriteEmbeddingArtifact
  <2>u. UNCHANGED <<vectors, anon, denied, query, overtaken>> /\ teach.pc = "write"
    BY <1>5 DEF WriteEmbeddingArtifact
  <2>2. PICK q : q = [teach EXCEPT !.pc = "commit", !.id = p]
    OBVIOUS
  <2>3. teach' = q /\ q.pc = "commit" /\ q.match = teach.match /\ q.face = teach.face
    BY <1>t, <2>1, <2>2 DEF TeachStates
  <2>4. None \notin overtaken' =>
          /\ ~ OnlyPerson(q.face)
          /\ \A a \in Anons : OnlyStranger(q.face, a) => q.match = a
    BY <2>u, <2>3 DEF Missed, TeachMissed
  <2> QED
    BY <1>t, <2>u, <2>3, <2>4, TeachingMisses
<1>6. CASE FailTeach
  BY <1>6, <1>n, TeachingMisses DEF FailTeach, Settles
<1> QED
  BY <1>1, <1>2, <1>3, <1>4, <1>5, <1>6 DEF TeachStep


(* A stranger who becomes a person moves the memory of one face and makes  *)
(* no second one.                                                          *)
LEMMA MovesOne ==
  ASSUME IInv, IInv', NEW f, NEW a, NEW p, OnlyStranger(f, a), Rememberers(f) = {},
         Rememberers(f)' \subseteq Rememberers(f) \cup {p},
         Acquaintances(f)' = Acquaintances(f) \ {a}
  PROVE  Memories(f)' # 2
<1>1. Rememberers(f)' \subseteq {p} /\ Acquaintances(f)' = {}
  BY DEF OnlyStranger
<1>2. Rememberers(f)' \in SUBSET People /\ Acquaintances(f)' \in SUBSET Anons
  BY DEF IInv, Shapes, Vectors, Rememberers, Acquaintances, Active
<1>3. Memories(f)' = Cardinality(Rememberers(f)') + Cardinality(Acquaintances(f)')
  BY DEF Memories, Rememberers, Acquaintances
<1> QED
  BY <1>1, <1>2, <1>3, OneOrTheOther

LEMMA MergedAreGone ==
  ASSUME IInv, NEW a \in Active, NEW p \in People, anon' = Merged(a, p)
  PROVE  \A f \in Faces : Acquaintances(f)' = Acquaintances(f) \ {a}
<1>1. /\ a \in Anons /\ anon'[a].status = "merged"
      /\ \A b \in Anons \ {a} : anon'[b] = anon[b]
  BY DEF IInv, Shapes, Active, Merged, Rows
<1>2. "merged" # "active"
  OBVIOUS
<1> QED
  BY <1>1, <1>2 DEF Acquaintances, Active

LEMMA TaughtAreAdded ==
  ASSUME NEW V, NEW p, vectors' = vectors \cup V, denied' = denied, \A v \in V : v.owner = p,
         NEW f
  PROVE  /\ Rememberers(f)' \subseteq Rememberers(f) \cup {p}
         /\ (\A v \in V : v.face # f) => Rememberers(f)' = Rememberers(f)
BY DEF Rememberers, Denied

LEMMA CopyIsOne ==
  ASSUME NEW a, NEW p
  PROVE  /\ IsFiniteSet(Copied(a, p))
         /\ \A v \in Copied(a, p) : v.owner = p /\ v.face = anon[a].face
<1>1. Copied(a, p) \subseteq {[owner |-> p, from |-> a, face |-> anon[a].face]}
  BY DEF Copied
<1>2. IsFiniteSet({[owner |-> p, from |-> a, face |-> anon[a].face]})
  BY FS_Singleton
<1> QED
  BY <1>1, <1>2, FS_Subset

(* A handler that changes the memories of the faces G.                     *)
LEMMA HandlerMisses ==
  ASSUME IInv, Missed, NEW G,
         \A f \in Faces \ G : /\ Rememberers(f)' = Rememberers(f)
                              /\ Acquaintances(f)' = Acquaintances(f),
         (overtaken \cup LookedUp(G)) \ {None} \subseteq overtaken',
         query' = query, teach'.pc = "idle", IsFiniteSet(vectors')
  PROVE  Missed'
<1>1. PICK actor : actor = None
  OBVIOUS
<1>2. /\ actor \in Streams \cup {None}
      /\ (overtaken \cup LookedUp(G)) \ {actor} \subseteq overtaken'
      /\ \A t \in Streams \ {actor} : query'[t] = query[t]
  BY <1>1
<1>3. /\ actor # None => teach' = teach
      /\ actor = None /\ None \notin overtaken' => TeachMissed'
  BY <1>1 DEF TeachMissed
<1>4. \A s \in Streams : s = actor /\ s \notin overtaken' => QueryMissed(s)'
  BY <1>1, StoreAssumption
<1> QED
  BY <1>2, <1>3, <1>4, OthersMiss

LEMMA CommitMisses ==
  ASSUME IInv, IInv', Missed, CommitTeach
  PROVE  Missed' /\ \A f \in Faces : NoSecond(f)
<1>1. PICK p \in People : p = teach.id
  BY DEF CommitTeach, IInv, TeachingStands
<1>2. PICK t \in Faces : t = teach.face
  BY DEF CommitTeach, IInv, TeachingStands
<1>3. PICK a \in Anons \cup {None} : a = teach.match /\ (a # None => a \in Active)
  BY DEF CommitTeach, IInv, Shapes, TeachStates
<1>4. PICK V : V = {Taught} \cup (IF a = None THEN {} ELSE Copied(a, p))
  OBVIOUS
<1>5. PICK G : G = {t} \cup (IF a = None THEN {} ELSE {anon[a].face})
  OBVIOUS
<1>6. /\ vectors' = vectors \cup V /\ denied' = denied /\ query' = query
      /\ teach' = NoTeach /\ teach.pc = "commit"
      /\ overtaken' = (overtaken \cup LookedUp(G)) \ {None}
      /\ IF a = None THEN anon' = anon ELSE anon' = Merged(a, p)
  BY <1>1, <1>2, <1>3, <1>4, <1>5 DEF CommitTeach, Overtakes
<1>7. /\ \A v \in V : v.owner = p /\ v.face \in G
      /\ IsFiniteSet(V)
  <2>1. Taught.owner = p /\ Taught.face = t
    BY <1>1, <1>2 DEF Taught
  <2>2. IsFiniteSet({Taught})
    BY FS_Singleton
  <2>3. CASE a = None
    BY <1>4, <1>5, <2>1, <2>2, <2>3
  <2>4. CASE a # None
    <3>1. V = {Taught} \cup Copied(a, p) /\ G = {t, anon[a].face}
      BY <1>4, <1>5, <2>4
    <3> QED
      BY <2>1, <2>2, <3>1, CopyIsOne, FS_Union
  <2> QED
    BY <2>3, <2>4
<1>8. IsFiniteSet(vectors')
  BY <1>6, <1>7, FS_Union DEF Missed
<1>9. \A f \in Faces : /\ Rememberers(f)' \subseteq Rememberers(f) \cup {p}
                       /\ f \notin G => Rememberers(f)' = Rememberers(f)
  BY <1>6, <1>7, TaughtAreAdded
<1>10. \A f \in Faces : Acquaintances(f)' = Acquaintances(f) \ {a}
  <2>1. CASE a = None
    <3>1. a \notin Anons
      BY <2>1, StoreAssumption DEF Anons
    <3>2. anon' = anon
      BY <1>6, <2>1
    <3> QED
      BY <3>1, <3>2 DEF Acquaintances, Active
  <2>2. CASE a # None
    BY <1>3, <1>6, <2>2, MergedAreGone
  <2> QED
    BY <2>1, <2>2
<1>11. \A f \in Faces \ G : Acquaintances(f)' = Acquaintances(f)
  <2>1. \A f \in Faces \ G : a \notin Acquaintances(f)
    BY <1>5, StoreAssumption DEF Acquaintances, Active, Anons
  <2> QED
    BY <1>10, <2>1
<1>12. teach'.pc = "idle"
  BY <1>6 DEF NoTeach
<1>13. Missed'
  <2>1. (overtaken \cup LookedUp(G)) \ {None} \subseteq overtaken'
    BY <1>6
  <2> QED
    BY <1>6, <1>8, <1>9, <1>11, <1>12, <2>1, HandlerMisses
<1>14. ASSUME NEW f \in Faces PROVE NoSecond(f)
  <2>1. CASE f \notin G
    BY <1>9, <1>11, <2>1, SameCount
  <2>2. CASE None \in overtaken
    <3>1. teach' # teach
      BY <1>6, <1>12
    <3> QED
      BY <2>2, <3>1 DEF NoSecond
  <2>3. ASSUME f \in G, None \notin overtaken, Memories(f) = 1 PROVE Memories(f)' # 2
    <3>1. \/ Acquaintances(f) = {} /\ OnlyPerson(f)
          \/ Rememberers(f) = {} /\ \E b \in Anons : OnlyStranger(f, b)
      BY <2>3, OneMemory
    <3>2. f = t => ~ OnlyPerson(f) /\ \A b \in Anons : OnlyStranger(f, b) => a = b
      BY <1>2, <1>3, <1>6, <2>3 DEF Missed, TeachMissed
    <3>3. f # t => a \in Acquaintances(f)
      BY <1>3, <1>5, <2>3 DEF Acquaintances
    <3>4. Rememberers(f) = {} /\ OnlyStranger(f, a)
      BY <3>1, <3>2, <3>3 DEF OnlyStranger
    <3> QED
      BY <1>9, <1>10, <3>4, MovesOne
  <2> QED
    BY <2>1, <2>2, <2>3 DEF NoSecond
<1> QED
  BY <1>13, <1>14

LEMMA MergeMisses ==
  ASSUME IInv, IInv', Missed, NEW a \in Anons, NEW p \in People, NEW name \in Names \cup {None},
         NEW ref \in Refs \cup {None}, MergeAnonymousPerson(a, p, name, ref)
  PROVE  Missed' /\ \A f \in Faces : NoSecond(f)
<1>1. PICK G : G = {anon[a].face}
  OBVIOUS
<1>2. PICK V : V = Copied(a, p)
  OBVIOUS
<1>3. /\ a \in Active /\ vectors' = vectors \cup V /\ anon' = Merged(a, p)
      /\ denied' = denied /\ query' = query /\ teach'.pc = "idle"
      /\ overtaken' = overtaken \cup LookedUp(G)
  BY <1>1, <1>2 DEF MergeAnonymousPerson
<1>4. IsFiniteSet(V) /\ \A v \in V : v.owner = p /\ v.face \in G
  BY <1>1, <1>2, CopyIsOne
<1>5. IsFiniteSet(vectors')
  BY <1>3, <1>4, FS_Union DEF Missed
<1>6. \A f \in Faces : /\ Rememberers(f)' \subseteq Rememberers(f) \cup {p}
                       /\ f \notin G => Rememberers(f)' = Rememberers(f)
  <2>1. vectors' = vectors \cup V /\ denied' = denied /\ \A v \in V : v.owner = p
    BY <1>3, <1>4
  <2>2. \A f \in Faces \ G : \A v \in V : v.face # f
    BY <1>4
  <2> QED
    BY <2>1, <2>2, TaughtAreAdded
<1>7. \A f \in Faces : Acquaintances(f)' = Acquaintances(f) \ {a}
  BY <1>3, MergedAreGone
<1>8. \A f \in Faces \ G : a \notin Acquaintances(f)
  BY <1>1 DEF Acquaintances
<1>9. \A f \in Faces \ G : /\ Rememberers(f)' = Rememberers(f)
                           /\ Acquaintances(f)' = Acquaintances(f)
  BY <1>6, <1>7, <1>8
<1>10. Missed'
  <2>1. (overtaken \cup LookedUp(G)) \ {None} \subseteq overtaken'
    BY <1>3
  <2> QED
    BY <1>3, <1>5, <1>9, <2>1, HandlerMisses
<1>11. ASSUME NEW f \in Faces, f \in G, Memories(f) = 1 PROVE Memories(f)' # 2
  <2>1. a \in Acquaintances(f)
    BY <1>1, <1>3, <1>11 DEF Acquaintances
  <2>2. Rememberers(f) = {} /\ OnlyStranger(f, a)
    BY <1>11, <2>1, OneMemory DEF OnlyStranger
  <2> QED
    BY <1>6, <1>7, <2>2, MovesOne
<1> QED
  BY <1>9, <1>10, <1>11, SameCount DEF NoSecond

LEMMA CorrectMisses ==
  ASSUME IInv, IInv', Missed, NEW m \in matches, CorrectIdentity(m)
  PROVE  Missed' /\ \A f \in Faces : NoSecond(f)
<1>1. PICK G : G = {m.vector.face}
  OBVIOUS
<1>2. /\ denied' = {d \in denied : d.vector # m.vector} \cup {m}
      /\ UNCHANGED <<vectors, anon, query, teach>> /\ teach'.pc = "idle"
      /\ overtaken' = overtaken \cup LookedUp(G)
  BY <1>1 DEF CorrectIdentity
<1>3. Denied' = Denied \cup {m.vector}
  BY <1>2 DEF Denied
<1>4. \A f \in Faces : /\ Rememberers(f)' \subseteq Rememberers(f)
                       /\ f \notin G => Rememberers(f)' = Rememberers(f)
                       /\ Acquaintances(f)' = Acquaintances(f)
  BY <1>1, <1>2, <1>3 DEF Rememberers, Acquaintances, Active
<1>5. Missed'
  <2>1. (overtaken \cup LookedUp(G)) \ {None} \subseteq overtaken'
    BY <1>2
  <2>2. IsFiniteSet(vectors')
    BY <1>2 DEF Missed
  <2> QED
    BY <1>2, <1>4, <2>1, <2>2, HandlerMisses
<1>6. ASSUME NEW f \in Faces, Memories(f) = 1 PROVE Memories(f)' # 2
  <2>1. \/ Acquaintances(f) = {} /\ OnlyPerson(f)
        \/ Rememberers(f) = {} /\ \E a \in Anons : OnlyStranger(f, a)
    BY <1>6, OneMemory
  <2>2. /\ Rememberers(f)' \in SUBSET People /\ Acquaintances(f)' \in SUBSET Anons
        /\ Memories(f)' = Cardinality(Rememberers(f)') + Cardinality(Acquaintances(f)')
    BY DEF IInv, Shapes, Vectors, Rememberers, Acquaintances, Active, Memories
  <2>3. CASE Acquaintances(f) = {} /\ OnlyPerson(f)
    <3>1. PICK q : Rememberers(f)' \subseteq {q}
      BY <1>4, <2>3 DEF OnlyPerson
    <3> QED
      BY <1>4, <2>2, <2>3, <3>1, OneOrTheOther
  <2>4. CASE Rememberers(f) = {}
    <3>1. Rememberers(f)' = Rememberers(f) /\ Acquaintances(f)' = Acquaintances(f)
      BY <1>4, <2>4
    <3>2. Memories(f)' = Memories(f)
      BY <3>1 DEF Memories, Rememberers, Acquaintances
    <3> QED
      BY <1>6, <3>2
  <2> QED
    BY <2>1, <2>3, <2>4
<1> QED
  BY <1>5, <1>6 DEF NoSecond

LEMMA CrashMisses ==
  ASSUME Missed, Crash
  PROVE  SameMemories /\ Missed'
<1>1. /\ query' = [s \in Streams |-> NoQuery] /\ teach' = NoTeach /\ overtaken' = {}
      /\ UNCHANGED <<vectors, anon, denied>>
  BY DEF Crash, tables
<1>2. SameMemories
  BY <1>1, SameRows
<1>3. teach'.pc = "idle" /\ \A s \in Streams : query'[s].pc = "idle"
  BY <1>1 DEF NoTeach, NoQuery
<1> QED
  BY <1>1, <1>2, <1>3 DEF Missed, QueryMissed, TeachMissed

LEMMA MissesKept ==
  ASSUME IInv, IInv', Missed, Fits, Next
  PROVE  Missed' /\ \A f \in Faces : NoSecond(f)
<1>1. ASSUME SameMemories, Missed' PROVE Missed' /\ \A f \in Faces : NoSecond(f)
  BY <1>1, SameCount DEF SameMemories
<1>2. ASSUME NEW s \in Streams, QueryStep(s) PROVE Missed' /\ \A f \in Faces : NoSecond(f)
  BY <1>1, <1>2, QueryMisses, EmbeddingMisses
<1>3. CASE TeachStep
  BY <1>1, <1>3, TeachMisses, CommitMisses
<1>4. ASSUME NEW r \in Refs, NEW p \in People, LinkExternalUser(r, p)
      PROVE  SameMemories /\ Missed'
  <2>1. PICK q : q = teach /\ q.pc = "idle"
    BY <1>4 DEF LinkExternalUser
  <2> QED
    BY <1>4, <2>1, TeachingMisses DEF LinkExternalUser
<1>5. CASE HandlerStep
  BY <1>1, <1>4, <1>5, MergeMisses, CorrectMisses DEF HandlerStep
<1>6. CASE Crash
  BY <1>1, <1>6, CrashMisses
<1> QED
  BY <1>2, <1>3, <1>5, <1>6 DEF Next

LEMMA InitMissed == Init => Missed
<1> SUFFICES ASSUME Init PROVE Missed
  OBVIOUS
<1>1. vectors = {} /\ query = [s \in Streams |-> NoQuery] /\ teach = NoTeach
  BY DEF Init
<1>2. teach.pc = "idle" /\ \A s \in Streams : query[s].pc = "idle"
  BY <1>1 DEF NoTeach, NoQuery
<1> QED
  BY <1>1, <1>2, FS_EmptySet DEF Missed, QueryMissed, TeachMissed

(* As long as every search sees the whole table, nobody comes to be        *)
(* remembered twice but by who had looked before the first memory, and     *)
(* nobody is forgotten but by a correction.                                *)
THEOREM MemoriesAreConserved == Spec /\ []Fits => Conserved
<1> DEFINE Step == \A f \in Faces : Memories(f) = 1 /\ Memories(f)' = 2 =>
                     \E actor \in overtaken :
                       IF actor = None THEN teach' # teach ELSE query'[actor] # query[actor]
<1>1. IInv /\ IInv' /\ Missed /\ Fits /\ [Next]_vars => Missed'
  <2>1. ASSUME Missed, UNCHANGED vars PROVE Missed'
    <3>1. UNCHANGED <<person, vectors, anon, denied, query, teach, overtaken>>
      BY <2>1 DEF vars, tables
    <3> QED
      BY <2>1, <3>1 DEF Missed, QueryMissed, TeachMissed, OnlyPerson, OnlyStranger,
         Rememberers, Acquaintances, Active, Denied
  <2> QED
    BY <2>1, MissesKept
<1>2. IInv /\ IInv' /\ Missed /\ Fits /\ [Next]_vars => [Step]_vars
  BY MissesKept DEF NoSecond
<1>3. Spec /\ []Fits => []Missed
  BY <1>1, InitMissed, StoreInvariance, PTL DEF Spec
<1>4. Spec /\ []Fits => [][Step]_vars
  BY <1>2, <1>3, StoreInvariance, PTL DEF Spec
<1>5. Spec /\ []Fits => RememberedOnce
  BY <1>4 DEF RememberedOnce
<1> QED
  BY <1>5, NobodyForgotten DEF Conserved

-----------------------------------------------------------------------------
(* How clear a match is                                                    *)

LEMMA MaxOfThreeLevels ==
  ASSUME NEW S \in SUBSET {0, 1, 2}, S # {}
  PROVE  Max(S) \in S /\ \A y \in S : Max(S) >= y
<1>1. \E x \in S : \A y \in S : x >= y
  <2>1. CASE 2 \in S
    BY <2>1
  <2>2. CASE 2 \notin S /\ 1 \in S
    BY <2>2
  <2>3. CASE 2 \notin S /\ 1 \notin S
    <3>1. S = {0}
      BY <2>3
    <3> QED
      BY <3>1
  <2> QED
    BY <2>1, <2>2, <2>3
<1> QED
  BY <1>1 DEF Max

(* What the nearest vectors leave out is no nearer, and they leave nothing *)
(* out but for want of room.                                               *)
LEMMA NearestAreNearer ==
  ASSUME NEW E, NEW f, NEW k, NEW S \in Nearest(E, f, k)
  PROVE  /\ S \subseteq E
         /\ S = E \/ Cardinality(S) = k
         /\ \A e \in S, d \in E \ S : Score(e.face, f) >= Score(d.face, f)
BY DEF Nearest, kSubset

(* query_person with a window of k vectors.                                *)
MatchesWithin(k, E, f, D, none) ==
    UNION {UNION {ResultsOf(Verdicts(W \ D, f, Cardinality(F) > k), none) :
                    W \in Nearest(F, f, k)} :
             F \in Nearest(E, f, k + 1)}

LEMMA MatchesWithinAreClear ==
  ASSUME NEW k \in Nat, NEW E, IsFiniteSet(E), NEW f, NEW D, NEW none,
         NEW e \in MatchesWithin(k, E, f, D, none), e # none
  PROVE  /\ e \in E \ D /\ Score(e.face, f) >= Threshold
         /\ \A d \in E \ D : d.owner # e.owner => Score(e.face, f) - Score(d.face, f) >= Margin
<1>1. PICK F \in Nearest(E, f, k + 1) :
        e \in UNION {ResultsOf(Verdicts(W \ D, f, Cardinality(F) > k), none) :
                       W \in Nearest(F, f, k)}
  BY DEF MatchesWithin
<1>2. PICK W \in Nearest(F, f, k) :
        e \in ResultsOf(Verdicts(W \ D, f, Cardinality(F) > k), none)
  BY <1>1
<1> DEFINE others == {d \in W \ D : d.owner # e.owner}
           scores == {Score(d.face, f) : d \in others}
           second == IF others = {} THEN 0 ELSE Max(scores)
<1>3. /\ e \in W \ D /\ Score(e.face, f) >= Threshold
      /\ ~ Undecided(others, Cardinality(F) > k)
      /\ Score(e.face, f) - second >= Margin
  <2>1. e \in Verdicts(W \ D, f, Cardinality(F) > k)
    BY <1>2 DEF ResultsOf
  <2> QED
    BY <2>1 DEF Verdicts, BestOf
<1>4. /\ W \subseteq F /\ F \subseteq E
      /\ W = F \/ Cardinality(W) = k
      /\ F = E \/ Cardinality(F) = k + 1
      /\ \A w \in W, d \in E \ W : Score(w.face, f) >= Score(d.face, f)
  BY NearestAreNearer
<1>5. others # {} => \A o \in others : second >= Score(o.face, f)
  <2>1. scores \in SUBSET {0, 1, 2}
    BY LevelsOfLikeness
  <2>2. others # {} => scores # {}
    OBVIOUS
  <2>3. \A o \in others : Score(o.face, f) \in scores
    OBVIOUS
  <2> HIDE DEF others, scores
  <2> QED
    BY <2>1, <2>2, <2>3, MaxOfThreeLevels
<1>6. others = {} => W = E
  <2>1. others = {} => ~ (Cardinality(F) > k)
    BY <1>3 DEF Undecided
  <2>2. ASSUME ~ (Cardinality(F) > k) PROVE F = E /\ W = F
    <3>1. k \in Nat
      OBVIOUS
    <3>2. F = E
      BY <1>4, <2>2, <3>1
    <3>3. Cardinality(F) <= k
      BY <2>2, <3>1, <3>2, FS_CardinalityType
    <3>4. Nearest(F, f, k) = {F}
      BY <3>3 DEF Nearest
    <3> QED
      BY <3>2, <3>4
  <2> QED
    BY <2>1, <2>2
<1>7. ASSUME NEW d \in E \ D, d.owner # e.owner
      PROVE  Score(e.face, f) - Score(d.face, f) >= Margin
  <2>1. others # {}
    BY <1>6, <1>7
  <2>2. second >= Score(d.face, f)
    <3>1. CASE d \in W
      BY <1>5, <1>7, <2>1, <3>1
    <3>2. CASE d \notin W
      <4>1. PICK o \in others : second >= Score(o.face, f)
        BY <1>5, <2>1
      <4>2. o \in W /\ Score(o.face, f) >= Score(d.face, f)
        BY <1>4, <1>7, <3>2
      <4>3. second \in {0, 1, 2}
        <5>1. scores \in SUBSET {0, 1, 2} /\ scores # {}
          BY <2>1, LevelsOfLikeness
        <5> HIDE DEF scores
        <5> QED
          BY <2>1, <5>1, MaxOfThreeLevels
      <4>4. Score(o.face, f) \in {0, 1, 2} /\ Score(d.face, f) \in {0, 1, 2}
        BY LevelsOfLikeness
      <4> HIDE DEF second
      <4> QED
        BY <4>1, <4>2, <4>3, <4>4
    <3> QED
      BY <3>1, <3>2
  <2>3. second \in Int /\ Score(e.face, f) \in Int /\ Score(d.face, f) \in Int
    <3>1. scores \in SUBSET {0, 1, 2} /\ scores # {}
      BY <2>1, LevelsOfLikeness
    <3>2. Max(scores) \in scores
      <4> HIDE DEF scores
      <4> QED
        BY <3>1, MaxOfThreeLevels
    <3>3. second \in {0, 1, 2}
      BY <2>1, <3>1, <3>2
    <3>4. Score(e.face, f) \in {0, 1, 2} /\ Score(d.face, f) \in {0, 1, 2}
      BY LevelsOfLikeness
    <3> HIDE DEF second
    <3> QED
      BY <3>3, <3>4
  <2> HIDE DEF second
  <2> QED
    BY <1>3, <2>2, <2>3 DEF Margin
<1> QED
  BY <1>3, <1>4, <1>7

(* Whoever is taken for a person is so by the margin, against everybody    *)
(* else in the whole table: the runner-up does not hide outside the        *)
(* window, however many vectors a person has and whichever were denied.    *)
THEOREM MatchesAreClear ==
  ASSUME NEW E, IsFiniteSet(E), NEW f, NEW D,
         NEW e \in PersonMatches(E, f, D, None), e # None
  PROVE  /\ e \in E \ D /\ Score(e.face, f) >= Threshold
         /\ \A d \in E \ D : d.owner # e.owner => Score(e.face, f) - Score(d.face, f) >= Margin
<1>1. e \in MatchesWithin(Window, E, f, D, None)
  BY DEF PersonMatches, MatchesWithin
<1>2. Window \in Nat
  BY RetrieverAssumption
<1> QED
  BY <1>1, <1>2, MatchesWithinAreClear

(* The same of the narrow window the run looks through, with which a       *)
(* person can have more vectors than the retriever sees of anybody.        *)
THEOREM MarginsAreReal == Spec => []MarginIsReal
<1>1. ASSUME NEW E, NEW f
      PROVE  Narrow!PersonMatches(E, f, {}, None) = MatchesWithin(2, E, f, {}, None)
  <2>1. /\ \A S : Narrow!Cardinality(S) = Cardinality(S)
        /\ \A a, b : Narrow!Score(a, b) = Score(a, b)
    BY DEF Narrow!Cardinality, Cardinality, Narrow!Score, Score
  <2>2. \A S, g, n : Narrow!Nearest(S, g, n) = Nearest(S, g, n)
    BY <2>1 DEF Narrow!Nearest, Nearest, Narrow!kSubset, kSubset
  <2>3. \A W, g, t : Narrow!Verdicts(W, g, t) = Verdicts(W, g, t)
    BY DEF Narrow!Verdicts, Verdicts, Narrow!BestOf, BestOf, Narrow!Undecided, Undecided,
           Narrow!Score, Score, Narrow!Threshold, Threshold, Narrow!Margin, Margin,
           Narrow!Max, Max
  <2>4. \A V : Narrow!ResultsOf(V, None) = ResultsOf(V, None)
    BY DEF Narrow!ResultsOf, ResultsOf
  <2> QED
    BY <2>1, <2>2, <2>3, <2>4 DEF Narrow!PersonMatches, MatchesWithin
<1>2. ASSUME NEW E, IsFiniteSet(E), NEW f, NEW e \in MatchesWithin(2, E, f, {}, None), e # None
      PROVE  Unambiguous(E, f, e)
  <2>1. /\ Score(e.face, f) >= Threshold
        /\ \A d \in E \ {} : d.owner # e.owner =>
                              Score(e.face, f) - Score(d.face, f) >= Margin
    BY <1>2, MatchesWithinAreClear
  <2> QED
    BY <2>1 DEF Unambiguous
<1>3. MarginIsReal
  BY <1>1, <1>2 DEF MarginIsReal
<1> QED
  BY <1>3, PTL
=============================================================================
