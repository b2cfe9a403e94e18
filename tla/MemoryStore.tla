---------------------------- MODULE MemoryStore ----------------------------
(***************************************************************************)
(* The tables of memory/store.py with all that writes to them: background  *)
(* queries, which run in threads of the default executor, one per stream;  *)
(* and the HTTP handlers, which run on the event loop: teach_person after  *)
(* its embedding, merge_anonymous_person, correct_identity and             *)
(* link_external_user.  A handler never awaits between its calls of the    *)
(* store, so handlers exclude each other, but the store takes its lock for *)
(* one call at a time and the threads write between any two of them.       *)
(***************************************************************************)
EXTENDS Retriever, Sequences

CONSTANTS
    None,
    Streams,       \* the streams with a background query
    Pictures,      \* the faces of the tracks in a frame, one after the other
    Names, Refs,   \* display names and external users
    MaxPeople, MaxAnons,   \* bounds: rows of person_profiles, anonymous_profiles
    FamiliarSeen,  \* familiar_seen_count, where the model stops counting
    MaxQueries, MaxMishaps \* bounds: queries; crashes and crops that could not be deleted

ASSUME StoreAssumption ==
    /\ Pictures \subseteq Seq(Faces) \ {<<>>}
    /\ {MaxPeople, MaxAnons, MaxQueries, MaxMishaps} \subseteq Nat
    /\ FamiliarSeen \in Nat \ {0}
    /\ None \notin Faces \cup Names \cup Refs \cup Streams \cup Nat
    /\ None \notin [owner : Nat, from : Nat, face : Faces] \cup [owner : Nat, face : Faces]

People == 1..MaxPeople
Anons == 1..MaxAnons

VARIABLES
    person,     \* person_profiles: the display name
    vectors,    \* person_embeddings: whose, of which face, copied from whom (0: taught)
    anon,       \* anonymous_profiles, each with the face of its one embedding
    link,       \* external_user_links
    denied,     \* negative_identity_matches: the match corrected last for each vector
    matches,    \* memory_match_records of people, with the face that was matched
    crops,      \* crop files, by the person they were written for
    query,      \* the background query of each stream
    teach,      \* the teach_person request that has the event loop
    overtaken,  \* history: who looked a face up before its memory was changed
    sightings,  \* history: in how many queries an anonymous profile was found
    queries,    \* how many queries were started
    mishaps     \* how often a crop may have been left: crashes, failures to delete

tables == <<person, vectors, anon, link, denied, matches, crops>>
vars == <<person, vectors, anon, link, denied, matches, crops, query, teach,
          overtaken, sightings, queries, mishaps>>

NoRow == [status |-> "none", seen |-> 0, into |-> 0, face |-> None]
NoQuery == [pc |-> "idle", todo |-> <<>>, met |-> {}, match |-> None, seen |-> 0]
NoTeach == [pc |-> "idle", face |-> None, name |-> None, ref |-> None, match |-> None, id |-> 0]

\* The service is started on a database: an empty one, or one that already knows
\* a familiar stranger.
Strangers == {[a \in Anons |-> NoRow]} \cup
    {[a \in Anons |-> IF a # 1 THEN NoRow
                      ELSE [status |-> "active", seen |-> FamiliarSeen, into |-> 0, face |-> f]] :
       f \in Faces}

Init ==
    /\ person = [p \in People |-> None] /\ vectors = {}
    /\ anon \in Strangers
    /\ link = [r \in Refs |-> 0] /\ denied = {} /\ matches = {} /\ crops = {}
    /\ query = [s \in Streams |-> NoQuery] /\ teach = NoTeach
    /\ overtaken = {} /\ sightings = [a \in Anons |-> anon[a].seen]
    /\ queries = 0 /\ mishaps = 0

Active == {a \in Anons : anon[a].status = "active"}
AnonVectors == {[owner |-> a, face |-> anon[a].face] :
                  a \in {b \in Anons : anon[b].face # None}}
FreePeople == {p \in People : person[p] = None /\ p \notin crops}
Denied == {d.vector : d \in denied}
FreeAnons == {a \in Anons : anon[a].status = "none"}

\* History: who is between looking one of these faces up and storing what it found.
LookedUp(faces) ==
    {s \in Streams : query[s].pc \notin {"idle", "person"} /\ Head(query[s].todo) \in faces}
    \cup (IF teach.pc # "idle" /\ teach.face \in faces THEN {None} ELSE {})
Overtakes(actor, faces) == overtaken' = (overtaken \cup LookedUp(faces)) \ {actor}
Settles(actor) == overtaken' = overtaken \ {actor}

-----------------------------------------------------------------------------
(* A background query: _run_query over the tracks of a frame *)

Goto(s, pc) == query' = [query EXCEPT ![s].pc = pc]
NextTarget(s, met) ==
    query' = [query EXCEPT ![s] =
                IF Len(@.todo) = 1 THEN NoQuery
                ELSE [NoQuery EXCEPT !.pc = "person", !.todo = Tail(query[s].todo),
                                   !.met = met]]
\* The loop over the tracks breaks after the first event.
AfterEvent(s) == query' = [query EXCEPT ![s] = NoQuery]

StartQuery(s, faces) ==
    /\ query[s].pc = "idle" /\ queries < MaxQueries
    /\ queries' = queries + 1
    /\ query' = [query EXCEPT ![s] = [NoQuery EXCEPT !.pc = "person", !.todo = faces]]
    /\ UNCHANGED <<tables, teach, overtaken, sightings, mishaps>>

QueryPerson(s) ==
    /\ query[s].pc = "person"
    /\ \E e \in PersonMatches(vectors, Head(query[s].todo), Denied, None) :
         \/ e # None /\ query' = [query EXCEPT ![s].pc = "known", ![s].match = e]
         \/ e = None /\ Goto(s, "anonymous")
    /\ UNCHANGED <<tables, teach, overtaken, sightings, queries, mishaps>>

\* No usable face, or a crop too poor for the anonymous profiles.
SkipTarget(s) ==
    /\ query[s].pc = "person"
    /\ NextTarget(s, query[s].met)
    /\ UNCHANGED <<tables, teach, overtaken, sightings, queries, mishaps>>

Recorded(vector, face) == matches \cup {[vector |-> vector, face |-> face]}

\* The gate lets known_person_present pass and the match is recorded, or not.
KnownPerson(s) ==
    /\ query[s].pc = "known"
    /\ \/ /\ matches' = Recorded(query[s].match, Head(query[s].todo))
          /\ AfterEvent(s)
       \/ UNCHANGED matches /\ NextTarget(s, query[s].met)
    /\ Settles(s)
    /\ UNCHANGED <<person, vectors, anon, link, denied, crops, teach, sightings, queries, mishaps>>

QueryAnonymous(s) ==
    /\ query[s].pc = "anonymous"
    /\ \E e \in AnonymousMatches(AnonVectors, Head(query[s].todo), Active, None) :
         \/ e = None /\ Goto(s, "create")
         \/ e # None /\ query' = [query EXCEPT ![s].pc = "profile", ![s].match = e.owner]
    /\ UNCHANGED <<tables, teach, overtaken, sightings, queries, mishaps>>

CreateAnonymousProfile(s) ==
    /\ query[s].pc = "create"
    /\ FreeAnons # {}
    /\ LET a == Min(FreeAnons) IN
         /\ anon' = [anon EXCEPT ![a] = [NoRow EXCEPT !.status = "active", !.seen = 1]]
         /\ query' = [query EXCEPT ![s].pc = "embed", ![s].match = a]
         /\ sightings' = [sightings EXCEPT ![a] = 1]
    /\ UNCHANGED <<person, vectors, link, denied, matches, crops, teach, overtaken, queries, mishaps>>

AddAnonymousEmbedding(s) ==
    /\ query[s].pc = "embed"
    /\ anon' = [anon EXCEPT ![query[s].match].face = Head(query[s].todo)]
    /\ NextTarget(s, query[s].met \cup {query[s].match})
    /\ Overtakes(s, {Head(query[s].todo)})
    /\ UNCHANGED <<person, vectors, link, denied, matches, crops, teach, sightings, queries, mishaps>>

CountsTwice(s, a) == anon[a].status = "active"  \* mutant
\* One query counts an anonymous profile once, however many tracks look like it.
Counts(s, a) == anon[a].status = "active" /\ a \notin query[s].met

ReadAnonymousProfile(s) ==
    /\ query[s].pc = "profile"
    /\ LET a == query[s].match IN
         IF Counts(s, a)
         THEN /\ query' = [query EXCEPT ![s].pc = "update", ![s].met = @ \cup {a},
                                        ![s].seen = Min({anon[a].seen + 1, FamiliarSeen})]
              /\ sightings' = [sightings EXCEPT ![a] =
                                 IF a \in query[s].met THEN @ ELSE Min({@ + 1, FamiliarSeen})]
              /\ UNCHANGED overtaken
         ELSE NextTarget(s, query[s].met) /\ Settles(s) /\ UNCHANGED sightings
    /\ UNCHANGED <<tables, teach, queries, mishaps>>

RowAsRead(row, seen) == [row EXCEPT !.seen = seen, !.status = "active", !.into = 0] \* mutant
\* The UPDATE names the columns it sets, and not the status.
Updated(row, seen) == [row EXCEPT !.seen = seen]

\* Familiar or not, and told of or not: the event ends the query.
UpdateAnonymousProfile(s) ==
    /\ query[s].pc = "update"
    /\ anon' = [anon EXCEPT ![query[s].match] = Updated(@, query[s].seen)]
    /\ \/ NextTarget(s, query[s].met)
       \/ query[s].seen >= FamiliarSeen /\ AfterEvent(s)
    /\ Settles(s)
    /\ UNCHANGED <<person, vectors, link, denied, matches, crops, teach, sightings, queries, mishaps>>

\* An exception of the backend or the store ends the query where it is.
QueryFails(s) ==
    /\ query[s].pc # "idle"
    /\ query' = [query EXCEPT ![s] = NoQuery]
    /\ Settles(s)
    /\ UNCHANGED <<tables, teach, sightings, queries, mishaps>>

-----------------------------------------------------------------------------
(* teach_person, from the embedding it awaited to its answer *)

TakenByOther(ref, p) == ref # None /\ link[ref] \notin {0, p}
\* The person is known: another display name or somebody else's account is a conflict.
TeachConflict(name, ref, p) ==
    \/ TakenByOther(ref, p)
    \/ person[p] # name /\ ~ (ref # None /\ link[ref] = p)

TeachPerson(f, name, ref) ==
    /\ teach.pc = "idle"
    /\ \E e \in PersonMatches(vectors, f, Denied, None) :
         \/ /\ e = None
            /\ teach' = [NoTeach EXCEPT !.pc = "anonymous", !.face = f, !.name = name, !.ref = ref]
         \/ /\ e # None /\ ~ TeachConflict(name, ref, e.owner)
            /\ teach' = [NoTeach EXCEPT !.pc = "profile", !.face = f, !.name = name,
                                        !.ref = ref, !.id = e.owner]
    /\ UNCHANGED <<tables, query, overtaken, sightings, queries, mishaps>>

Upserted(p, name) == [person EXCEPT ![p] = name]

\* upsert_person_profile and link_external_user are two transactions.
UpdateExistingPerson ==
    /\ teach.pc = "profile"
    /\ person' = Upserted(teach.id, teach.name)
    /\ teach' = IF teach.ref # None /\ link[teach.ref] = 0
                THEN [teach EXCEPT !.pc = "link"] ELSE NoTeach
    /\ Settles(None)
    /\ UNCHANGED <<vectors, anon, link, denied, matches, crops, query, sightings, queries, mishaps>>

LinkExistingPerson ==
    /\ teach.pc = "link"
    /\ link' = [link EXCEPT ![teach.ref] = teach.id]
    /\ teach' = NoTeach
    /\ Settles(None)
    /\ UNCHANGED <<person, vectors, anon, denied, matches, crops, query, sightings, queries, mishaps>>

TeachQueryAnonymous ==
    /\ teach.pc = "anonymous"
    /\ \E e \in AnonymousMatches(AnonVectors, teach.face, Active, None) :
         teach' = [teach EXCEPT !.pc = "write", !.match = IF e = None THEN None ELSE e.owner]
    /\ UNCHANGED <<tables, query, overtaken, sightings, queries, mishaps>>

WriteEmbeddingArtifact ==
    /\ teach.pc = "write"
    /\ FreePeople # {}
    /\ crops' = crops \cup {Min(FreePeople)}
    /\ teach' = [teach EXCEPT !.pc = "commit", !.id = Min(FreePeople)]
    /\ UNCHANGED <<person, vectors, anon, link, denied, matches, query, overtaken,
                   sightings, queries, mishaps>>

\* The rows of promote_anonymous_to_person for anonymous a and person p.
NothingCopied(a, p) == {}  \* mutant
Copied(a, p) ==
    {[owner |-> p, from |-> a, face |-> anon[a].face] : b \in {c \in {a} : anon[c].face # None}}
Merged(a, p) == [anon EXCEPT ![a].status = "merged", ![a].into = p]
LinkedTo(ref, p) == IF ref = None THEN link ELSE [link EXCEPT ![ref] = p]
Taught == [owner |-> teach.id, from |-> 0, face |-> teach.face]

CommitTeach ==
    /\ teach.pc = "commit"
    /\ teach.match = None \/ teach.match \in Active
    /\ ~ TakenByOther(teach.ref, teach.id)
    /\ person' = Upserted(teach.id, teach.name)
    /\ link' = LinkedTo(teach.ref, teach.id)
    /\ IF teach.match = None
       THEN vectors' = vectors \cup {Taught} /\ UNCHANGED anon
       ELSE /\ vectors' = vectors \cup {Taught} \cup Copied(teach.match, teach.id)
            /\ anon' = Merged(teach.match, teach.id)
    /\ teach' = NoTeach
    /\ Overtakes(None, {teach.face} \cup (IF teach.match = None THEN {}
                                      ELSE {anon[teach.match].face}))
    /\ UNCHANGED <<denied, matches, crops, query, sightings, queries, mishaps>>

LeavesCrop == crops  \* mutant
WithoutCrop == crops \ {teach.id}

\* An OSError of unlink is logged and swallowed; nothing deletes the crop of a
\* write that failed half-way, or of an error before the transaction, either.
CropLeft ==
    /\ mishaps < MaxMishaps
    /\ mishaps' = mishaps + 1
    /\ UNCHANGED crops

\* A conflict or an error of the database: rolled back, and the crop is deleted.
FailTeach ==
    /\ teach.pc = "commit"
    /\ \/ crops' = WithoutCrop /\ UNCHANGED mishaps
       \/ CropLeft
    /\ teach' = NoTeach
    /\ Settles(None)
    /\ UNCHANGED <<person, vectors, anon, link, denied, matches, query, sightings, queries>>

-----------------------------------------------------------------------------
(* The other handlers, each of them one step of the event loop *)

\* Into a person who is there (name = None) or a new one.
MergeAnonymousPerson(a, p, name, ref) ==
    /\ teach.pc = "idle" /\ a \in Active
    /\ anon[a].seen = FamiliarSeen   \* the id was told to a client, in an event
    /\ IF name = None THEN person[p] # None /\ ref = None
                      ELSE FreePeople # {} /\ p = Min(FreePeople) /\ ~ TakenByOther(ref, p)
    /\ person' = IF name = None THEN person ELSE Upserted(p, name)
    /\ link' = LinkedTo(ref, p)
    /\ vectors' = vectors \cup Copied(a, p)
    /\ anon' = Merged(a, p)
    /\ overtaken' = overtaken \cup LookedUp({anon[a].face})
    /\ UNCHANGED <<denied, matches, crops, query, teach, sightings, queries, mishaps>>

CorrectIdentity(m) ==
    /\ teach.pc = "idle" /\ m \in matches
    /\ denied' = {d \in denied : d.vector # m.vector} \cup {m}
    /\ overtaken' = overtaken \cup LookedUp({m.vector.face})
    /\ UNCHANGED <<person, vectors, anon, link, matches, crops, query, teach, sightings,
                   queries, mishaps>>

LinkExternalUser(r, p) ==
    /\ teach.pc = "idle" /\ person[p] # None
    /\ link' = [link EXCEPT ![r] = p]
    /\ UNCHANGED <<person, vectors, anon, denied, matches, crops, query, teach, overtaken,
                   sightings, queries, mishaps>>

\* The process dies and is started again on the same database and directory.
Crash ==
    /\ mishaps < MaxMishaps
    /\ mishaps' = mishaps + 1
    /\ query' = [s \in Streams |-> NoQuery] /\ teach' = NoTeach /\ overtaken' = {}
    /\ UNCHANGED <<tables, sightings, queries>>

-----------------------------------------------------------------------------
QueryStep(s) ==
    \/ \E faces \in Pictures : StartQuery(s, faces)
    \/ QueryPerson(s) \/ SkipTarget(s) \/ KnownPerson(s) \/ QueryAnonymous(s)
    \/ CreateAnonymousProfile(s) \/ AddAnonymousEmbedding(s)
    \/ ReadAnonymousProfile(s) \/ UpdateAnonymousProfile(s) \/ QueryFails(s)

TeachStep ==
    \/ \E f \in Faces, name \in Names, ref \in Refs \cup {None} : TeachPerson(f, name, ref)
    \/ UpdateExistingPerson \/ LinkExistingPerson
    \/ TeachQueryAnonymous \/ WriteEmbeddingArtifact \/ CommitTeach \/ FailTeach

HandlerStep ==
    \/ \E a \in Anons, p \in People, name \in Names \cup {None}, ref \in Refs \cup {None} :
         MergeAnonymousPerson(a, p, name, ref)
    \/ \E m \in matches : CorrectIdentity(m)
    \/ \E r \in Refs, p \in People : LinkExternalUser(r, p)

Next == (\E s \in Streams : QueryStep(s)) \/ TeachStep \/ HandlerStep \/ Crash

Spec == Init /\ [][Next]_vars

-----------------------------------------------------------------------------
\* How often face f is remembered: by people whose vector of it was not denied, and
\* by active anonymous profiles.
Memories(f) ==
    Cardinality({v.owner : v \in {u \in vectors \ Denied : u.face = f}})
    + Cardinality({a \in Active : anon[a].face = f})

\* Rows refer to rows that are there, and a merged profile to the person it became.
TypeOK ==
    /\ person \in [People -> Names \cup {None}]
    /\ \A v \in vectors :
         /\ v.owner \in People /\ person[v.owner] # None /\ v.face \in Faces
         /\ v.from # 0 => anon[v.from].face = v.face
    /\ \A a \in Anons :
         /\ anon[a].seen \in 0..FamiliarSeen
         /\ anon[a].status = "merged" => anon[a].into # 0 /\ person[anon[a].into] # None
    /\ \A r \in Refs : link[r] # 0 => person[link[r]] # None
    /\ Denied \subseteq {m.vector : m \in matches} /\ {m.vector : m \in matches} \subseteq vectors

\* Nobody comes to be remembered twice, as two people or as a person and a stranger,
\* except by whoever had looked the face up before the first memory was stored.
RememberedOnce ==
    [][\A f \in Faces : Memories(f) = 1 /\ Memories(f)' = 2 =>
         \E actor \in overtaken :
           IF actor = None THEN teach' # teach ELSE query'[actor] # query[actor]]_vars

\* Whoever is remembered stays so through merges, promotions, failures and crashes; only
\* a correction takes a vector out of use.
NothingForgotten ==
    [][\A f \in Faces : Memories(f) > 0 /\ Memories(f)' = 0 => denied' # denied]_vars

\* Merging, promoting and correcting move memories, they neither copy nor lose one.
Conserved == RememberedOnce /\ NothingForgotten

\* A profile that became a person never becomes a stranger again, whatever a query
\* that read it before has still to write.
MergedForGood ==
    [][\A a \in Anons : anon[a].status = "merged" =>
         anon'[a].status = "merged" /\ anon'[a].into = anon[a].into]_vars

\* No profile is familiar for having been seen in fewer queries than it takes, though
\* two queries count it at once and one frame may show it twice.
SeenIsEarned == \A a \in Anons : anon[a].seen <= sightings[a]

\* Every taught vector has its crop, and a crop without its vector is that of the
\* request under way, or was left by a crash or by a file system that failed: a
\* teach the database refuses leaves none.
CropsAccountedFor ==
    LET kept == {v.owner : v \in {u \in vectors : u.from = 0}}
    IN /\ kept \subseteq crops
       /\ Cardinality(crops \ kept) <= mishaps + (IF teach.pc = "commit" THEN 1 ELSE 0)

\* The tables and the crop files refer to each other, whatever failed in between.
Integrity == TypeOK /\ CropsAccountedFor

\* Teaching and merging never take an account from the person it belongs to: only
\* link_external_user moves it.
AccountsStay ==
    [][\A r \in Refs : link[r] # 0 /\ link'[r] # link[r] =>
         UNCHANGED <<person, vectors, anon, teach, query>>]_vars

\* What was settled stays settled: whom a profile became, and whose an account is.
SettledStays == MergedForGood /\ AccountsStay
=============================================================================
