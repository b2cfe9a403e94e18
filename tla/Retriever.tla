----------------------------- MODULE Retriever -----------------------------
(***************************************************************************)
(* MemoryRetriever: whom a face is taken for, among the embeddings stored. *)
(* A vector is the face it was computed from, and the score of two vectors *)
(* depends on whether their faces are the same, alike or neither.  Vectors *)
(* of one score come in any order, so a query has a set of possible        *)
(* results: the vectors it may name as the match, and none for no match.   *)
(***************************************************************************)
EXTENDS Integers, FiniteSets, FiniteSetsExt

CONSTANTS
    Faces,      \* the faces in front of the cameras
    Alike,      \* the pairs of faces that the embedding hardly tells apart
    Window      \* the candidates query_* looks at (the store is asked for one more)

ASSUME RetrieverAssumption ==
    /\ Alike \subseteq {{f, g} : f, g \in Faces}
    /\ Window \in Nat \ {0}

\* Scores, in steps of the margin: a likeness just reaches the threshold.
Score(f, g) == IF f = g THEN 2 ELSE IF {f, g} \in Alike THEN 1 ELSE 0
Threshold == 1
Margin == 1

\* The k nearest vectors of E to face f: ties are broken in any way.
Nearest(E, f, k) ==
    IF Cardinality(E) <= k THEN {E}
    ELSE {S \in kSubset(k, E) :
            \A e \in S, d \in E \ S : Score(e.face, f) >= Score(d.face, f)}

BestOf(W, f) == {e \in W : \A d \in W : Score(e.face, f) >= Score(d.face, f)}

OnlyTheWindow(others, truncated) == FALSE  \* mutant
\* The runner-up may lie outside the window: no match rather than a margin too wide.
Undecided(others, truncated) == others = {} /\ truncated

\* _query_candidates with the window W: the vectors that may come out as the match.
Verdicts(W, f, truncated) ==
    {e \in BestOf(W, f) :
        LET others == {d \in W : d.owner # e.owner}
            second == IF others = {} THEN 0 ELSE Max({Score(d.face, f) : d \in others})
        IN /\ ~ Undecided(others, truncated)
           /\ Score(e.face, f) >= Threshold
           /\ Score(e.face, f) - second >= Margin}

\* A set of vectors turned into the results a caller may get; None when there is none.
ResultsOf(vectors, none) == IF vectors = {} THEN {none} ELSE vectors

\* query_person: denied vectors are dropped from the window, not from the search.
PersonMatches(E, f, denied, none) ==
    UNION {UNION {ResultsOf(Verdicts(W \ denied, f, Cardinality(F) > Window), none) :
                    W \in Nearest(F, f, Window)} :
             F \in Nearest(E, f, Window + 1)}

InactiveBeats(F, active, e, f) ==
    \E d \in F : d.owner \notin active /\ Score(d.face, f) > Score(e.face, f)

\* query_anonymous_person: the store drops the inactive from the Window + 1 nearest
\* of all, and a second search of all lets an inactive profile veto the match.
AnonymousMatches(E, f, active, none) ==
    UNION {LET found == {d \in F : d.owner \in active}
           IN UNION {LET verdicts == Verdicts(W, f, Cardinality(found) > Window)
                         vetoed   == {e \in verdicts : InactiveBeats(F, active, e, f)}
                     IN ResultsOf(verdicts \ vetoed, none)
                        \cup (IF vetoed = {} THEN {} ELSE {none}) :
                       W \in Nearest(found, f, Window)} :
             F \in Nearest(E, f, Window + 1)}
=============================================================================
