--------------------------- MODULE MCMemoryStore ---------------------------
(***************************************************************************)
(* MemoryStore for TLC, and the retriever's window checked on its own over *)
(* all small tables.                                                       *)
(***************************************************************************)
EXTENDS MemoryStore, TLC

Symmetric == Permutations(Streams) \cup Permutations(Faces) \cup Permutations(Names)
OneOrTwice == {<<f>> : f \in Faces} \cup {<<f, f>> : f \in Faces}
LooksAlike == {Faces}
Narrow == INSTANCE Retriever WITH Window <- 2

\* The matches a table of vectors allows when all of it is looked at.
Unambiguous(E, f, e) ==
    /\ Score(e.face, f) >= Threshold
    /\ \A d \in E : d.owner # e.owner => Score(e.face, f) - Score(d.face, f) >= Margin

\* A match is as clear in the whole table as it is in the window: a person with
\* more vectors than the window holds does not hide the runner-up.  (It is about
\* constants, so one state says it for all.)
MarginIsReal == Init =>
    \A E \in SUBSET [owner : {1, 2}, from : {0, 1, 2}, face : Faces] :
      IsFiniteSet(E) /\ Cardinality(E) <= 4 =>
        \A f \in Faces : \A e \in Narrow!PersonMatches(E, f, {}, None) \ {None} :
          Unambiguous(E, f, e)
=============================================================================
