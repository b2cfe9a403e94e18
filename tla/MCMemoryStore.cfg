CONSTANTS
    None = None
    Faces = {f1, f2}
    Alike <- LooksAlike
    Window = 4
    Pictures <- OneOrTwice
    Streams = {s1, s2}
    Names = {n1, n2}
    Refs = {r1}
    MaxPeople = 2
    MaxAnons = 2
    FamiliarSeen = 2
    MaxQueries = 2
    MaxMishaps = 1
SYMMETRY Symmetric
SPECIFICATION Spec
INVARIANTS Integrity SeenIsEarned MarginIsReal
PROPERTIES Conserved SettledStays
CHECK_DEADLOCK FALSE
