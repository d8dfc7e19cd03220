SPECIFICATION Spec
CONSTANTS
    s1 = s1
    s2 = s2
    s3 = s3
    Stoppers = {s1, s2, s3}
SYMMETRY StopperSymmetry
INVARIANTS
    StopWritesOpenSocket
    SentMeansWake
