SPECIFICATION Spec
CONSTANTS
    a = a
    b = b
    c = c
    d = d
    None = None
    Names = {a, b, c, d}
    CacheSize = 3
    HostMax = 3
    MaxQuestions = 3
SYMMETRY NameSymmetry
INVARIANTS
    OneCache
    AnswersLeadBack
PROPERTIES
    KeepsPromise
