SPECIFICATION PgSpec
CONSTANTS
    Fingerprint = {f1}
    Document = {d1}
    Version = {v1, v2}
    p1 = p1
    p2 = p2
    Process = {p1, p2}
    Thread <- TwoThreadsAndOne
    NoThread = NoThread
    MaxFailures = 1
SYMMETRY PgSymmetry
INVARIANTS
    PgTypeOK
    NoRowForgotten
    SoloProofVerifies
