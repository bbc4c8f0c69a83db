SPECIFICATION PgSpec
CONSTANTS
    Fingerprint = {f1}
    Document = {d1}
    Version = {v1, v2}
    p1 = p1
    p2 = p2
    Process = {p1}
    Thread <- TwoThreads
    NoThread = NoThread
    MaxFailures = 0
SYMMETRY PgSymmetry
INVARIANT ProofVerifies
