SPECIFICATION IngestionSpec
CONSTANTS
    f1 = f1
    f2 = f2
    v1 = v1
    v2 = v2
    Fingerprint = {f1, f2}
    Document = {d1, d2}
    Version = {v1, v2}
    NoVersion = NoVersion
    MaxTime = 1
    MaxTampered = 0
    Ingester = {w1, w2}
    Chunkings <- MCChunkings
    Idle = Idle
    MaxIngests = 3
SYMMETRY IngestionSymmetry
CHECK_DEADLOCK FALSE
INVARIANTS
    IngestionTypeOK
    QuietIngestIsServed
