SPECIFICATION GateSpec
CONSTANTS
    Fingerprint = {f1, f2}
    Document = {d1, d2}
    Version = {v1, v2}
    NoVersion = NoVersion
    MaxTime = 2
    MaxTampered = 1
    Blocked = {"UNAUTHORIZED", "TAMPERED"}
    Denied = {NoDocument}
    NoDocument = NoDocument
    NoRow = NoRow
    MaxChunks = 2
CONSTRAINT GateBound
SYMMETRY GateSymmetry
INVARIANTS
    GateTypeOK
    UndisturbedSourceIsSnapshot
    RevocationHolds
