SPECIFICATION IndexSpec
CONSTANTS
    Fingerprint = {f1, f2}
    Document = {d1, d2}
    Version = {v1, v2}
    NoVersion = NoVersion
    MaxTime = 2
    MaxTampered = 1
CONSTRAINT RowBound
SYMMETRY IndexSymmetry
INVARIANTS
    IndexTypeOK
    VerifiedIsCurrent
PROPERTIES
    VerdictIsLocal
    LedgerSpec
