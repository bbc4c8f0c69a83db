SPECIFICATION MerkleSpec
CONSTANTS
    Fingerprint = {f1, f2, f3}
    Document = {d1}
    Version = {v1, v2}
    NoVersion = NoVersion
    MaxTime = 1
    MaxTampered = 0
    NoCall = NoCall
    MaxFailures = 1
SYMMETRY MerkleSymmetry
INVARIANTS
    MerkleTypeOK
    PublishedTreeIsDurable
    ProofIsExact
PROPERTIES
    LogSpec
