------------------------- MODULE MCProvenanceIndex -------------------------
(* Small instance of ProvenanceIndex for TLC: two fingerprints, two          *)
(* documents that may share them, and enough versions for a document to be   *)
(* edited and reverted.                                                      *)
EXTENDS ProvenanceIndex, TLC

RowBound == Cardinality(rows) <= 4

(* Every constant set is used uniformly, so permuting each is a symmetry of  *)
(* the invariants. *)
IndexSymmetry ==
    Permutations(Fingerprint) \cup Permutations(Document) \cup Permutations(Version)
=============================================================================
