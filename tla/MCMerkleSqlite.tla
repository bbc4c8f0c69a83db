--------------------------- MODULE MCMerkleSqlite ---------------------------
(* Small instance of MerkleSqlite: three chunks in two versions, so a log of *)
(* up to six leaves and a lopsided tree, and fingerprints with two leaves.   *)
EXTENDS MerkleSqlite, TLC

MerkleSymmetry == Permutations(Fingerprint) \cup Permutations(Version)
=============================================================================
