--------------------------- MODULE MCMerklePostgres ---------------------------
(* Small instances of MerklePostgres: one chunk in two versions, so one       *)
(* fingerprint has several leaves; one process with two threads, and another  *)
(* process with one.                                                          *)
EXTENDS MerklePostgres, TLC

CONSTANTS p1, p2

TwoThreadsAndOne == {<<p1, 1>>, <<p1, 2>>, <<p2, 1>>}
TwoThreads == {<<p1, 1>>, <<p1, 2>>}

PgSymmetry == Permutations(Version)
===============================================================================
