-------------------------- MODULE MCRetrievalGate --------------------------
(* Small instance of RetrievalGate: retrievals of up to two chunks while one *)
(* document is written to.                                                   *)
EXTENDS RetrievalGate, TLC

GateBound == Cardinality(rows) <= 2 /\ Cardinality(touched) <= 1

GateSymmetry ==
    Permutations(Fingerprint) \cup Permutations(Document) \cup Permutations(Version)
=============================================================================
