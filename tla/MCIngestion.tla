---------------------------- MODULE MCIngestion ----------------------------
(* Two ingesters, an edited document and a second one, and a version that    *)
(* can be cut in two ways.                                                   *)
EXTENDS Ingestion, TLC

CONSTANTS f1, f2, v1, v2

MCChunkings == (v1 :> {{f1}, {f1, f2}}) @@ (v2 :> {{f1, f2}})

IngestionSymmetry == Permutations(Ingester) \cup Permutations(Document)
=============================================================================
