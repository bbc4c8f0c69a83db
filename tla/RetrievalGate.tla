---------------------------- MODULE RetrievalGate ----------------------------
(***************************************************************************)
(* One retrieval through the gate: verify_chunks() (provenex/core/         *)
(* verify.py), and the LangChain and LlamaIndex retrievers, the LangGraph  *)
(* node and the CLI, which repeat its loop.  For each chunk the loop calls *)
(* index.verify() and then index.lookup(): two reads of the index, not one *)
(* transaction.  Ingesters and operators write between any two reads.      *)
(*                                                                         *)
(* Calls share nothing but the index, which they only read, so one call at *)
(* a time stands for all of them.  A policy is what it decides: the        *)
(* outcomes that `verification` blocks and the documents (NoDocument for a *)
(* chunk with no entry) that `access_control` denies.                      *)
(***************************************************************************)
EXTENDS ProvenanceIndex, Sequences

CONSTANTS
    Blocked,        \* outcomes o with policy.verification.should_block(o)
    Denied,         \* documents the access-control evaluator denies
    NoDocument,     \* document_id of a chunk without an index entry
    NoRow,          \* lookup() returned None
    MaxChunks       \* bound: chunks of one retrieval

ASSUME GateAssumption ==
    /\ Blocked \subseteq OutcomeKind \ {"VERIFIED"}     \* should_block(VERIFIED) is False
    /\ Denied \subseteq Document \cup {NoDocument}
    /\ NoDocument \notin Document
    /\ NoRow \notin Row
    /\ MaxChunks \in Nat

VARIABLES
    phase,          \* "idle", "running", "done"
    chunks,         \* fingerprints of the retrieved chunks
    verdict,        \* verify()'s answer for the next chunk, "none" before the call
    sources,        \* the receipt's source records so far
    kept,           \* indices of the chunks handed on to the caller
    touched,        \* history: documents written to since the call began
    granted         \* history: documents authorized at some moment since then

callVars == <<phase, chunks, verdict, sources, kept>>
gateVars == <<current, authorized, rows, ingestedAt, superseded, tampered,
              phase, chunks, verdict, sources, kept, touched, granted>>

(* A source record: the verdict, and what the entry said when it was read. *)
Source == [fp : Fingerprint, outcome : OutcomeKind, row : Row \cup {NoRow},
           at : {0} \cup Time, grant : BOOLEAN]

GateTypeOK ==
    /\ IndexTypeOK
    /\ phase \in {"idle", "running", "done"}
    /\ chunks \in Seq(Fingerprint)
    /\ verdict \in OutcomeKind \cup {"none"}
    /\ sources \in Seq(Source)
    /\ kept \subseteq DOMAIN sources
    /\ touched \subseteq Document
    /\ granted \subseteq Document
    /\ Len(sources) <= Len(chunks)
    /\ verdict # "none" => phase = "running" /\ Len(sources) < Len(chunks)

GateInit ==
    /\ IndexInit
    /\ phase = "idle"
    /\ chunks = <<>>
    /\ verdict = "none"
    /\ sources = <<>>
    /\ kept = {}
    /\ touched = {}
    /\ granted = {}

-----------------------------------------------------------------------------
(* The call.                                                               *)

(* The arguments passed the ValueError guards and a receipt is begun. *)
Begin(cs) ==
    /\ phase # "running"
    /\ phase' = "running"
    /\ chunks' = cs
    /\ sources' = <<>>
    /\ kept' = {}
    /\ touched' = {}
    /\ granted' = {d \in Document : authorized[d]}
    /\ UNCHANGED <<current, authorized, rows, ingestedAt, superseded, tampered, verdict>>

NextChunk == chunks[Len(sources) + 1]

(* outcome = index.verify(fingerprint) *)
VerifyChunk ==
    /\ phase = "running"
    /\ verdict = "none"
    /\ Len(sources) < Len(chunks)
    /\ verdict' \in Outcomes(NextChunk)
    /\ UNCHANGED <<current, authorized, rows, ingestedAt, superseded, tampered,
                   phase, chunks, sources, kept, touched, granted>>

Entries(f) == IF LookupRows(f) = {} THEN {NoRow} ELSE LookupRows(f)

DocumentOf(r) == IF r = NoRow THEN NoDocument ELSE r.doc

(* entry = index.lookup(fingerprint); the receipt records that entry; the   *)
(* verification gate judges the first read, the access gate the second.     *)
LookupVerifiedOnly(r) ==
    /\ verdict # "none"
    /\ r \in IF verdict = "VERIFIED" THEN Entries(NextChunk) ELSE {NoRow}
    /\ sources' = Append(sources,
           [fp |-> NextChunk, outcome |-> verdict, row |-> r,
            at |-> IF r = NoRow THEN 0 ELSE ingestedAt[r],
            grant |-> IF r = NoRow THEN FALSE ELSE authorized[r.doc]])
    /\ kept' = IF verdict \in Blocked THEN kept ELSE kept \cup {Len(sources) + 1}
    /\ verdict' = "none"
    /\ UNCHANGED <<current, authorized, rows, ingestedAt, superseded, tampered,
                   phase, chunks, touched, granted>>

LookupChunk(r) ==
    /\ verdict # "none"
    /\ r \in Entries(NextChunk)
    /\ sources' = Append(sources,
           [fp |-> NextChunk, outcome |-> verdict, row |-> r,
            at |-> IF r = NoRow THEN 0 ELSE ingestedAt[r],
            grant |-> IF r = NoRow THEN FALSE ELSE authorized[r.doc]])
    /\ kept' = IF verdict \in Blocked \/ DocumentOf(r) \in Denied
               THEN kept
               ELSE kept \cup {Len(sources) + 1}
    /\ verdict' = "none"
    /\ UNCHANGED <<current, authorized, rows, ingestedAt, superseded, tampered,
                   phase, chunks, touched, granted>>

(* builder.finalize(), the sink, and return. *)
Finalize ==
    /\ phase = "running"
    /\ Len(sources) = Len(chunks)
    /\ phase' = "done"
    /\ UNCHANGED <<current, authorized, rows, ingestedAt, superseded, tampered,
                   chunks, verdict, sources, kept, touched, granted>>

(* An exception of the index or of the evaluator: no receipt is issued. *)
Abort ==
    /\ phase = "running"
    /\ phase' = "idle"
    /\ chunks' = <<>>
    /\ verdict' = "none"
    /\ sources' = <<>>
    /\ kept' = {}
    /\ UNCHANGED <<current, authorized, rows, ingestedAt, superseded, tampered, touched, granted>>

-----------------------------------------------------------------------------
(* The writers, ingesters and operators, keep the history variables.       *)

Written(d) ==
    /\ touched' = touched \cup {d}
    /\ granted' = IF authorized'[d] THEN granted \cup {d} ELSE granted
    /\ UNCHANGED callVars

ChunkLists == UNION {[1..n -> Fingerprint] : n \in 0..MaxChunks}

GateNext ==
    \/ \E cs \in ChunkLists : Begin(cs)
    \/ VerifyChunk
    \/ \E r \in Row \cup {NoRow} : LookupChunk(r)
    \/ Finalize
    \/ Abort
    \/ \E r \in Row, grant \in BOOLEAN, at \in Time : Add(r, grant, at) /\ Written(r.doc)
    \/ \E d \in Document, grant \in BOOLEAN : SetAuthorization(d, grant) /\ Written(d)
    \/ \E d \in Document, v \in Version : Supersede(d, v) /\ Written(d)
    \/ \E r \in Row : Tamper(r) /\ Written(r.doc)

GateSpec == GateInit /\ [][GateNext]_gateVars

-----------------------------------------------------------------------------
(* Properties.                                                             *)

Receipt == {sources[i] : i \in DOMAIN sources}

(* No document that holds the chunk was written to during the call. *)
Undisturbed(s) == \A r \in RowsOf(s.fp) : r.doc \notin touched

(* The two reads of an undisturbed chunk agree, and the receipt still says  *)
(* what the index says when the call returns: the verdict is one it gives   *)
(* now, an entry is recorded exactly when the chunk is known, and where the *)
(* freshest row is unique the verdict is the verdict on that very entry.    *)
UndisturbedSourceIsSnapshot ==
    \A s \in Receipt : Undisturbed(s) =>
        /\ s.outcome \in Outcomes(s.fp)
        /\ s.row \in Entries(s.fp)
        /\ (s.outcome = "UNVERIFIED") <=> (s.row = NoRow)
        /\ s.row # NoRow => s.grant = authorized[s.row.doc]
        /\ LookupRows(s.fp) = {s.row} => s.outcome = OutcomeOf(s.row)

(* A receipt never vouches for two versions of one document, unless a       *)
(* document with that chunk was written to while the receipt was made.      *)
OneVersionPerDocument ==
    \A s, t \in Receipt :
        (/\ s.outcome = "VERIFIED" /\ Undisturbed(s)
         /\ t.outcome = "VERIFIED" /\ Undisturbed(t)
         /\ s.row.doc = t.row.doc)
            => s.row.ver = t.row.ver

(* Whatever happens during and after the call, the row a receipt quotes is  *)
(* in the index with the ingestion time it quotes, and is a row of the      *)
(* chunk it is about: the citation can be checked later.                    *)
CitationStands ==
    \A s \in Receipt : s.row # NoRow =>
        s.row \in rows /\ s.row.fp = s.fp /\ ingestedAt[s.row] = s.at

(* Revoke, then retrieve: when the policy blocks UNAUTHORIZED and TAMPERED, *)
(* a chunk the index knew is not handed on if none of the documents that    *)
(* hold it was authorized at any moment of the call, however the two reads  *)
(* interleave with writers.                                                 *)
RevocationHolds ==
    {"UNAUTHORIZED", "TAMPERED"} \subseteq Blocked =>
        \A i \in kept :
            sources[i].outcome # "UNVERIFIED" =>
                \E r \in RowsOf(sources[i].fp) : r.doc \in granted

-----------------------------------------------------------------------------
=============================================================================
