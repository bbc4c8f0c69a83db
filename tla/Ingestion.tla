------------------------------ MODULE Ingestion ------------------------------
(***************************************************************************)
(* Ingestion above the index: ProvenexIngestor.ingest() for LangChain and  *)
(* for LlamaIndex, and `provenex ingest`.  One call hashes the document to *)
(* a version and then calls index.add() once per fingerprint, chunk by     *)
(* chunk and window by window.  Every add() is atomic, the call is not:    *)
(* other ingesters, a revocation or a crash fall between two adds.         *)
(*                                                                         *)
(* The version hashes the joined text, so one version can be cut into      *)
(* chunks in several ways, and a text can repeat a window: an add() of a   *)
(* fingerprint that was added before may come at any point of the call.    *)
(***************************************************************************)
EXTENDS ProvenanceIndex

CONSTANTS
    Ingester,       \* concurrent callers of ingest()
    Chunkings,      \* Chunkings[v]: the fingerprint sets a text of version v can yield
    Idle,           \* "no call in progress"
    MaxIngests      \* bound: calls of ingest()

ASSUME IngestionAssumption ==
    /\ Chunkings \in [Version -> SUBSET SUBSET Fingerprint]
    /\ MaxIngests \in Nat
    /\ Idle \notin [doc : Document, ver : Version, grant : BOOLEAN,
                    fps : SUBSET Fingerprint, todo : SUBSET Fingerprint, quiet : BOOLEAN]

VARIABLES
    job,            \* job[w]: the last call of w, Idle before the first and after a crash
    ingests         \* number of calls so far

ingestionVars == <<current, authorized, rows, ingestedAt, superseded, tampered, job, ingests>>

(* todo: fingerprints not added yet, {} once the call has returned.         *)
(* quiet: history, kept for the properties: the call did not meet a retired *)
(* row of its own version, and nobody moved the document away since.        *)
Job == [doc : Document, ver : Version, grant : BOOLEAN,
        fps : SUBSET Fingerprint, todo : SUBSET Fingerprint, quiet : BOOLEAN]

IngestionTypeOK ==
    /\ IndexTypeOK
    /\ job \in [Ingester -> Job \cup {Idle}]
    /\ ingests \in Nat
    /\ \A w \in Ingester : job[w] # Idle => job[w].todo \subseteq job[w].fps

IngestionInit ==
    /\ IndexInit
    /\ job = [w \in Ingester |-> Idle]
    /\ ingests = 0

Busy(w) == job[w] # Idle /\ job[w].todo # {}

RowFor(f, d, v) == [fp |-> f, doc |-> d, ver |-> v]

(* After someone moved d to v: no call for another version of d is quiet. *)
Moved(jobs, d, v) ==
    [w \in Ingester |->
        IF jobs[w] # Idle /\ jobs[w].doc = d /\ jobs[w].ver # v
        THEN [jobs[w] EXCEPT !.quiet = FALSE]
        ELSE jobs[w]]

-----------------------------------------------------------------------------
(* ingest(documents, doc_id, authorized): fingerprint() and the version. *)
Start(w, d, v, grant, fps) ==
    /\ ingests < MaxIngests
    /\ ~Busy(w)
    /\ ingests' = ingests + 1
    /\ job' = [job EXCEPT ![w] =
                  [doc |-> d, ver |-> v, grant |-> grant, fps |-> fps, todo |-> fps,
                   quiet |-> \A f \in fps : RowFor(f, d, v) \notin superseded]]
    /\ UNCHANGED indexVars

(* One index.add() of the loop; the last one ends the call. *)
IngestAdd(w, f, at) ==
    /\ Busy(w)
    /\ f \in job[w].fps
    /\ Add(RowFor(f, job[w].doc, job[w].ver), job[w].grant, at)
    /\ job' = Moved([job EXCEPT ![w].todo = @ \ {f}], job[w].doc, job[w].ver)
    /\ UNCHANGED ingests

(* The process dies, or an add() raises out of ingest(): nothing records    *)
(* how far the call got.                                                    *)
Crash(w) ==
    /\ Busy(w)
    /\ job' = [job EXCEPT ![w] = Idle]
    /\ UNCHANGED <<current, authorized, rows, ingestedAt, superseded, tampered, ingests>>

(* index.supersede() and index.set_authorization() called by the operator. *)
SupersedeCall(d, v) ==
    /\ Supersede(d, v)
    /\ job' = Moved(job, d, v)
    /\ UNCHANGED ingests

SetAuthorizationCall(d, grant) ==
    /\ SetAuthorization(d, grant)
    /\ UNCHANGED <<job, ingests>>

IngestionNext ==
    \/ \E w \in Ingester, d \in Document, v \in Version, grant \in BOOLEAN :
          \E fps \in Chunkings[v] : Start(w, d, v, grant, fps)
    \/ \E w \in Ingester, f \in Fingerprint, at \in Time : IngestAdd(w, f, at)
    \/ \E w \in Ingester : Crash(w)
    \/ \E d \in Document, v \in Version : SupersedeCall(d, v)
    \/ \E d \in Document, grant \in BOOLEAN : SetAuthorizationCall(d, grant)

IngestionSpec == IngestionInit /\ [][IngestionNext]_ingestionVars

-----------------------------------------------------------------------------
(* Properties.                                                             *)

(* What a call that was left alone has written is live under the document's *)
(* current version, at every point of the call and after it: also when it   *)
(* runs next to ingesters of other documents or of the same version, and    *)
(* when it repeats a call that crashed half way.                            *)
QuietIngestIsLive ==
    \A w \in Ingester :
        (job[w] # Idle /\ job[w].quiet) =>
            \A f \in job[w].fps \ job[w].todo :
                /\ RowFor(f, job[w].doc, job[w].ver) \in rows \ superseded
                /\ current[job[w].doc] = job[w].ver

(* The reader's view of the same fact: such a fingerprint is neither        *)
(* UNVERIFIED nor STALE, whichever document or version lookup() prefers.    *)
QuietIngestIsServed ==
    \A w \in Ingester :
        (job[w] # Idle /\ job[w].quiet) =>
            \A f \in job[w].fps \ job[w].todo :
                Outcomes(f) \cap {"STALE", "UNVERIFIED"} = {}
=============================================================================
