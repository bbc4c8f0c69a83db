-------------------------- MODULE IndexUserProofs --------------------------
(***************************************************************************)
(* Proofs about what runs above the index: ingestion and retrieval.        *)
(*                                                                         *)
(* Every step of an ingester is a step of the index, so all of             *)
(* ProvenanceIndexProofs carries over, and a call that was left alone has  *)
(* everything it wrote live.  QuietIngestIsLive is not inductive: it says  *)
(* nothing about the rows that are still to be added, which an earlier     *)
(* version of the document may have left behind retired, and INSERT OR     *)
(* IGNORE would keep them so.  QuietRows adds that none of them is.        *)
(*                                                                         *)
(* For a retrieval the argument is a frame argument: an operation of the   *)
(* index changes the rows, flags and grant of one document only            *)
(* (WriteFrame), so what was read of a fingerprint stays true until a      *)
(* document that holds it, or comes to hold it, is written.  The           *)
(* strengthening carries this for the verdict between the two reads.       *)
(***************************************************************************)
EXTENDS Ingestion, RetrievalGate, ProvenanceIndexProofs, SequenceTheorems

-----------------------------------------------------------------------------
(* Ingestion.                                                              *)

JobRow(w, f) == RowFor(f, job[w].doc, job[w].ver)

QuietRows ==
    \A w \in Ingester : (job[w] # Idle /\ job[w].quiet) =>
        /\ \A f \in job[w].fps : JobRow(w, f) \notin superseded
        /\ \A f \in job[w].fps \ job[w].todo : JobRow(w, f) \in rows

IngestionInv == IndexInv /\ IngestionTypeOK /\ QuietRows

LEMMA JobRowIsRow ==
  ASSUME IngestionTypeOK, NEW w \in Ingester, job[w] # Idle, NEW f \in Fingerprint
  PROVE  JobRow(w, f) \in Row
BY DEF IngestionTypeOK, Job, JobRow, RowFor, Row

-----------------------------------------------------------------------------
(* Every step of ingestion is a step of the index or leaves it alone.      *)

LEMMA StepRefinesIndex ==
  IngestionTypeOK /\ [IngestionNext]_ingestionVars => [IndexNext]_indexVars
<1>. SUFFICES ASSUME IngestionTypeOK, [IngestionNext]_ingestionVars
              PROVE  [IndexNext]_indexVars
  OBVIOUS
<1>1. ASSUME NEW w \in Ingester, NEW d \in Document, NEW v \in Version,
             NEW grant \in BOOLEAN, NEW fps \in Chunkings[v], Start(w, d, v, grant, fps)
      PROVE  UNCHANGED indexVars
  BY <1>1 DEF Start
<1>2. ASSUME NEW w \in Ingester, NEW f \in Fingerprint, NEW at \in Time, IngestAdd(w, f, at)
      PROVE  IndexNext
  <2>1. JobRow(w, f) \in Row /\ job[w].grant \in BOOLEAN
    BY <1>2, JobRowIsRow DEF IngestAdd, Busy, IngestionTypeOK, Job
  <2>2. Add(JobRow(w, f), job[w].grant, at)
    BY <1>2 DEF IngestAdd, JobRow
  <2>. QED  BY <2>1, <2>2 DEF IndexNext
<1>3. ASSUME NEW w \in Ingester, Crash(w)
      PROVE  UNCHANGED indexVars
  BY <1>3 DEF Crash, indexVars
<1>4. ASSUME NEW d \in Document, NEW v \in Version, SupersedeCall(d, v)
      PROVE  IndexNext
  BY <1>4 DEF SupersedeCall, IndexNext
<1>5. ASSUME NEW d \in Document, NEW grant \in BOOLEAN, SetAuthorizationCall(d, grant)
      PROVE  IndexNext
  BY <1>5 DEF SetAuthorizationCall, IndexNext
<1>6. CASE UNCHANGED ingestionVars
  BY <1>6 DEF ingestionVars, indexVars
<1>. QED  BY <1>1, <1>2, <1>3, <1>4, <1>5, <1>6 DEF IngestionNext

-----------------------------------------------------------------------------
(* The jobs.                                                               *)

(* Moved() changes nothing but the flag, and keeps it only for calls that   *)
(* write the version the document was moved to.                             *)
LEMMA MovedFacts ==
  ASSUME NEW jobs \in [Ingester -> Job \cup {Idle}], NEW d, NEW v
  PROVE  /\ Moved(jobs, d, v) \in [Ingester -> Job \cup {Idle}]
         /\ \A w \in Ingester :
              /\ Moved(jobs, d, v)[w] = Idle <=> jobs[w] = Idle
              /\ jobs[w] # Idle =>
                   /\ Moved(jobs, d, v)[w].doc = jobs[w].doc
                   /\ Moved(jobs, d, v)[w].ver = jobs[w].ver
                   /\ Moved(jobs, d, v)[w].fps = jobs[w].fps
                   /\ Moved(jobs, d, v)[w].todo = jobs[w].todo
                   /\ Moved(jobs, d, v)[w].quiet =>
                        jobs[w].quiet /\ ~(jobs[w].doc = d /\ jobs[w].ver # v)
<1>1. ASSUME NEW w \in Ingester, jobs[w] # Idle
      PROVE  jobs[w] \in Job /\ [jobs[w] EXCEPT !.quiet = FALSE] \in Job
  BY <1>1 DEF Job
<1>2. \A j \in Job : j # Idle
  BY IngestionAssumption DEF Job
<1>. QED  BY <1>1, <1>2 DEF Moved, Job

LEMMA TypePreserved ==
  IndexInv' /\ IngestionTypeOK /\ [IngestionNext]_ingestionVars => IngestionTypeOK'
<1>. SUFFICES ASSUME IndexInv', IngestionTypeOK, [IngestionNext]_ingestionVars
              PROVE  /\ job' \in [Ingester -> Job \cup {Idle}]
                     /\ ingests' \in Nat
                     /\ \A w \in Ingester : job'[w] # Idle => job'[w].todo \subseteq job'[w].fps
  BY DEF IngestionTypeOK, IndexInv
<1>. USE DEF IngestionTypeOK
<1>1. ASSUME NEW w \in Ingester, NEW d \in Document, NEW v \in Version,
             NEW grant \in BOOLEAN, NEW fps \in Chunkings[v], Start(w, d, v, grant, fps)
      PROVE  /\ job' \in [Ingester -> Job \cup {Idle}]
             /\ ingests' \in Nat
             /\ \A u \in Ingester : job'[u] # Idle => job'[u].todo \subseteq job'[u].fps
  <2>1. fps \in SUBSET Fingerprint
    BY IngestionAssumption
  <2>. DEFINE new == [doc |-> d, ver |-> v, grant |-> grant, fps |-> fps, todo |-> fps,
                      quiet |-> \A f \in fps : RowFor(f, d, v) \notin superseded]
  <2>2. new \in Job /\ new.todo \subseteq new.fps
    BY <2>1 DEF Job
  <2>3. job' = [job EXCEPT ![w] = new] /\ ingests' = ingests + 1
    BY <1>1 DEF Start
  <2>. HIDE DEF new
  <2>. QED  BY <2>2, <2>3
<1>2. ASSUME NEW w \in Ingester, NEW f \in Fingerprint, NEW at \in Time, IngestAdd(w, f, at)
      PROVE  /\ job' \in [Ingester -> Job \cup {Idle}]
             /\ ingests' \in Nat
             /\ \A u \in Ingester : job'[u] # Idle => job'[u].todo \subseteq job'[u].fps
  <2>. DEFINE jobs == [job EXCEPT ![w].todo = @ \ {f}]
  <2>1. job[w] \in Job
    BY <1>2 DEF IngestAdd, Busy
  <2>. DEFINE new == [job[w] EXCEPT !.todo = @ \ {f}]
  <2>0. new \in Job /\ (job[w].todo \subseteq job[w].fps => new.todo \subseteq new.fps)
    BY <2>1 DEF Job
  <2>2. /\ jobs \in [Ingester -> Job \cup {Idle}]
        /\ \A u \in Ingester : jobs[u] # Idle => jobs[u].todo \subseteq jobs[u].fps
    <3>1. jobs = [job EXCEPT ![w] = new]
      OBVIOUS
    <3>2. job[w] # Idle
      BY <1>2 DEF IngestAdd, Busy
    <3>. HIDE DEF new, jobs, Job
    <3>. QED  BY <2>0, <3>1, <3>2
  <2>3. job' = Moved(jobs, job[w].doc, job[w].ver) /\ ingests' = ingests
    BY <1>2 DEF IngestAdd
  <2>. HIDE DEF jobs, new, Job
  <2>4. /\ Moved(jobs, job[w].doc, job[w].ver) \in [Ingester -> Job \cup {Idle}]
        /\ \A u \in Ingester :
             /\ Moved(jobs, job[w].doc, job[w].ver)[u] = Idle <=> jobs[u] = Idle
             /\ jobs[u] # Idle =>
                  /\ Moved(jobs, job[w].doc, job[w].ver)[u].fps = jobs[u].fps
                  /\ Moved(jobs, job[w].doc, job[w].ver)[u].todo = jobs[u].todo
    BY <2>2, MovedFacts
  <2>. QED  BY <2>2, <2>3, <2>4
<1>3. ASSUME NEW w \in Ingester, Crash(w)
      PROVE  /\ job' \in [Ingester -> Job \cup {Idle}]
             /\ ingests' \in Nat
             /\ \A u \in Ingester : job'[u] # Idle => job'[u].todo \subseteq job'[u].fps
  BY <1>3 DEF Crash
<1>4. ASSUME NEW d \in Document, NEW v \in Version, SupersedeCall(d, v)
      PROVE  /\ job' \in [Ingester -> Job \cup {Idle}]
             /\ ingests' \in Nat
             /\ \A u \in Ingester : job'[u] # Idle => job'[u].todo \subseteq job'[u].fps
  BY <1>4, MovedFacts DEF SupersedeCall
<1>5. ASSUME NEW d \in Document, NEW grant \in BOOLEAN, SetAuthorizationCall(d, grant)
      PROVE  job' = job /\ ingests' = ingests
  BY <1>5 DEF SetAuthorizationCall
<1>6. CASE UNCHANGED ingestionVars
  BY <1>6 DEF ingestionVars
<1>. QED  BY <1>1, <1>2, <1>3, <1>4, <1>5, <1>6 DEF IngestionNext

-----------------------------------------------------------------------------
(* The rows of the calls that were left alone.                             *)

(* A call that stays quiet keeps its rows: a document operation retires a   *)
(* row only of a version other than the one it writes.                      *)
LEMMA RowsKept ==
  ASSUME IngestionInv, NEW d \in Document, NEW v \in Version, NEW w \in Ingester,
         job[w] # Idle, job[w].quiet, ~(job[w].doc = d /\ job[w].ver # v),
         rows \subseteq rows', superseded' \subseteq superseded \cup OtherVersions(d, v)
  PROVE  /\ \A f \in job[w].fps : JobRow(w, f) \notin superseded'
         /\ \A f \in job[w].fps \ job[w].todo : JobRow(w, f) \in rows'
BY DEF IngestionInv, QuietRows, OtherVersions, JobRow, RowFor

LEMMA QuietRowsPreserved ==
  IngestionInv /\ [IngestionNext]_ingestionVars => QuietRows'
<1>. SUFFICES ASSUME IngestionInv, [IngestionNext]_ingestionVars PROVE QuietRows'
  OBVIOUS
<1>. USE DEF IngestionInv, IngestionTypeOK
<1>1. ASSUME NEW w \in Ingester, NEW d \in Document, NEW v \in Version,
             NEW grant \in BOOLEAN, NEW fps \in Chunkings[v], Start(w, d, v, grant, fps)
      PROVE  QuietRows'
  <2>. DEFINE new == [doc |-> d, ver |-> v, grant |-> grant, fps |-> fps, todo |-> fps,
                      quiet |-> \A f \in fps : RowFor(f, d, v) \notin superseded]
  <2>1. /\ job' = [job EXCEPT ![w] = new]
        /\ rows' = rows /\ superseded' = superseded
    BY <1>1 DEF Start, indexVars
  <2>2. ASSUME NEW u \in Ingester, u # w, job'[u] # Idle, job'[u].quiet
        PROVE  /\ \A f \in job'[u].fps : JobRow(u, f)' \notin superseded'
               /\ \A f \in job'[u].fps \ job'[u].todo : JobRow(u, f)' \in rows'
    BY <2>1, <2>2 DEF QuietRows, JobRow
  <2>3. ASSUME job'[w].quiet
        PROVE  /\ \A f \in job'[w].fps : JobRow(w, f)' \notin superseded'
               /\ \A f \in job'[w].fps \ job'[w].todo : JobRow(w, f)' \in rows'
    BY <2>1, <2>3 DEF JobRow
  <2>. QED  BY <2>2, <2>3 DEF QuietRows
<1>2. ASSUME NEW w \in Ingester, NEW f \in Fingerprint, NEW at \in Time, IngestAdd(w, f, at)
      PROVE  QuietRows'
  <2>. DEFINE d == job[w].doc
              v == job[w].ver
              jobs == [job EXCEPT ![w].todo = @ \ {f}]
  <2>1. job[w] \in Job /\ job[w] # Idle /\ d \in Document /\ v \in Version
    BY <1>2 DEF IngestAdd, Busy, Job
  <2>2. /\ job' = Moved(jobs, d, v)
        /\ rows' = rows \cup {JobRow(w, f)}
        /\ superseded' \subseteq superseded \cup OtherVersions(d, v)
    BY <1>2 DEF IngestAdd, Add, JobRow, RowFor
  <2>3. \A j \in Job : j # Idle
    BY IngestionAssumption DEF Job
  <2>4. /\ jobs \in [Ingester -> Job \cup {Idle}]
        /\ \A u \in Ingester :
             /\ jobs[u] = Idle <=> job[u] = Idle
             /\ job[u] # Idle => /\ jobs[u].doc = job[u].doc
                                 /\ jobs[u].ver = job[u].ver
                                 /\ jobs[u].fps = job[u].fps
                                 /\ jobs[u].quiet = job[u].quiet
                                 /\ jobs[u].todo = IF u = w THEN job[w].todo \ {f} ELSE job[u].todo
    BY <2>1, <2>3 DEF Job
  <2>5. ASSUME NEW u \in Ingester, job'[u] # Idle, job'[u].quiet
        PROVE  /\ \A g \in job'[u].fps : JobRow(u, g)' \notin superseded'
               /\ \A g \in job'[u].fps \ job'[u].todo : JobRow(u, g)' \in rows'
    <3>. HIDE DEF jobs, d, v
    <3>0. /\ Moved(jobs, d, v)[u] = Idle <=> jobs[u] = Idle
          /\ jobs[u] # Idle =>
               /\ Moved(jobs, d, v)[u].doc = jobs[u].doc
               /\ Moved(jobs, d, v)[u].ver = jobs[u].ver
               /\ Moved(jobs, d, v)[u].fps = jobs[u].fps
               /\ Moved(jobs, d, v)[u].todo = jobs[u].todo
               /\ Moved(jobs, d, v)[u].quiet =>
                    jobs[u].quiet /\ ~(jobs[u].doc = d /\ jobs[u].ver # v)
      BY <2>4, MovedFacts
    <3>1. /\ job[u] # Idle /\ job[u].quiet /\ ~(job[u].doc = d /\ job[u].ver # v)
          /\ job'[u].doc = job[u].doc /\ job'[u].ver = job[u].ver /\ job'[u].fps = job[u].fps
          /\ job'[u].todo = IF u = w THEN job[w].todo \ {f} ELSE job[u].todo
      BY <2>2, <2>4, <2>5, <3>0
    <3>2. /\ \A g \in job[u].fps : JobRow(u, g) \notin superseded'
          /\ \A g \in job[u].fps \ job[u].todo : JobRow(u, g) \in rows'
      BY <2>1, <2>2, <3>1, RowsKept
    <3>3. \A g : JobRow(u, g)' = JobRow(u, g)
      BY <3>1 DEF JobRow
    <3>. QED  BY <2>2, <3>1, <3>2, <3>3
  <2>. QED  BY <2>5 DEF QuietRows
<1>3. ASSUME NEW w \in Ingester, Crash(w)
      PROVE  QuietRows'
  BY <1>3 DEF Crash, QuietRows, JobRow
<1>4. ASSUME NEW d \in Document, NEW v \in Version, SupersedeCall(d, v)
      PROVE  QuietRows'
  <2>1. /\ job' = Moved(job, d, v)
        /\ rows' = rows
        /\ superseded' \subseteq superseded \cup OtherVersions(d, v)
    BY <1>4 DEF SupersedeCall, Supersede
  <2>2. ASSUME NEW u \in Ingester, job'[u] # Idle, job'[u].quiet
        PROVE  /\ \A g \in job'[u].fps : JobRow(u, g)' \notin superseded'
               /\ \A g \in job'[u].fps \ job'[u].todo : JobRow(u, g)' \in rows'
    <3>1. /\ job[u] # Idle /\ job[u].quiet /\ ~(job[u].doc = d /\ job[u].ver # v)
          /\ job'[u].doc = job[u].doc /\ job'[u].ver = job[u].ver
          /\ job'[u].fps = job[u].fps /\ job'[u].todo = job[u].todo
      BY <2>1, <2>2, MovedFacts
    <3>2. /\ \A g \in job[u].fps : JobRow(u, g) \notin superseded'
          /\ \A g \in job[u].fps \ job[u].todo : JobRow(u, g) \in rows'
      BY <2>1, <3>1, RowsKept
    <3>3. \A g : JobRow(u, g)' = JobRow(u, g)
      BY <3>1 DEF JobRow
    <3>. QED  BY <3>1, <3>2, <3>3
  <2>. QED  BY <2>2 DEF QuietRows
<1>5. ASSUME NEW d \in Document, NEW grant \in BOOLEAN, SetAuthorizationCall(d, grant)
      PROVE  QuietRows'
  BY <1>5 DEF SetAuthorizationCall, SetAuthorization, QuietRows, JobRow
<1>6. CASE UNCHANGED ingestionVars
  BY <1>6 DEF ingestionVars, QuietRows, JobRow
<1>. QED  BY <1>1, <1>2, <1>3, <1>4, <1>5, <1>6 DEF IngestionNext

LEMMA IngestionInductive == IngestionInv /\ [IngestionNext]_ingestionVars => IngestionInv'
<1>. SUFFICES ASSUME IngestionInv, [IngestionNext]_ingestionVars PROVE IngestionInv'
  OBVIOUS
<1>1. IndexInv'
  BY StepRefinesIndex, NextPreserves DEF IngestionInv
<1>. QED  BY <1>1, TypePreserved, QuietRowsPreserved DEF IngestionInv

LEMMA IngestionInitial == IngestionInit => IngestionInv
<1>. SUFFICES ASSUME IngestionInit PROVE IngestionInv
  OBVIOUS
<1>1. IndexInv
  BY InitEstablishes DEF IngestionInit
<1>2. IngestionTypeOK
  BY <1>1 DEF IngestionInit, IngestionTypeOK, IndexInv
<1>3. QuietRows
  BY DEF IngestionInit, QuietRows
<1>. QED  BY <1>1, <1>2, <1>3 DEF IngestionInv

(* The invariant of ingestion, and with it the types of jobs and tables. *)
THEOREM IngestionInvariant == IngestionSpec => []IngestionInv
<1>. QED  BY IngestionInitial, IngestionInductive, PTL DEF IngestionSpec

THEOREM IngestionTypes == IngestionSpec => []IngestionTypeOK
<1>1. IngestionInv => IngestionTypeOK
  BY DEF IngestionInv
<1>. QED  BY <1>1, IngestionInvariant, PTL

(* Ingesters, crashes included, use the index only through its operations:  *)
(* all that is proved of IndexSpec holds while documents are ingested.      *)
THEOREM IngestionImplementsIndex == IngestionSpec => IndexSpec
<1>1. IngestionInit => IndexInit
  BY DEF IngestionInit
<1>2. IngestionInv /\ [IngestionNext]_ingestionVars => [IndexNext]_indexVars
  BY StepRefinesIndex DEF IngestionInv
<1>. QED  BY <1>1, <1>2, IngestionInvariant, PTL DEF IngestionSpec, IndexSpec

LEMMA QuietMeansLive == IngestionInv => QuietIngestIsLive
<1>. SUFFICES ASSUME IngestionInv, NEW w \in Ingester, job[w] # Idle, job[w].quiet,
                     NEW f \in job[w].fps \ job[w].todo
              PROVE  /\ JobRow(w, f) \in rows \ superseded
                     /\ current[job[w].doc] = job[w].ver
  BY DEF QuietIngestIsLive, JobRow
<1>1. JobRow(w, f) \in rows \ superseded
  BY DEF IngestionInv, QuietRows
<1>. QED  BY <1>1 DEF IngestionInv, IndexInv, LiveRowIsCurrent, JobRow, RowFor

(* What a call of ingest() wrote is live as long as nobody moved its        *)
(* document to another version, however many ingesters run and crash.       *)
THEOREM QuietIngestLive == IngestionSpec => []QuietIngestIsLive
<1>. QED  BY QuietMeansLive, IngestionInvariant, PTL

LEMMA QuietMeansServed == IngestionInv => QuietIngestIsServed
<1>. SUFFICES ASSUME IngestionInv, NEW w \in Ingester, job[w] # Idle, job[w].quiet,
                     NEW f \in job[w].fps \ job[w].todo
              PROVE  "STALE" \notin Outcomes(f) /\ "UNVERIFIED" \notin Outcomes(f)
  BY DEF QuietIngestIsServed
<1>. DEFINE row == JobRow(w, f)
<1>1. f \in Fingerprint
  BY DEF IngestionInv, IngestionTypeOK, Job
<1>2. row \in rows \ superseded /\ row \in RowsOf(f)
  BY QuietMeansLive DEF QuietIngestIsLive, JobRow, RowFor, RowsOf
<1>3. LookupRows(f) # {}
  BY <1>1, <1>2, LookupFinds DEF IngestionInv
<1>4. \A r \in LookupRows(f) : r \notin superseded
  BY <1>2 DEF LookupRows
<1>5. \A r \in LookupRows(f) : OutcomeOf(r) \notin {"STALE", "UNVERIFIED"}
  BY <1>4 DEF OutcomeOf
<1>. QED  BY <1>3, <1>5 DEF Outcomes

(* ... and a reader who retrieves one of its chunks is told neither that it *)
(* is unknown nor that it is out of date.                                   *)
THEOREM QuietIngestServed == IngestionSpec => []QuietIngestIsServed
<1>. QED  BY QuietMeansServed, IngestionInvariant, PTL

-----------------------------------------------------------------------------
(* Retrieval.                                                              *)

(* One operation of the index on document d. *)
WriteTo(d) ==
    \/ \E r \in Row, grant \in BOOLEAN, at \in Time : r.doc = d /\ Add(r, grant, at)
    \/ \E grant \in BOOLEAN : SetAuthorization(d, grant)
    \/ \E v \in Version : Supersede(d, v)
    \/ \E r \in Row : r.doc = d /\ Tamper(r)

LEMMA WriteFrame ==
  ASSUME IndexInv, NEW d \in Document, WriteTo(d)
  PROVE  /\ IndexNext
         /\ rows \subseteq rows'
         /\ \A r \in rows : ingestedAt'[r] = ingestedAt[r]
         /\ \A r \in Row : r.doc # d =>
              /\ r \in rows' <=> r \in rows
              /\ ingestedAt'[r] = ingestedAt[r]
              /\ r \in superseded' <=> r \in superseded
              /\ r \in tampered' <=> r \in tampered
              /\ authorized'[r.doc] = authorized[r.doc]
         /\ \A e \in Document : e # d => authorized'[e] = authorized[e]
<1>. USE DEF IndexInv
<1>0. \A r \in Row : r.doc \in Document
  BY DEF Row
<1>1. ASSUME NEW q \in Row, NEW grant \in BOOLEAN, NEW at \in Time, q.doc = d, Add(q, grant, at)
      PROVE  /\ rows \subseteq rows'
             /\ \A r \in rows : ingestedAt'[r] = ingestedAt[r]
             /\ \A r \in Row : r.doc # d =>
                  /\ r \in rows' <=> r \in rows
                  /\ ingestedAt'[r] = ingestedAt[r]
                  /\ r \in superseded' <=> r \in superseded
                  /\ r \in tampered' <=> r \in tampered
                  /\ authorized'[r.doc] = authorized[r.doc]
             /\ \A e \in Document : e # d => authorized'[e] = authorized[e]
  BY <1>0, <1>1 DEF Add, OtherVersions, IndexTypeOK
<1>2. ASSUME NEW grant \in BOOLEAN, SetAuthorization(d, grant)
      PROVE  /\ rows' = rows /\ ingestedAt' = ingestedAt
             /\ superseded' = superseded /\ tampered' = tampered
             /\ \A e \in Document : e # d => authorized'[e] = authorized[e]
  BY <1>2 DEF SetAuthorization, IndexTypeOK
<1>3. ASSUME NEW v \in Version, Supersede(d, v)
      PROVE  /\ rows' = rows /\ ingestedAt' = ingestedAt /\ tampered' = tampered
             /\ authorized' = authorized
             /\ \A r : r.doc # d => (r \in superseded' <=> r \in superseded)
  BY <1>3 DEF Supersede, OtherVersions
<1>4. ASSUME NEW q \in Row, q.doc = d, Tamper(q)
      PROVE  /\ rows' = rows /\ ingestedAt' = ingestedAt /\ superseded' = superseded
             /\ authorized' = authorized
             /\ \A r : r.doc # d => (r \in tampered' <=> r \in tampered)
  BY <1>4 DEF Tamper
<1>5. IndexNext
  BY DEF WriteTo, IndexNext
<1>. QED  BY <1>0, <1>1, <1>2, <1>3, <1>4, <1>5 DEF WriteTo

-----------------------------------------------------------------------------
(* The inductive invariant.                                                *)

FpUndisturbed(f) == \A r \in RowsOf(f) : r.doc \notin touched

(* The verdict between the two reads is still one that verify() gives, and  *)
(* a verdict the default policy lets through was given on an authorized     *)
(* document.                                                                *)
PendingIsCurrent ==
    (verdict # "none" /\ FpUndisturbed(NextChunk)) => verdict \in Outcomes(NextChunk)

PendingWasGranted ==
    verdict \in {"VERIFIED", "STALE"} => \E r \in RowsOf(NextChunk) : r.doc \in granted

GrantedSeen ==
    phase = "running" => \A d \in Document : authorized[d] => d \in granted

GateInv ==
    /\ IndexInv
    /\ GateTypeOK
    /\ UndisturbedSourceIsSnapshot
    /\ CitationStands
    /\ RevocationHolds
    /\ PendingIsCurrent
    /\ PendingWasGranted
    /\ GrantedSeen

LEMMA NextChunkType ==
  ASSUME GateTypeOK, verdict # "none"
  PROVE  NextChunk \in Fingerprint
BY DEF GateTypeOK, NextChunk

(* Writing d leaves lookups and verdicts alone for fingerprints that d does *)
(* not hold afterwards.                                                     *)
LEMMA WriteLeavesVerdict ==
  ASSUME IndexInv, NEW d \in Document, WriteTo(d), NEW f \in Fingerprint,
         \A r \in RowsOf(f)' : r.doc # d
  PROVE  /\ RowsOf(f)' = RowsOf(f)
         /\ LookupRows(f)' = LookupRows(f)
         /\ Entries(f)' = Entries(f)
         /\ Outcomes(f)' = Outcomes(f)
         /\ \A r \in RowsOf(f) : OutcomeOf(r)' = OutcomeOf(r) /\ authorized'[r.doc] = authorized[r.doc]
<1>1. IndexInv'
  BY WriteFrame, NextPreserves
<1>2. rows \subseteq Row /\ rows' \subseteq Row
  BY <1>1 DEF IndexInv, IndexTypeOK
<1>3. RowsOf(f)' = RowsOf(f)
  BY <1>2, WriteFrame DEF RowsOf
<1>4. \A r \in RowsOf(f) : r \in Row /\ r.doc # d
  BY <1>2, <1>3 DEF RowsOf
<1>5. /\ \A r \in RowsOf(f) : ingestedAt'[r] = ingestedAt[r]
      /\ \A r \in RowsOf(f) : r \in superseded' <=> r \in superseded
      /\ \A r \in RowsOf(f) : r \in tampered' <=> r \in tampered
      /\ \A r \in RowsOf(f) : authorized'[r.doc] = authorized[r.doc]
  BY <1>4, WriteFrame
<1>6. Outcomes(f)' = Outcomes(f)
  BY <1>3, <1>5, OutcomesFrame
<1>7. (RowsOf(f) \ superseded)' = RowsOf(f) \ superseded
  BY <1>3, <1>5
<1>8. LookupRows(f)' = LookupRows(f)
  BY <1>3, <1>5, <1>7 DEF LookupRows
<1>9. \A r \in RowsOf(f) : OutcomeOf(r)' = OutcomeOf(r)
  BY <1>5 DEF OutcomeOf
<1>. QED  BY <1>3, <1>5, <1>6, <1>8, <1>9 DEF Entries

LEMMA LookupIsRow ==
  ASSUME NEW f PROVE LookupRows(f) \subseteq RowsOf(f)
BY DEF LookupRows

-----------------------------------------------------------------------------
(* Preservation, one lemma per action.                                     *)

LEMMA WritePreserves ==
  ASSUME GateInv, NEW d \in Document, WriteTo(d), Written(d)
  PROVE  GateInv'
<1>. USE DEF GateInv
<1>1. IndexInv'
  BY WriteFrame, NextPreserves
<1>2. /\ phase' = phase /\ chunks' = chunks /\ verdict' = verdict
      /\ sources' = sources /\ kept' = kept
      /\ NextChunk' = NextChunk /\ Receipt' = Receipt
      /\ touched' = touched \cup {d} /\ granted \subseteq granted'
  BY DEF Written, callVars, NextChunk, Receipt
<1>3. GateTypeOK'
  <2>1. granted' \subseteq Document
    BY DEF Written, GateTypeOK
  <2>. QED  BY <1>1, <1>2, <2>1 DEF GateTypeOK, IndexInv
<1>4. \A s \in Receipt : s \in Source
  BY DEF Receipt, GateTypeOK
<1>5. UndisturbedSourceIsSnapshot'
  <2>. SUFFICES ASSUME NEW s \in Receipt, Undisturbed(s)'
                PROVE  (/\ s.outcome \in Outcomes(s.fp)
                        /\ s.row \in Entries(s.fp)
                        /\ (s.outcome = "UNVERIFIED") <=> (s.row = NoRow)
                        /\ s.row # NoRow => s.grant = authorized[s.row.doc]
                        /\ LookupRows(s.fp) = {s.row} => s.outcome = OutcomeOf(s.row))'
    BY <1>2 DEF UndisturbedSourceIsSnapshot
  <2>1. s.fp \in Fingerprint
    BY <1>4 DEF Source
  <2>2. \A r \in RowsOf(s.fp)' : r.doc # d /\ r.doc \notin touched
    BY <1>2 DEF Undisturbed
  <2>3. /\ RowsOf(s.fp)' = RowsOf(s.fp)
        /\ LookupRows(s.fp)' = LookupRows(s.fp)
        /\ Entries(s.fp)' = Entries(s.fp)
        /\ Outcomes(s.fp)' = Outcomes(s.fp)
        /\ \A r \in RowsOf(s.fp) : OutcomeOf(r)' = OutcomeOf(r) /\ authorized'[r.doc] = authorized[r.doc]
    BY <2>1, <2>2, WriteLeavesVerdict
  <2>4. Undisturbed(s)
    BY <2>2, <2>3 DEF Undisturbed
  <2>5. /\ s.outcome \in Outcomes(s.fp)
        /\ s.row \in Entries(s.fp)
        /\ (s.outcome = "UNVERIFIED") <=> (s.row = NoRow)
        /\ s.row # NoRow => s.grant = authorized[s.row.doc]
        /\ LookupRows(s.fp) = {s.row} => s.outcome = OutcomeOf(s.row)
    BY <2>4 DEF UndisturbedSourceIsSnapshot
  <2>6. s.row # NoRow => s.row \in RowsOf(s.fp)
    BY <2>5, LookupIsRow DEF Entries
  <2>7. LookupRows(s.fp) = {s.row} => s.row \in RowsOf(s.fp)
    BY LookupIsRow
  <2>. QED  BY <2>3, <2>5, <2>6, <2>7
<1>6. CitationStands'
  BY <1>2, WriteFrame DEF CitationStands
<1>7. RowsOf(NextChunk) \subseteq RowsOf(NextChunk)'
  BY <1>2, WriteFrame DEF RowsOf
<1>8. RevocationHolds'
  <2>. \A f : RowsOf(f) \subseteq RowsOf(f)'
    BY WriteFrame DEF RowsOf
  <2>. QED  BY <1>2 DEF RevocationHolds
<1>9. PendingIsCurrent'
  <2>. SUFFICES ASSUME verdict # "none", \A r \in RowsOf(NextChunk)' : r.doc \notin touched'
                PROVE  verdict \in Outcomes(NextChunk)'
    BY <1>2 DEF PendingIsCurrent, FpUndisturbed, RowsOf
  <2>1. NextChunk \in Fingerprint
    BY NextChunkType
  <2>. DEFINE f == NextChunk
  <2>2. \A r \in RowsOf(f)' : r.doc # d /\ r.doc \notin touched
    BY <1>2
  <2>3. verdict \in Outcomes(f)
    BY <1>7, <2>2 DEF PendingIsCurrent, FpUndisturbed
  <2>4. \A g \in Fingerprint : (\A r \in rows' : r.fp = g => r.doc # d) => Outcomes(g)' = Outcomes(g)
    <3>. TAKE g \in Fingerprint
    <3>. QED  BY WriteLeavesVerdict DEF RowsOf
  <2>5. \A r \in rows' : r.fp = f => r.doc # d
    BY <1>2, <2>2 DEF RowsOf
  <2>. QED  BY <1>2, <2>1, <2>3, <2>4, <2>5
<1>10. PendingWasGranted'
  BY <1>2, <1>7 DEF PendingWasGranted
<1>11. GrantedSeen'
  BY <1>2, WriteFrame DEF GrantedSeen, Written
<1>. QED  BY <1>1, <1>3, <1>5, <1>6, <1>8, <1>9, <1>10, <1>11

(* The steps of the call leave the index alone. *)
LEMMA ReadFrame ==
  ASSUME UNCHANGED indexVars
  PROVE  /\ \A f : /\ RowsOf(f)' = RowsOf(f)
                   /\ LookupRows(f)' = LookupRows(f)
                   /\ Entries(f)' = Entries(f)
                   /\ Outcomes(f)' = Outcomes(f)
         /\ \A r : OutcomeOf(r)' = OutcomeOf(r)
         /\ IndexInv => IndexInv'
BY DEF indexVars, RowsOf, LookupRows, Entries, Outcomes, OutcomeOf,
       IndexInv, IndexTypeOK, LiveRowIsCurrent

LEMMA ChunkListType ==
  ASSUME NEW cs \in ChunkLists PROVE cs \in Seq(Fingerprint)
<1>1. PICK n \in 0..MaxChunks : cs \in [1..n -> Fingerprint]
  BY DEF ChunkLists
<1>2. n \in Nat
  BY <1>1, GateAssumption
<1>. QED  BY <1>1, <1>2

LEMMA BeginPreserves ==
  ASSUME GateInv, NEW cs \in ChunkLists, Begin(cs)
  PROVE  GateInv'
<1>. USE DEF GateInv, Begin
<1>1. UNCHANGED indexVars
  BY DEF indexVars
<1>2. Receipt' = {} /\ kept' = {} /\ verdict' = "none"
  BY DEF Receipt, GateTypeOK
<1>3. GateTypeOK'
  <2>1. Len(<<>>) = 0 /\ Len(cs) \in Nat /\ cs \in Seq(Fingerprint)
    BY ChunkListType
  <2>2. IndexTypeOK'
    BY <1>1, ReadFrame DEF IndexInv
  <2>. QED  BY <1>2, <2>1, <2>2 DEF GateTypeOK
<1>4. IndexInv'
  BY <1>1, ReadFrame
<1>5. UndisturbedSourceIsSnapshot' /\ CitationStands' /\ RevocationHolds'
  BY <1>2 DEF UndisturbedSourceIsSnapshot, CitationStands, RevocationHolds
<1>6. PendingIsCurrent' /\ PendingWasGranted'
  BY <1>2 DEF PendingIsCurrent, PendingWasGranted
<1>7. GrantedSeen'
  BY DEF GrantedSeen
<1>. QED  BY <1>3, <1>4, <1>5, <1>6, <1>7

LEMMA VerifyPreserves ==
  ASSUME GateInv, VerifyChunk
  PROVE  GateInv'
<1>. USE DEF GateInv, VerifyChunk
<1>1. UNCHANGED indexVars
  BY DEF indexVars
<1>2. Receipt' = Receipt /\ NextChunk' = NextChunk
  BY DEF Receipt, NextChunk
<1>3. NextChunk \in Fingerprint
  BY DEF GateTypeOK, NextChunk
<1>4. verdict' \in OutcomeKind
  BY DEF Outcomes, OutcomeOf, OutcomeKind
<1>5. GateTypeOK'
  <2>1. IndexTypeOK'
    BY <1>1, ReadFrame DEF IndexInv
  <2>. QED  BY <1>4, <2>1 DEF GateTypeOK
<1>6. IndexInv'
  BY <1>1, ReadFrame
<1>7. UndisturbedSourceIsSnapshot'
  BY <1>1, <1>2, ReadFrame DEF UndisturbedSourceIsSnapshot, Undisturbed
<1>8. CitationStands' /\ RevocationHolds'
  BY <1>1, <1>2, ReadFrame DEF CitationStands, RevocationHolds
<1>9. PendingIsCurrent'
  BY <1>1, <1>2, ReadFrame DEF PendingIsCurrent
<1>10. PendingWasGranted'
  <2>. SUFFICES ASSUME verdict' \in {"VERIFIED", "STALE"}
                PROVE  \E r \in RowsOf(NextChunk) : r.doc \in granted
    BY <1>1, <1>2, ReadFrame DEF PendingWasGranted
  <2>1. PICK r \in LookupRows(NextChunk) : OutcomeOf(r) = verdict'
    BY DEF Outcomes
  <2>2. authorized[r.doc]
    BY <2>1 DEF OutcomeOf
  <2>3. r \in RowsOf(NextChunk) /\ r.doc \in Document
    BY <2>1, LookupIsRow DEF RowsOf, IndexInv, IndexTypeOK, Row
  <2>. QED  BY <2>2, <2>3 DEF GrantedSeen
<1>11. GrantedSeen'
  BY DEF GrantedSeen
<1>. QED  BY <1>5, <1>6, <1>7, <1>8, <1>9, <1>10, <1>11

(* At the second read of an undisturbed chunk the verdict still stands, so  *)
(* it and the entry describe one state of the index.                        *)
LEMMA VerdictMatchesEntry ==
  ASSUME GateInv, verdict # "none", NEW r \in Entries(NextChunk), FpUndisturbed(NextChunk)
  PROVE  /\ verdict \in Outcomes(NextChunk)
         /\ (verdict = "UNVERIFIED") <=> (r = NoRow)
         /\ LookupRows(NextChunk) = {r} => verdict = OutcomeOf(r)
<1>. USE DEF GateInv
<1>1. verdict \in Outcomes(NextChunk)
  BY DEF PendingIsCurrent
<1>2. \A q : OutcomeOf(q) # "UNVERIFIED"
  BY DEF OutcomeOf
<1>3. NoRow \notin LookupRows(NextChunk)
  BY LookupIsRow, GateAssumption DEF RowsOf, IndexInv, IndexTypeOK
<1>. QED  BY <1>1, <1>2, <1>3 DEF Outcomes, Entries

LEMMA LookupPreserves ==
  ASSUME GateInv, NEW r \in Row \cup {NoRow}, LookupChunk(r)
  PROVE  GateInv'
<1>. USE DEF GateInv
<1>. DEFINE new == [fp |-> NextChunk, outcome |-> verdict, row |-> r,
                    at |-> IF r = NoRow THEN 0 ELSE ingestedAt[r],
                    grant |-> IF r = NoRow THEN FALSE ELSE authorized[r.doc]]
<1>1. UNCHANGED indexVars
  BY DEF LookupChunk, indexVars
<1>2. /\ sources' = Append(sources, new) /\ verdict # "none" /\ verdict' = "none"
      /\ r \in Entries(NextChunk)
      /\ phase' = phase /\ chunks' = chunks /\ touched' = touched /\ granted' = granted
      /\ kept' \subseteq kept \cup {Len(sources) + 1}
      /\ Len(sources) + 1 \in kept' => verdict \notin Blocked \/ Len(sources) + 1 \in kept
  BY DEF LookupChunk
<1>3. NextChunk \in Fingerprint /\ verdict \in OutcomeKind
  BY <1>2, NextChunkType DEF GateTypeOK
<1>4. new \in Source
  <2>1. new.at \in {0} \cup Time
    BY DEF IndexInv, IndexTypeOK
  <2>2. new.grant \in BOOLEAN
    BY DEF IndexInv, IndexTypeOK, Row
  <2>. QED  BY <1>3, <2>1, <2>2 DEF Source
<1>. HIDE DEF new
<1>5. /\ sources \in Seq(Source) /\ sources' \in Seq(Source)
      /\ Len(sources') = Len(sources) + 1 /\ Len(sources) \in Nat
      /\ DOMAIN sources' = DOMAIN sources \cup {Len(sources) + 1}
      /\ \A i \in DOMAIN sources : sources'[i] = sources[i]
      /\ sources'[Len(sources) + 1] = new
      /\ Len(sources) + 1 \notin DOMAIN sources
  BY <1>2, <1>4 DEF GateTypeOK
<1>6. Receipt' = Receipt \cup {new}
  BY <1>5 DEF Receipt
<1>7. GateTypeOK'
  <2>1. IndexTypeOK'
    BY <1>1, ReadFrame DEF IndexInv
  <2>2. Len(sources') <= Len(chunks')
    BY <1>2, <1>5 DEF GateTypeOK
  <2>3. kept' \subseteq DOMAIN sources'
    BY <1>2, <1>5 DEF GateTypeOK
  <2>. QED  BY <1>2, <1>5, <2>1, <2>2, <2>3 DEF GateTypeOK
<1>8. IndexInv'
  BY <1>1, ReadFrame
<1>9. UndisturbedSourceIsSnapshot'
  <2>1. ASSUME FpUndisturbed(NextChunk)
        PROVE  /\ new.outcome \in Outcomes(new.fp)
               /\ new.row \in Entries(new.fp)
               /\ (new.outcome = "UNVERIFIED") <=> (new.row = NoRow)
               /\ new.row # NoRow => new.grant = authorized[new.row.doc]
               /\ LookupRows(new.fp) = {new.row} => new.outcome = OutcomeOf(new.row)
    BY <1>2, <2>1, VerdictMatchesEntry DEF new
  <2>2. new.fp = NextChunk
    BY DEF new
  <2>3. ASSUME NEW s \in Receipt', Undisturbed(s)'
        PROVE  /\ s.outcome \in Outcomes(s.fp)
               /\ s.row \in Entries(s.fp)
               /\ (s.outcome = "UNVERIFIED") <=> (s.row = NoRow)
               /\ s.row # NoRow => s.grant = authorized[s.row.doc]
               /\ LookupRows(s.fp) = {s.row} => s.outcome = OutcomeOf(s.row)
    <3>1. Undisturbed(s)
      BY <1>1, <1>2, <2>3, ReadFrame DEF Undisturbed
    <3>2. CASE s = new
      BY <2>1, <2>2, <3>1, <3>2 DEF Undisturbed, FpUndisturbed
    <3>3. CASE s \in Receipt
      BY <3>1, <3>3 DEF UndisturbedSourceIsSnapshot
    <3>. QED  BY <1>6, <2>3, <3>2, <3>3
  <2>4. authorized' = authorized
    BY <1>1 DEF indexVars
  <2>. QED  BY <1>1, <2>3, <2>4, ReadFrame DEF UndisturbedSourceIsSnapshot
<1>10. CitationStands'
  <2>1. new.row # NoRow =>
          new.row \in rows /\ new.row.fp = new.fp /\ ingestedAt[new.row] = new.at
    BY <1>2, LookupIsRow DEF new, Entries, RowsOf
  <2>. QED  BY <1>1, <1>6, <2>1 DEF CitationStands, indexVars
<1>11. RevocationHolds'
  <2>. SUFFICES ASSUME {"UNAUTHORIZED", "TAMPERED"} \subseteq Blocked,
                       NEW i \in kept', sources'[i].outcome # "UNVERIFIED"
                PROVE  \E q \in RowsOf(sources'[i].fp) : q.doc \in granted
    BY <1>1, <1>2, ReadFrame DEF RevocationHolds
  <2>1. CASE i \in kept
    <3>1. i \in DOMAIN sources
      BY <2>1 DEF GateTypeOK
    <3>. QED  BY <1>5, <2>1, <3>1 DEF RevocationHolds
  <2>2. CASE i \notin kept
    <3>1. i = Len(sources) + 1 /\ verdict \notin Blocked
      BY <1>2, <2>2
    <3>2. sources'[i].fp = NextChunk /\ sources'[i].outcome = verdict
      BY <1>5, <3>1 DEF new
    <3>3. verdict \in {"VERIFIED", "STALE"}
      BY <1>3, <3>1, <3>2 DEF OutcomeKind
    <3>. QED  BY <3>2, <3>3 DEF PendingWasGranted
  <2>. QED  BY <2>1, <2>2
<1>12. PendingIsCurrent' /\ PendingWasGranted'
  BY <1>2 DEF PendingIsCurrent, PendingWasGranted
<1>13. GrantedSeen'
  BY <1>1, <1>2 DEF GrantedSeen, indexVars
<1>. QED  BY <1>7, <1>8, <1>9, <1>10, <1>11, <1>12, <1>13

LEMMA FinalizePreserves ==
  ASSUME GateInv, Finalize
  PROVE  GateInv'
<1>. USE DEF GateInv, Finalize
<1>1. UNCHANGED indexVars /\ verdict = "none"
  BY DEF indexVars, GateTypeOK
<1>2. Receipt' = Receipt /\ NextChunk' = NextChunk
  BY DEF Receipt, NextChunk
<1>3. IndexInv' /\ GateTypeOK'
  BY <1>1, ReadFrame DEF IndexInv, GateTypeOK
<1>4. UndisturbedSourceIsSnapshot'
  BY <1>1, <1>2, ReadFrame DEF UndisturbedSourceIsSnapshot, Undisturbed
<1>5. CitationStands' /\ RevocationHolds'
  BY <1>1, <1>2, ReadFrame DEF CitationStands, RevocationHolds
<1>6. PendingIsCurrent' /\ PendingWasGranted' /\ GrantedSeen'
  BY <1>1 DEF PendingIsCurrent, PendingWasGranted, GrantedSeen
<1>. QED  BY <1>3, <1>4, <1>5, <1>6

LEMMA AbortPreserves ==
  ASSUME GateInv, Abort
  PROVE  GateInv'
<1>. USE DEF GateInv, Abort
<1>1. UNCHANGED indexVars
  BY DEF indexVars
<1>2. Receipt' = {} /\ kept' = {} /\ verdict' = "none" /\ phase' = "idle"
  BY DEF Receipt
<1>3. IndexInv' /\ GateTypeOK'
  <2>1. Len(<<>>) = 0
    OBVIOUS
  <2>. QED  BY <1>1, <1>2, <2>1, ReadFrame DEF IndexInv, GateTypeOK
<1>4. /\ UndisturbedSourceIsSnapshot' /\ CitationStands' /\ RevocationHolds'
      /\ PendingIsCurrent' /\ PendingWasGranted' /\ GrantedSeen'
  BY <1>2 DEF UndisturbedSourceIsSnapshot, CitationStands, RevocationHolds,
              PendingIsCurrent, PendingWasGranted, GrantedSeen
<1>. QED  BY <1>3, <1>4

LEMMA GateInductive == GateInv /\ [GateNext]_gateVars => GateInv'
<1>. SUFFICES ASSUME GateInv, [GateNext]_gateVars PROVE GateInv'
  OBVIOUS
<1>1. ASSUME NEW cs \in ChunkLists, Begin(cs) PROVE GateInv'
  BY <1>1, BeginPreserves
<1>2. CASE VerifyChunk
  BY <1>2, VerifyPreserves
<1>3. ASSUME NEW r \in Row \cup {NoRow}, LookupChunk(r) PROVE GateInv'
  BY <1>3, LookupPreserves
<1>4. CASE Finalize
  BY <1>4, FinalizePreserves
<1>5. CASE Abort
  BY <1>5, AbortPreserves
<1>6. ASSUME NEW d \in Document, WriteTo(d), Written(d) PROVE GateInv'
  BY <1>6, WritePreserves
<1>7. ASSUME NEW r \in Row, NEW grant \in BOOLEAN, NEW at \in Time,
             Add(r, grant, at), Written(r.doc)
      PROVE  GateInv'
  BY <1>6, <1>7 DEF WriteTo, Row
<1>8. ASSUME NEW d \in Document, NEW grant \in BOOLEAN, SetAuthorization(d, grant), Written(d)
      PROVE  GateInv'
  BY <1>6, <1>8 DEF WriteTo
<1>9. ASSUME NEW d \in Document, NEW v \in Version, Supersede(d, v), Written(d)
      PROVE  GateInv'
  BY <1>6, <1>9 DEF WriteTo
<1>10. ASSUME NEW r \in Row, Tamper(r), Written(r.doc)
       PROVE  GateInv'
  BY <1>6, <1>10 DEF WriteTo, Row
<1>11. CASE UNCHANGED gateVars
  <2>1. UNCHANGED indexVars /\ Receipt' = Receipt /\ NextChunk' = NextChunk
    BY <1>11 DEF gateVars, indexVars, Receipt, NextChunk
  <2>2. IndexInv' /\ GateTypeOK'
    BY <1>11, <2>1, ReadFrame DEF GateInv, gateVars, IndexInv, GateTypeOK
  <2>3. UndisturbedSourceIsSnapshot'
    BY <1>11, <2>1, ReadFrame DEF GateInv, gateVars, UndisturbedSourceIsSnapshot, Undisturbed
  <2>4. CitationStands' /\ RevocationHolds' /\ PendingIsCurrent' /\ PendingWasGranted'
    BY <1>11, <2>1, ReadFrame DEF GateInv, gateVars, CitationStands, RevocationHolds,
       PendingIsCurrent, PendingWasGranted, FpUndisturbed
  <2>5. GrantedSeen'
    BY <1>11 DEF GateInv, gateVars, GrantedSeen
  <2>. QED  BY <2>2, <2>3, <2>4, <2>5 DEF GateInv
<1>. QED  BY <1>1, <1>2, <1>3, <1>4, <1>5, <1>7, <1>8, <1>9, <1>10, <1>11 DEF GateNext

LEMMA GateInitial == GateInit => GateInv
<1>. SUFFICES ASSUME GateInit PROVE GateInv
  OBVIOUS
<1>. USE DEF GateInit
<1>1. IndexInv
  BY InitEstablishes
<1>2. Receipt = {} /\ kept = {} /\ verdict = "none" /\ phase = "idle"
  BY DEF Receipt
<1>3. GateTypeOK
  <2>1. Len(<<>>) = 0 /\ <<>> \in Seq(Fingerprint) /\ <<>> \in Seq(Source)
    OBVIOUS
  <2>. QED  BY <1>1, <2>1 DEF GateTypeOK, IndexInv
<1>. QED  BY <1>1, <1>2, <1>3 DEF GateInv, UndisturbedSourceIsSnapshot, CitationStands,
          RevocationHolds, PendingIsCurrent, PendingWasGranted, GrantedSeen

(* The invariant of a retrieval among writers. *)
THEOREM GateInvariant == GateSpec => []GateInv
<1>. QED  BY GateInitial, GateInductive, PTL DEF GateSpec

(* The call, the tables and the receipt keep their types. *)
THEOREM GateTypes == GateSpec => []GateTypeOK
<1>1. GateInv => GateTypeOK
  BY DEF GateInv
<1>. QED  BY <1>1, GateInvariant, PTL

(* Chunks whose documents are not written to during a call are recorded as  *)
(* one state of the index shows them.                                       *)
THEOREM SnapshotReceipts == GateSpec => []UndisturbedSourceIsSnapshot
<1>1. GateInv => UndisturbedSourceIsSnapshot
  BY DEF GateInv
<1>. QED  BY <1>1, GateInvariant, PTL

(* What a receipt cites stays in the index. *)
THEOREM CitationsStand == GateSpec => []CitationStands
<1>1. GateInv => CitationStands
  BY DEF GateInv
<1>. QED  BY <1>1, GateInvariant, PTL

(* A chunk of documents that are unauthorized throughout a call is withheld *)
(* whatever is written between the two reads.                               *)
THEOREM RevocationIsEnforced == GateSpec => []RevocationHolds
<1>1. GateInv => RevocationHolds
  BY DEF GateInv
<1>. QED  BY <1>1, GateInvariant, PTL

LEMMA SnapshotIsOneVersion == GateInv => OneVersionPerDocument
<1>. SUFFICES ASSUME GateInv, NEW s \in Receipt, NEW t \in Receipt,
                     s.outcome = "VERIFIED", Undisturbed(s),
                     t.outcome = "VERIFIED", Undisturbed(t),
                     s.row.doc = t.row.doc
              PROVE  s.row.ver = t.row.ver
  BY DEF OneVersionPerDocument
<1>1. ASSUME NEW u \in Receipt, u.outcome = "VERIFIED", Undisturbed(u)
      PROVE  current[u.row.doc] = u.row.ver
  <2>1. /\ "VERIFIED" \in Outcomes(u.fp)
        /\ u.row \in LookupRows(u.fp)
    BY <1>1 DEF GateInv, UndisturbedSourceIsSnapshot, Entries
  <2>2. PICK q \in LookupRows(u.fp) : q \notin superseded
    BY <2>1 DEF Outcomes, OutcomeOf
  <2>3. u.row \in rows \ superseded
    BY <2>1, <2>2 DEF LookupRows, RowsOf
  <2>. QED  BY <2>3 DEF GateInv, IndexInv, LiveRowIsCurrent
<1>. QED  BY <1>1

(* A receipt vouches for one version of a document that was left alone. *)
THEOREM ReceiptsAreOfOneVersion == GateSpec => []OneVersionPerDocument
<1>. QED  BY SnapshotIsOneVersion, GateInvariant, PTL
=============================================================================
