--------------------------- MODULE ProvenanceIndex ---------------------------
(***************************************************************************)
(* The provenance index: the tables `documents` and `fingerprints` and the *)
(* five operations of ProvenanceIndex (provenex/index/base.py), as         *)
(* SQLiteProvenanceIndex implements them under its RLock and               *)
(* PostgresProvenanceIndex inside one transaction under a per-document     *)
(* advisory lock.  Either way one call is one atomic step here.            *)
(*                                                                         *)
(* A row of `fingerprints` is named by its primary key (fingerprint,       *)
(* document, version).  Offsets, lengths and the HMAC itself are           *)
(* abstracted to one question, whether the stored signature still covers   *)
(* the stored columns: `tampered` holds the rows for which it does not.    *)
(* A row's ingested_at is computed by the caller before the lock is taken  *)
(* and by the wall clock of its own host, so it is an arbitrary value.     *)
(***************************************************************************)
EXTENDS Naturals, FiniteSets

CONSTANTS
    Fingerprint,    \* chunk fingerprints
    Document,       \* caller-chosen document ids
    Version,        \* document version hashes
    NoVersion,      \* "no row in documents"
    MaxTime,        \* bound: ingested_at values are 1..MaxTime
    MaxTampered     \* bound: rows altered outside the API

ASSUME IndexAssumption ==
    /\ NoVersion \notin Version
    /\ MaxTime \in Nat \ {0}
    /\ MaxTampered \in Nat

VARIABLES
    current,        \* documents.current_version, NoVersion when there is no row
    authorized,     \* documents.authorized (FALSE while there is no row)
    rows,           \* the rows of fingerprints, by primary key
    ingestedAt,     \* fingerprints.ingested_at, 0 when there is no such row
    superseded,     \* rows whose superseded column is 1
    tampered        \* rows whose signature no longer covers their columns

indexVars == <<current, authorized, rows, ingestedAt, superseded, tampered>>

Row  == [fp : Fingerprint, doc : Document, ver : Version]
Time == 1..MaxTime

(* The last conjunct is the FOREIGN KEY of the schema: the join of lookup() *)
(* with documents never hides a row.                                        *)
IndexTypeOK ==
    /\ current    \in [Document -> Version \cup {NoVersion}]
    /\ authorized \in [Document -> BOOLEAN]
    /\ rows       \in SUBSET Row
    /\ ingestedAt \in [Row -> {0} \cup Time]
    /\ superseded \in SUBSET rows
    /\ tampered   \in SUBSET rows
    /\ \A r \in rows : current[r.doc] # NoVersion

IndexInit ==
    /\ current    = [d \in Document |-> NoVersion]
    /\ authorized = [d \in Document |-> FALSE]
    /\ rows       = {}
    /\ ingestedAt = [r \in Row |-> 0]
    /\ superseded = {}
    /\ tampered   = {}

-----------------------------------------------------------------------------
(* Reading.                                                                *)

OutcomeKind == {"VERIFIED", "STALE", "UNAUTHORIZED", "UNVERIFIED", "TAMPERED"}

RowsOf(f) == {r \in rows : r.fp = f}

(* ORDER BY superseded ASC, ingested_at DESC LIMIT 1.  Every row has a      *)
(* document (IndexTypeOK), so the join drops none; rows that tie are        *)
(* returned in an order the query does not fix, hence a set of answers.     *)
LookupFreshest(f) ==
    {r \in RowsOf(f) : \A q \in RowsOf(f) : ingestedAt[q] <= ingestedAt[r]}

LookupRows(f) ==
    LET live == RowsOf(f) \ superseded
        pool == IF live # {} THEN live ELSE RowsOf(f)
    IN  {r \in pool : \A q \in pool : ingestedAt[q] <= ingestedAt[r]}

(* The order of the checks in verify(): signature, grant, supersession. *)
OutcomeStaleFirst(r) ==
    IF r \in tampered THEN "TAMPERED"
    ELSE IF r \in superseded THEN "STALE"
    ELSE IF ~authorized[r.doc] THEN "UNAUTHORIZED"
    ELSE "VERIFIED"

OutcomeOf(r) ==
    IF r \in tampered THEN "TAMPERED"
    ELSE IF ~authorized[r.doc] THEN "UNAUTHORIZED"
    ELSE IF r \in superseded THEN "STALE"
    ELSE "VERIFIED"

Outcomes(f) ==
    IF LookupRows(f) = {} THEN {"UNVERIFIED"} ELSE {OutcomeOf(r) : r \in LookupRows(f)}

-----------------------------------------------------------------------------
(* Writing.                                                                *)

(* The rows that UPDATE ... SET superseded = 1 WHERE document_id = d AND    *)
(* document_version != v marks.                                             *)
OtherVersionsAnyDocument(d, v) == {q \in rows : q.ver # v}
OtherVersionsNone(d, v)        == {}
OtherVersionsUnwritten(d, v)   == {q \in Row : q.doc = d /\ q.ver # v}

OtherVersions(d, v) == {q \in rows : q.doc = d /\ q.ver # v}

(* add(): the document row is created, moved to the new version, or only    *)
(* has its grant refreshed; then INSERT OR IGNORE keeps a row that is       *)
(* already there exactly as it was, its superseded flag included.           *)
Add(r, grant, at) ==
    /\ superseded' = IF current[r.doc] \in {NoVersion, r.ver}
                     THEN superseded
                     ELSE superseded \cup OtherVersions(r.doc, r.ver)
    /\ current'    = [current EXCEPT ![r.doc] = r.ver]
    /\ authorized' = [authorized EXCEPT ![r.doc] = grant]
    /\ rows'       = rows \cup {r}
    /\ ingestedAt' = IF r \in rows THEN ingestedAt ELSE [ingestedAt EXCEPT ![r] = at]
    /\ UNCHANGED tampered

(* set_authorization(): an UPDATE that matches no row for an unknown id. *)
SetAuthorization(d, grant) ==
    /\ current[d] # NoVersion
    /\ authorized' = [authorized EXCEPT ![d] = grant]
    /\ UNCHANGED <<current, rows, ingestedAt, superseded, tampered>>

(* supersede(): marks every other version, whether or not the new version   *)
(* has a row of its own, and moves current_version.                         *)
Supersede(d, v) ==
    /\ current[d] # NoVersion
    /\ superseded' = superseded \cup OtherVersions(d, v)
    /\ current'    = [current EXCEPT ![d] = v]
    /\ UNCHANGED <<authorized, rows, ingestedAt, tampered>>

(* A signed column of a stored row changes without going through the API    *)
(* (an operator's edit, a corrupted backup): docs/how_it_works.md.          *)
Tamper(r) ==
    /\ r \in rows \ tampered
    /\ Cardinality(tampered) < MaxTampered
    /\ tampered' = tampered \cup {r}
    /\ UNCHANGED <<current, authorized, rows, ingestedAt, superseded>>

IndexNext ==
    \/ \E r \in Row, grant \in BOOLEAN, at \in Time : Add(r, grant, at)
    \/ \E d \in Document, grant \in BOOLEAN : SetAuthorization(d, grant)
    \/ \E d \in Document, v \in Version : Supersede(d, v)
    \/ \E r \in Row : Tamper(r)

IndexSpec == IndexInit /\ [][IndexNext]_indexVars

-----------------------------------------------------------------------------
(* Properties.                                                             *)

(* Requirement 4 of index/base.py: a row that is not superseded belongs to  *)
(* the version its document points at.  It ties the flag, which sits on the *)
(* row, to current_version, which sits in the other table, through every    *)
(* order of add() and supersede().                                          *)
LiveRowIsCurrent ==
    \A r \in rows \ superseded : current[r.doc] = r.ver

(* VERIFIED means "document current and authorized" (index/base.py): when   *)
(* verify() can answer VERIFIED for a fingerprint, some untampered row of   *)
(* it belongs to the current version of an authorized document.             *)
VerifiedIsCurrent ==
    \A f \in Fingerprint :
        "VERIFIED" \in Outcomes(f) =>
            \E r \in rows \ tampered :
                /\ r.fp = f
                /\ authorized[r.doc]
                /\ current[r.doc] = r.ver

(* A fingerprint is reported STALE only if none of its rows is live: a      *)
(* passage an update keeps is judged by its new version (the Note of        *)
(* lookup() in index/base.py), whatever the clocks of the writers say.      *)
StaleHasNoLiveRow ==
    \A f \in Fingerprint :
        "STALE" \in Outcomes(f) =>
            \A r \in RowsOf(f) : r \in superseded

(* No call removes a row, re-stamps it, un-supersedes it or mends its       *)
(* signature: what a receipt or a Merkle leaf quoted stays what is stored.  *)
HistoryIsImmutable ==
    [][ /\ rows \subseteq rows'
        /\ \A r \in rows : ingestedAt'[r] = ingestedAt[r]
        /\ superseded \subseteq superseded'
        /\ tampered \subseteq tampered' ]_indexVars

(* What changed about the rows or the document of r in this step. *)
Touched(r) ==
    \/ r \notin rows
    \/ r \in tampered' \ tampered
    \/ authorized'[r.doc] # authorized[r.doc]
    \/ current'[r.doc] # current[r.doc]

(* The verdict on a fingerprint changes only when a document that holds it  *)
(* was written: ingesting, superseding or revoking one document never       *)
(* disturbs the chunks of another.                                          *)
VerdictIsLocal ==
    [][ \A f \in Fingerprint :
          Outcomes(f)' # Outcomes(f) => \E r \in rows' : r.fp = f /\ Touched(r) ]_indexVars

(* The tables implement the per-document ledger. *)
LiveFingerprints(d) == {r.fp : r \in {q \in rows \ superseded : q.doc = d}}

Ledger == INSTANCE DocumentLedger WITH
    head    <- current,
    live    <- [d \in Document |-> LiveFingerprints(d)],
    granted <- authorized

LedgerSpec == Ledger!Spec

-----------------------------------------------------------------------------
(* Statements of the documentation that the code does not meet; see the     *)
(* README for the runs that refute them.                                    *)

=============================================================================
