----------------------- MODULE ProvenanceIndexProofs -----------------------
(***************************************************************************)
(* Proofs about the index tables, for every set of fingerprints, documents *)
(* and versions and every bound.                                           *)
(*                                                                         *)
(* LiveRowIsCurrent is inductive together with the type invariant; it says *)
(* that the flag on the rows and the pointer in the documents agree.  The  *)
(* meaning of a VERIFIED verdict, the locality of verdicts and the         *)
(* implementation of the ledger all rest on that agreement.                *)
(***************************************************************************)
EXTENDS ProvenanceIndex, FiniteSetTheorems, TLAPS

IndexInv == IndexTypeOK /\ LiveRowIsCurrent

-----------------------------------------------------------------------------
(* One lemma per operation.                                                *)

LEMMA AddPreserves ==
  ASSUME IndexInv, NEW r \in Row, NEW grant \in BOOLEAN, NEW at \in Time,
         Add(r, grant, at)
  PROVE  IndexInv'
<1>. USE DEF IndexInv
<1>1. r.doc \in Document /\ r.ver \in Version
  BY DEF Row
<1>2. IndexTypeOK'
  <2>1. /\ current' \in [Document -> Version \cup {NoVersion}]
        /\ authorized' \in [Document -> BOOLEAN]
        /\ rows' \in SUBSET Row
        /\ ingestedAt' \in [Row -> {0} \cup Time]
    BY <1>1 DEF Add, IndexTypeOK
  <2>2. superseded' \in SUBSET rows' /\ tampered' \in SUBSET rows'
    BY DEF Add, OtherVersions, IndexTypeOK
  <2>3. \A q \in rows' : current'[q.doc] # NoVersion
    BY <1>1, IndexAssumption DEF Add, IndexTypeOK, Row
  <2>. QED  BY <2>1, <2>2, <2>3 DEF IndexTypeOK
<1>3. LiveRowIsCurrent'
  <2>. SUFFICES ASSUME NEW q \in rows' \ superseded'
                PROVE  current'[q.doc] = q.ver
    BY DEF LiveRowIsCurrent
  <2>. q \in Row /\ q.doc \in Document
    BY DEF Add, IndexTypeOK, Row
  <2>1. CASE q = r
    BY <2>1, <1>1 DEF Add, IndexTypeOK
  <2>2. CASE q # r /\ q.doc # r.doc
    BY <2>2 DEF Add, IndexTypeOK, LiveRowIsCurrent
  <2>3. CASE q # r /\ q.doc = r.doc
    <3>1. q \in rows \ superseded
      BY <2>3 DEF Add
    <3>2. current[r.doc] = q.ver
      BY <2>3, <3>1 DEF LiveRowIsCurrent
    <3>3. current[r.doc] # NoVersion
      BY <2>3, <3>1 DEF IndexTypeOK
    <3>4. current'[r.doc] = r.ver
      BY <1>1 DEF Add, IndexTypeOK
    <3>5. q.ver = r.ver
      BY <2>3, <3>1, <3>2, <3>3 DEF Add, OtherVersions
    <3>. QED  BY <2>3, <3>4, <3>5
  <2>. QED  BY <2>1, <2>2, <2>3
<1>. QED  BY <1>2, <1>3

LEMMA SetAuthorizationPreserves ==
  ASSUME IndexInv, NEW d \in Document, NEW grant \in BOOLEAN,
         SetAuthorization(d, grant)
  PROVE  IndexInv'
BY DEF IndexInv, IndexTypeOK, LiveRowIsCurrent, SetAuthorization

LEMMA SupersedePreserves ==
  ASSUME IndexInv, NEW d \in Document, NEW v \in Version, Supersede(d, v)
  PROVE  IndexInv'
<1>. USE DEF IndexInv
<1>1. IndexTypeOK'
  BY IndexAssumption DEF Supersede, OtherVersions, IndexTypeOK, Row
<1>2. LiveRowIsCurrent'
  BY DEF Supersede, OtherVersions, IndexTypeOK, LiveRowIsCurrent, Row
<1>. QED  BY <1>1, <1>2

LEMMA TamperPreserves ==
  ASSUME IndexInv, NEW r \in Row, Tamper(r)
  PROVE  IndexInv'
BY DEF IndexInv, IndexTypeOK, LiveRowIsCurrent, Tamper

LEMMA NextPreserves == IndexInv /\ [IndexNext]_indexVars => IndexInv'
<1>. SUFFICES ASSUME IndexInv, [IndexNext]_indexVars PROVE IndexInv'
  OBVIOUS
<1>1. ASSUME NEW r \in Row, NEW grant \in BOOLEAN, NEW at \in Time, Add(r, grant, at)
      PROVE  IndexInv'
  BY <1>1, AddPreserves
<1>2. ASSUME NEW d \in Document, NEW grant \in BOOLEAN, SetAuthorization(d, grant)
      PROVE  IndexInv'
  BY <1>2, SetAuthorizationPreserves
<1>3. ASSUME NEW d \in Document, NEW v \in Version, Supersede(d, v)
      PROVE  IndexInv'
  BY <1>3, SupersedePreserves
<1>4. ASSUME NEW r \in Row, Tamper(r)
      PROVE  IndexInv'
  BY <1>4, TamperPreserves
<1>5. CASE UNCHANGED indexVars
  BY <1>5 DEF indexVars, IndexInv, IndexTypeOK, LiveRowIsCurrent
<1>. QED  BY <1>1, <1>2, <1>3, <1>4, <1>5 DEF IndexNext

LEMMA InitEstablishes == IndexInit => IndexInv
BY DEF IndexInit, IndexInv, IndexTypeOK, LiveRowIsCurrent

(* Type correctness of the tables, the foreign key included, and the        *)
(* agreement of the superseded flag with documents.current_version.         *)
THEOREM IndexInvariant == IndexSpec => []IndexInv
<1>. QED  BY InitEstablishes, NextPreserves, PTL DEF IndexSpec

(* The tables keep their types. *)
THEOREM TypeCorrect == IndexSpec => []IndexTypeOK
<1>1. IndexInv => IndexTypeOK
  BY DEF IndexInv
<1>. QED  BY <1>1, IndexInvariant, PTL

(* Requirement 4 of index/base.py: no row of a version that is no longer    *)
(* current is left live, whatever the order of the calls.                   *)
THEOREM LiveRowsAreCurrent == IndexSpec => []LiveRowIsCurrent
<1>1. IndexInv => LiveRowIsCurrent
  BY DEF IndexInv
<1>. QED  BY <1>1, IndexInvariant, PTL

-----------------------------------------------------------------------------
(* What a verdict means.                                                   *)

LEMMA VerifiedMeansCurrent == IndexInv => VerifiedIsCurrent
<1>. SUFFICES ASSUME IndexInv, NEW f \in Fingerprint, "VERIFIED" \in Outcomes(f)
              PROVE  \E r \in rows \ tampered :
                        r.fp = f /\ authorized[r.doc] /\ current[r.doc] = r.ver
  BY DEF VerifiedIsCurrent
<1>1. PICK r \in LookupRows(f) : OutcomeOf(r) = "VERIFIED"
  BY DEF Outcomes
<1>2. r \in rows /\ r.fp = f
  BY <1>1 DEF LookupRows, RowsOf
<1>3. r \notin tampered /\ authorized[r.doc] /\ r \notin superseded
  BY <1>1 DEF OutcomeOf
<1>. QED  BY <1>2, <1>3 DEF IndexInv, LiveRowIsCurrent

(* verify() answers VERIFIED only on an untampered row of the current       *)
(* version of an authorized document.                                       *)
THEOREM VerifiedIsSound == IndexSpec => []VerifiedIsCurrent
<1>. QED  BY VerifiedMeansCurrent, IndexInvariant, PTL

LEMMA StaleMeansRetired == IndexInv => StaleHasNoLiveRow
<1>. SUFFICES ASSUME NEW f \in Fingerprint, "STALE" \in Outcomes(f)
              PROVE  \A r \in RowsOf(f) : r \in superseded
  BY DEF StaleHasNoLiveRow
<1>1. PICK r \in LookupRows(f) : OutcomeOf(r) = "STALE"
  BY DEF Outcomes
<1>2. r \in superseded
  BY <1>1 DEF OutcomeOf
<1>. QED  BY <1>1, <1>2 DEF LookupRows

(* A passage that some current version still contains is never STALE. *)
THEOREM StaleIsSound == IndexSpec => []StaleHasNoLiveRow
<1>. QED  BY StaleMeansRetired, IndexInvariant, PTL

(* A bounded set of times has a latest one: the family of the sets of later *)
(* times has a minimal member.                                              *)
LEMMA LatestExists ==
  ASSUME NEW T \in SUBSET Nat, T # {}, NEW n \in Nat, \A t \in T : t <= n
  PROVE  \E m \in T : \A t \in T : t <= m
<1>. DEFINE later(t) == {u \in T : t < u}
            family   == {later(t) : t \in T}
<1>1. IsFiniteSet(T)
  BY FS_BoundedSetOfNaturals
<1>2. family \subseteq FiniteSubsetsOf(T)
  <2>1. \A t \in T : later(t) \in SUBSET T /\ IsFiniteSet(later(t))
    BY <1>1, FS_Subset
  <2>. QED  BY <2>1 DEF FiniteSubsetsOf
<1>3. PICK S \in family : \A R \in family : ~(<<R, S>> \in StrictSubsetOrdering(T))
  <2>. HIDE DEF family
  <2>1. family # {}
    BY DEF family
  <2>. QED  BY <1>2, <2>1, WFMin, FS_StrictSubsetOrderingWellFounded
<1>4. PICK m \in T : S = later(m)
  BY <1>3
<1>5. ASSUME NEW t \in T, m < t PROVE FALSE
  <2>0. /\ m \in Nat /\ t \in Nat
        /\ \A u \in T : u \in Nat
    OBVIOUS
  <2>. HIDE DEF family
  <2>1. /\ \A u \in later(t) : u \in later(m)
        /\ t \in later(m)
        /\ t \notin later(t)
    <3>1. \A u \in T : t < u => m < u
      BY <1>5, <2>0
    <3>2. ~(t < t)
      BY <2>0
    <3>. QED  BY <1>5, <3>1, <3>2
  <2>2. <<later(t), later(m)>> \in StrictSubsetOrdering(T)
    BY <2>1 DEF StrictSubsetOrdering
  <2>3. later(t) \in family
    BY DEF family
  <2>. QED  BY <1>3, <1>4, <2>2, <2>3
<1>. QED  BY <1>5

(* lookup() finds an entry for every fingerprint that has a row. *)
LEMMA LookupFinds ==
  ASSUME IndexInv, NEW f \in Fingerprint, RowsOf(f) # {}
  PROVE  LookupRows(f) # {}
<1>. DEFINE pool  == IF RowsOf(f) \ superseded # {} THEN RowsOf(f) \ superseded ELSE RowsOf(f)
            times == {ingestedAt[r] : r \in pool}
<1>1. /\ pool # {} /\ pool \subseteq rows
      /\ \A r \in pool : ingestedAt[r] \in Nat /\ ingestedAt[r] <= MaxTime
  BY IndexAssumption DEF RowsOf, IndexInv, IndexTypeOK, Time
<1>. HIDE DEF pool
<1>2. times \in SUBSET Nat /\ times # {} /\ \A t \in times : t <= MaxTime
  BY <1>1
<1>3. PICK m \in times : \A t \in times : t <= m
  <2>. HIDE DEF times
  <2>. QED  BY <1>2, LatestExists, IndexAssumption
<1>4. PICK r \in pool : m = ingestedAt[r]
  BY <1>3
<1>5. \A q \in pool : ingestedAt[q] <= ingestedAt[r]
  BY <1>3, <1>4
<1>. QED  BY <1>4, <1>5 DEF LookupRows, pool

-----------------------------------------------------------------------------
(* What a call may never do.                                               *)

HistoryStep ==
    /\ rows \subseteq rows'
    /\ \A r \in rows : ingestedAt'[r] = ingestedAt[r]
    /\ superseded \subseteq superseded'
    /\ tampered \subseteq tampered'

LEMMA StepKeepsHistory == IndexInv /\ [IndexNext]_indexVars => [HistoryStep]_indexVars
<1>. SUFFICES ASSUME IndexInv, IndexNext PROVE HistoryStep
  OBVIOUS
<1>1. ASSUME NEW r \in Row, NEW grant \in BOOLEAN, NEW at \in Time, Add(r, grant, at)
      PROVE  HistoryStep
  BY <1>1 DEF IndexInv, IndexTypeOK, Add, HistoryStep
<1>2. ASSUME NEW d \in Document, NEW grant \in BOOLEAN, SetAuthorization(d, grant)
      PROVE  HistoryStep
  BY <1>2 DEF SetAuthorization, HistoryStep
<1>3. ASSUME NEW d \in Document, NEW v \in Version, Supersede(d, v)
      PROVE  HistoryStep
  BY <1>3 DEF Supersede, HistoryStep
<1>4. ASSUME NEW r \in Row, Tamper(r)
      PROVE  HistoryStep
  BY <1>4 DEF Tamper, HistoryStep
<1>. QED  BY <1>1, <1>2, <1>3, <1>4 DEF IndexNext

(* Rows are never deleted, re-stamped, revived or mended by a call. *)
THEOREM HistoryImmutable == IndexSpec => HistoryIsImmutable
<1>1. IndexInv /\ [IndexNext]_indexVars => [HistoryStep]_indexVars
  BY StepKeepsHistory
<1>. QED  BY <1>1, IndexInvariant, PTL DEF IndexSpec, HistoryIsImmutable, HistoryStep

-----------------------------------------------------------------------------
(* Verdicts are local to the documents that hold the fingerprint.          *)

(* Outcomes(f) reads nothing but the rows of f and the grants of their     *)
(* documents.                                                              *)
LEMMA OutcomesFrame ==
  ASSUME NEW f \in Fingerprint,
         RowsOf(f)' = RowsOf(f),
         \A r \in RowsOf(f) : /\ ingestedAt'[r] = ingestedAt[r]
                              /\ r \in superseded' <=> r \in superseded
                              /\ r \in tampered' <=> r \in tampered
                              /\ authorized'[r.doc] = authorized[r.doc]
  PROVE  Outcomes(f)' = Outcomes(f)
<1>1. (RowsOf(f) \ superseded)' = RowsOf(f) \ superseded
  OBVIOUS
<1>2. LookupRows(f)' = LookupRows(f)
  BY <1>1 DEF LookupRows
<1>3. LookupRows(f) \subseteq RowsOf(f)
  BY DEF LookupRows
<1>4. ASSUME NEW r \in LookupRows(f) PROVE OutcomeOf(r)' = OutcomeOf(r)
  BY <1>3 DEF OutcomeOf
<1>. QED  BY <1>2, <1>4 DEF Outcomes

(* In every step a row that was there and was not touched keeps its flag:  *)
(* it is marked only when its document moves away from its version.        *)
LEMMA UntouchedKeepsFlag ==
  ASSUME IndexInv, IndexNext, NEW r \in rows, current'[r.doc] = current[r.doc]
  PROVE  r \in superseded' <=> r \in superseded
<1>. USE DEF IndexInv
<1>0. r \in Row /\ r.doc \in Document
  BY DEF IndexTypeOK, Row
<1>1. ASSUME NEW q \in Row, NEW grant \in BOOLEAN, NEW at \in Time, Add(q, grant, at)
      PROVE  r \in superseded' <=> r \in superseded
  <2>1. CASE q.doc = r.doc
    BY <1>0, <1>1, <2>1 DEF Add, IndexTypeOK
  <2>2. CASE q.doc # r.doc
    BY <1>1, <2>2 DEF Add, OtherVersions
  <2>. QED  BY <2>1, <2>2
<1>2. ASSUME NEW d \in Document, NEW v \in Version, Supersede(d, v)
      PROVE  r \in superseded' <=> r \in superseded
  <2>1. CASE d = r.doc
    <3>1. current[d] = v
      BY <1>0, <1>2, <2>1 DEF Supersede, IndexTypeOK
    <3>. QED  BY <1>2, <2>1, <3>1 DEF Supersede, OtherVersions, LiveRowIsCurrent
  <2>2. CASE d # r.doc
    BY <1>2, <2>2 DEF Supersede, OtherVersions
  <2>. QED  BY <2>1, <2>2
<1>3. ASSUME NEW d \in Document, NEW grant \in BOOLEAN, SetAuthorization(d, grant)
      PROVE  r \in superseded' <=> r \in superseded
  BY <1>3 DEF SetAuthorization
<1>4. ASSUME NEW q \in Row, Tamper(q)
      PROVE  r \in superseded' <=> r \in superseded
  BY <1>4 DEF Tamper
<1>. QED  BY <1>1, <1>2, <1>3, <1>4 DEF IndexNext

VerdictStep ==
    \A f \in Fingerprint :
        Outcomes(f)' # Outcomes(f) => \E r \in rows' : r.fp = f /\ Touched(r)

LEMMA StepIsLocal == IndexInv /\ [IndexNext]_indexVars => [VerdictStep]_indexVars
<1>. SUFFICES ASSUME IndexInv, IndexNext, NEW f \in Fingerprint,
                     \A r \in rows' : r.fp = f => ~Touched(r)
              PROVE  Outcomes(f)' = Outcomes(f)
  BY DEF VerdictStep
<1>1. HistoryStep
  BY StepKeepsHistory DEF HistoryStep, indexVars
<1>2. RowsOf(f)' = RowsOf(f)
  BY <1>1 DEF RowsOf, HistoryStep, Touched
<1>3. ASSUME NEW r \in RowsOf(f)
      PROVE  /\ ingestedAt'[r] = ingestedAt[r]
             /\ r \in superseded' <=> r \in superseded
             /\ r \in tampered' <=> r \in tampered
             /\ authorized'[r.doc] = authorized[r.doc]
  <2>1. r \in rows /\ r \in rows' /\ ~Touched(r)
    BY <1>1 DEF RowsOf, HistoryStep
  <2>2. r \in superseded' <=> r \in superseded
    BY <2>1, UntouchedKeepsFlag DEF Touched
  <2>. QED  BY <1>1, <2>1, <2>2 DEF HistoryStep, Touched
<1>. QED  BY <1>2, <1>3, OutcomesFrame

(* Writing, superseding or revoking one document changes the verdict only   *)
(* on fingerprints that document holds.                                     *)
THEOREM VerdictLocality == IndexSpec => VerdictIsLocal
<1>1. IndexInv /\ [IndexNext]_indexVars => [VerdictStep]_indexVars
  BY StepIsLocal
<1>. QED  BY <1>1, IndexInvariant, PTL DEF IndexSpec, VerdictIsLocal, VerdictStep

-----------------------------------------------------------------------------
(* The tables implement the ledger of DocumentLedger.                      *)

LedgerLive == [d \in Document |-> LiveFingerprints(d)]

(* The live set of a document that no row of this step belongs to. *)
LEMMA LiveFrame ==
  ASSUME NEW d \in Document,
         \A q : q.doc = d =>
              (q \in rows' \ superseded' <=> q \in rows \ superseded)
  PROVE  LiveFingerprints(d)' = LiveFingerprints(d)
BY DEF LiveFingerprints

LEMMA AddImplementsLedger ==
  ASSUME IndexInv, NEW r \in Row, NEW grant \in BOOLEAN, NEW at \in Time,
         Add(r, grant, at)
  PROVE  Ledger!Next
<1>. DEFINE d == r.doc
            v == r.ver
            f == r.fp
<1>. USE DEF IndexInv
<1>1. d \in Document /\ v \in Version /\ f \in Fingerprint
  BY DEF Row
<1>2. ASSUME NEW e \in Document, e # d
      PROVE  LiveFingerprints(e)' = LiveFingerprints(e)
  BY <1>2 DEF LiveFingerprints, Add, OtherVersions
<1>3. /\ current' = [current EXCEPT ![d] = v]
      /\ authorized' = [authorized EXCEPT ![d] = grant]
      /\ current[d] = v => current' = current
  BY <1>1 DEF Add, IndexTypeOK
<1>4. CASE current[d] = v /\ r \in superseded
  <2>1. LiveFingerprints(d)' = LiveFingerprints(d)
    BY <1>4 DEF LiveFingerprints, Add, IndexTypeOK
  <2>2. LedgerLive' = LedgerLive
    BY <1>2, <2>1 DEF LedgerLive
  <2>3. Ledger!Grant(d, grant)
    BY <1>1, <1>3, <1>4, <2>2, IndexAssumption DEF Ledger!Grant, LedgerLive
  <2>. QED  BY <1>1, <2>3 DEF Ledger!Next
<1>5. CASE current[d] = v /\ r \notin superseded
  <2>1. LiveFingerprints(d)' = LiveFingerprints(d) \cup {f}
    BY <1>5 DEF LiveFingerprints, Add
  <2>2. LedgerLive' = [LedgerLive EXCEPT ![d] = @ \cup {f}]
    BY <1>1, <1>2, <2>1 DEF LedgerLive
  <2>3. Ledger!Extend(d, f)
    BY <1>1, <1>3, <1>5, <2>2, IndexAssumption DEF Ledger!Extend, LedgerLive
  <2>. QED  BY <1>1, <2>3 DEF Ledger!Next
<1>6. CASE current[d] # v
  <2>1. ASSUME NEW q \in rows' \ superseded', q.doc = d
        PROVE  q = r
    <3>1. CASE current[d] = NoVersion
      BY <2>1, <3>1 DEF Add, IndexTypeOK
    <3>2. CASE current[d] # NoVersion
      <4>1. superseded' = superseded \cup OtherVersions(d, v)
        BY <1>6, <3>2 DEF Add
      <4>2. ASSUME q \in rows PROVE FALSE
        BY <1>6, <2>1, <4>1, <4>2 DEF OtherVersions, LiveRowIsCurrent
      <4>. QED  BY <2>1, <4>2 DEF Add
    <3>. QED  BY <3>1, <3>2
  <2>2. PICK S \in {{}} \cup {{g} : g \in Fingerprint} : LiveFingerprints(d)' = S
    <3>1. CASE r \in superseded'
      <4>1. LiveFingerprints(d)' = {}
        BY <2>1, <3>1 DEF LiveFingerprints
      <4>. QED  BY <4>1
    <3>2. CASE r \notin superseded'
      <4>1. LiveFingerprints(d)' = {f}
        BY <2>1, <3>2 DEF LiveFingerprints, Add
      <4>. QED  BY <1>1, <4>1
    <3>. QED  BY <3>1, <3>2
  <2>3. LedgerLive' = [LedgerLive EXCEPT ![d] = S]
    BY <1>1, <1>2, <2>2 DEF LedgerLive
  <2>4. Ledger!Move(d, v)
    BY <1>1, <1>3, <1>6, <2>3 DEF Ledger!Move, LedgerLive
  <2>. QED  BY <1>1, <2>4 DEF Ledger!Next
<1>. QED  BY <1>4, <1>5, <1>6

LEMMA SupersedeImplementsLedger ==
  ASSUME IndexInv, NEW d \in Document, NEW v \in Version, Supersede(d, v)
  PROVE  Ledger!Next \/ UNCHANGED Ledger!ledgerVars
<1>. USE DEF IndexInv
<1>1. ASSUME NEW e \in Document, e # d
      PROVE  LiveFingerprints(e)' = LiveFingerprints(e)
  BY <1>1 DEF LiveFingerprints, Supersede, OtherVersions
<1>2. CASE current[d] = v
  <2>1. superseded' = superseded /\ current' = current
    BY <1>2 DEF Supersede, OtherVersions, IndexTypeOK, LiveRowIsCurrent
  <2>2. LedgerLive' = LedgerLive
    BY <2>1 DEF LedgerLive, LiveFingerprints, Supersede
  <2>. QED  BY <2>1, <2>2 DEF Ledger!ledgerVars, LedgerLive, Supersede
<1>3. CASE current[d] # v
  <2>1. LiveFingerprints(d)' = {}
    BY <1>3 DEF LiveFingerprints, Supersede, OtherVersions, LiveRowIsCurrent
  <2>2. LedgerLive' = [LedgerLive EXCEPT ![d] = {}]
    BY <1>1, <2>1 DEF LedgerLive
  <2>3. authorized' = [authorized EXCEPT ![d] = authorized[d]] /\ authorized[d] \in BOOLEAN
    BY DEF Supersede, IndexTypeOK
  <2>4. Ledger!Move(d, v)
    BY <1>3, <2>2, <2>3 DEF Ledger!Move, LedgerLive, Supersede
  <2>. QED  BY <2>4 DEF Ledger!Next
<1>. QED  BY <1>2, <1>3

LEMMA StepImplementsLedger ==
  IndexInv /\ [IndexNext]_indexVars => [Ledger!Next]_(Ledger!ledgerVars)
<1>. SUFFICES ASSUME IndexInv, [IndexNext]_indexVars
              PROVE  [Ledger!Next]_(Ledger!ledgerVars)
  OBVIOUS
<1>1. ASSUME NEW r \in Row, NEW grant \in BOOLEAN, NEW at \in Time, Add(r, grant, at)
      PROVE  Ledger!Next
  BY <1>1, AddImplementsLedger
<1>2. ASSUME NEW d \in Document, NEW grant \in BOOLEAN, SetAuthorization(d, grant)
      PROVE  Ledger!Next
  <2>1. LedgerLive' = LedgerLive
    BY <1>2 DEF LedgerLive, LiveFingerprints, SetAuthorization
  <2>2. Ledger!Grant(d, grant)
    BY <1>2, <2>1 DEF Ledger!Grant, LedgerLive, SetAuthorization
  <2>. QED  BY <2>2 DEF Ledger!Next
<1>3. ASSUME NEW d \in Document, NEW v \in Version, Supersede(d, v)
      PROVE  [Ledger!Next]_(Ledger!ledgerVars)
  BY <1>3, SupersedeImplementsLedger
<1>4. ASSUME NEW r \in Row, Tamper(r)
      PROVE  UNCHANGED Ledger!ledgerVars
  <2>1. LedgerLive' = LedgerLive
    BY <1>4 DEF LedgerLive, LiveFingerprints, Tamper
  <2>. QED  BY <1>4, <2>1 DEF Ledger!ledgerVars, LedgerLive, Tamper
<1>5. CASE UNCHANGED indexVars
  <2>1. LedgerLive' = LedgerLive
    BY <1>5 DEF LedgerLive, LiveFingerprints, indexVars
  <2>. QED  BY <1>5, <2>1 DEF Ledger!ledgerVars, LedgerLive, indexVars
<1>. QED  BY <1>1, <1>2, <1>3, <1>4, <1>5 DEF IndexNext

LEMMA InitImplementsLedger == IndexInit => Ledger!Init
BY DEF IndexInit, Ledger!Init, LiveFingerprints

(* The index implements the per-document ledger: a document's head moves    *)
(* and its old fingerprints retire in one step, and under one head the live *)
(* set only grows.                                                          *)
THEOREM ImplementsLedger == IndexSpec => LedgerSpec
<1>. QED  BY InitImplementsLedger, StepImplementsLedger, IndexInvariant, PTL
          DEF IndexSpec, LedgerSpec, Ledger!Spec
=============================================================================
