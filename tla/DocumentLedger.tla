--------------------------- MODULE DocumentLedger ---------------------------
(***************************************************************************)
(* What an index promises about one document, without tables: a document   *)
(* has a current version (its head), a set of fingerprints that stand for  *)
(* that version (live) and a grant.  Requirements 3 and 4 of               *)
(* provenex/index/base.py read at this level:                              *)
(*                                                                         *)
(*   - authorization is kept per document and can be toggled without       *)
(*     touching a fingerprint;                                             *)
(*   - when the head moves, everything live under the old head is retired  *)
(*     in the same step, so fingerprints of two versions are never live    *)
(*     together;                                                           *)
(*   - while the head stays, the live set only grows.                      *)
(*                                                                         *)
(* One step touches one document.                                          *)
(***************************************************************************)
CONSTANTS Fingerprint, Document, Version, NoVersion

VARIABLES head,     \* head[d]: current version of d, NoVersion before its first ingest
          live,     \* live[d]: fingerprints standing for head[d]
          granted   \* granted[d]: may d be retrieved

ledgerVars == <<head, live, granted>>

LedgerTypeOK ==
    /\ head    \in [Document -> Version \cup {NoVersion}]
    /\ live    \in [Document -> SUBSET Fingerprint]
    /\ granted \in [Document -> BOOLEAN]

Init ==
    /\ head    = [d \in Document |-> NoVersion]
    /\ live    = [d \in Document |-> {}]
    /\ granted = [d \in Document |-> FALSE]

(* The head moves to v: the new live set holds at most the fingerprint      *)
(* that came with the move.  It is empty when a retired (fingerprint,       *)
(* version) pair comes back, and when the move is a bare supersede().       *)
Move(d, v) ==
    /\ head[d] # v
    /\ head' = [head EXCEPT ![d] = v]
    /\ \E S \in {{}} \cup {{f} : f \in Fingerprint} : live' = [live EXCEPT ![d] = S]
    /\ \E b \in BOOLEAN : granted' = [granted EXCEPT ![d] = b]

(* One more fingerprint of the current version is recorded. *)
Extend(d, f) ==
    /\ head[d] # NoVersion
    /\ live' = [live EXCEPT ![d] = @ \cup {f}]
    /\ \E b \in BOOLEAN : granted' = [granted EXCEPT ![d] = b]
    /\ UNCHANGED head

Grant(d, b) ==
    /\ head[d] # NoVersion
    /\ granted' = [granted EXCEPT ![d] = b]
    /\ UNCHANGED <<head, live>>

Next == \E d \in Document :
    \/ \E v \in Version : Move(d, v)
    \/ \E f \in Fingerprint : Extend(d, f)
    \/ \E b \in BOOLEAN : Grant(d, b)

Spec == Init /\ [][Next]_ledgerVars
=============================================================================
