----------------------------- MODULE MerkleSqlite -----------------------------
(***************************************************************************)
(* MerkleSQLiteProvenanceIndex (provenex/index/merkle_sqlite_index.py):    *)
(* every new row of the index is also appended to the table merkle_leaves  *)
(* and to an in-memory Merkle tree.  One process, one connection; its      *)
(* RLock is held through the whole of add(), so one call is in progress at *)
(* a time, but the call commits twice, the row and then its leaf, and      *)
(* appends to the tree after that.  Either commit can fail (a full disk, a *)
(* busy file) and the process can die at any point.                        *)
(*                                                                         *)
(* The code never rolls back: after a failed commit the connection may     *)
(* still see its own changes, and the next commit that succeeds makes them *)
(* durable; or SQLite has rolled the transaction back itself.  The         *)
(* variables of ProvenanceIndex and `leaves` are what the connection sees; *)
(* `disk` is what was committed last.                                      *)
(*                                                                         *)
(* The bytes of a leaf are the canonical payload of its row, so the row    *)
(* names them (a row is never re-stamped); positions count from 1 here.    *)
(***************************************************************************)
EXTENDS ProvenanceIndex, MerkleTree

CONSTANTS
    NoCall,         \* no add() in progress
    MaxFailures     \* bound: commits that fail

ASSUME MerkleAssumption ==
    /\ NoCall \notin [row : Row, grant : BOOLEAN, existed : BOOLEAN,
                      at : {"base", "leaf", "tree"}]
    /\ MaxFailures \in Nat

VARIABLES
    leaves,         \* merkle_leaves in leaf_index order, as the connection sees it
    disk,           \* the committed tables
    tree,           \* _tree: the leaves appended in memory
    leafOf,         \* _leaf_index_by_fp, 0 when the fingerprint is not in it
    call,           \* the add() in progress and the statement it has reached
    failures        \* commits that failed so far

merkleVars == <<current, authorized, rows, ingestedAt, superseded, tampered,
                leaves, disk, tree, leafOf, call, failures>>

Call == [row : Row, grant : BOOLEAN, existed : BOOLEAN, at : {"base", "leaf", "tree"}]

Disk == [current : [Document -> Version \cup {NoVersion}], authorized : [Document -> BOOLEAN],
         rows : SUBSET Row, ingestedAt : [Row -> {0} \cup Time],
         superseded : SUBSET Row, leaves : Seq(Row)]

View == [current |-> current, authorized |-> authorized, rows |-> rows,
         ingestedAt |-> ingestedAt, superseded |-> superseded, leaves |-> leaves]

MerkleTypeOK ==
    /\ IndexTypeOK
    /\ leaves \in Seq(Row)
    /\ disk \in Disk
    /\ tree \in Seq(Row)
    /\ leafOf \in [Fingerprint -> 0..Len(tree)]
    /\ call \in Call \cup {NoCall}
    /\ failures \in 0..MaxFailures

MerkleInit ==
    /\ IndexInit
    /\ leaves = <<>>
    /\ disk = View
    /\ tree = <<>>
    /\ leafOf = [f \in Fingerprint |-> 0]
    /\ call = NoCall
    /\ failures = 0

-----------------------------------------------------------------------------
(* conn.commit(): what the connection sees becomes durable, or it raises    *)
(* and the changes stay pending.                                            *)

CommitWorks == disk' = View' /\ UNCHANGED failures

CommitRaises ==
    /\ failures < MaxFailures
    /\ failures' = failures + 1
    /\ UNCHANGED disk

-----------------------------------------------------------------------------
(* add().                                                                  *)

(* The lock is taken and the row looked up before the base class writes. *)
BeginAdd(r, grant) ==
    /\ call = NoCall
    /\ call' = [row |-> r, grant |-> grant, existed |-> r \in rows, at |-> "base"]
    /\ UNCHANGED <<current, authorized, rows, ingestedAt, superseded, tampered,
                   leaves, disk, tree, leafOf, failures>>

(* super().add(); a row that existed needs no leaf. *)
WriteRow(at) ==
    /\ call # NoCall
    /\ call.at = "base"
    /\ Add(call.row, call.grant, at)
    /\ UNCHANGED <<leaves, tree, leafOf>>
    /\ \/ CommitWorks /\ call' = IF call.existed THEN NoCall ELSE [call EXCEPT !.at = "leaf"]
       \/ CommitRaises /\ call' = NoCall

(* leaf_index is the size of the tree and the key of merkle_leaves: when a  *)
(* pending leaf has it already, the INSERT raises IntegrityError.           *)
WriteLeafTreeFirst ==
    /\ call # NoCall
    /\ call.at = "leaf"
    /\ Len(leaves) = Len(tree)
    /\ leaves' = Append(leaves, call.row)
    /\ tree' = Append(tree, call.row)
    /\ leafOf' = [leafOf EXCEPT ![call.row.fp] = Len(tree')]
    /\ call' = NoCall
    /\ UNCHANGED <<current, authorized, rows, ingestedAt, superseded, tampered>>
    /\ CommitWorks \/ CommitRaises

WriteLeaf ==
    /\ call # NoCall
    /\ call.at = "leaf"
    /\ Len(leaves) = Len(tree)
    /\ leaves' = Append(leaves, call.row)
    /\ UNCHANGED <<current, authorized, rows, ingestedAt, superseded, tampered, tree, leafOf>>
    /\ \/ CommitWorks /\ call' = [call EXCEPT !.at = "tree"]
       \/ CommitRaises /\ call' = NoCall

LeafReplaced ==
    /\ call # NoCall
    /\ call.at = "leaf"
    /\ Len(leaves) > Len(tree)
    /\ leaves' = [leaves EXCEPT ![Len(tree) + 1] = call.row]
    /\ call' = [call EXCEPT !.at = "tree"]
    /\ UNCHANGED <<current, authorized, rows, ingestedAt, superseded, tampered, tree, leafOf>>
    /\ CommitWorks

LeafKeyTaken ==
    /\ call # NoCall
    /\ call.at = "leaf"
    /\ Len(leaves) > Len(tree)
    /\ call' = NoCall
    /\ UNCHANGED <<current, authorized, rows, ingestedAt, superseded, tampered,
                   leaves, disk, tree, leafOf, failures>>

AppendTree ==
    /\ call # NoCall
    /\ call.at = "tree"
    /\ tree' = Append(tree, call.row)
    /\ leafOf' = [leafOf EXCEPT ![call.row.fp] = Len(tree')]
    /\ call' = NoCall
    /\ UNCHANGED <<current, authorized, rows, ingestedAt, superseded, tampered,
                   leaves, disk, failures>>

-----------------------------------------------------------------------------
(* The other writers commit as well, pending changes included. *)

SetAuthorizationCall(d, grant) ==
    /\ call = NoCall
    /\ SetAuthorization(d, grant)
    /\ UNCHANGED <<leaves, tree, leafOf, call>>
    /\ CommitWorks \/ CommitRaises

SupersedeCall(d, v) ==
    /\ call = NoCall
    /\ Supersede(d, v)
    /\ UNCHANGED <<leaves, tree, leafOf, call>>
    /\ CommitWorks \/ CommitRaises

(* A write or a commit raises and SQLite has rolled the transaction back:   *)
(* what earlier calls left pending is gone too.                             *)
RollsBack ==
    /\ failures < MaxFailures
    /\ failures' = failures + 1
    /\ ~(call # NoCall /\ call.at = "tree")
    /\ call' = NoCall
    /\ current' = disk.current /\ authorized' = disk.authorized
    /\ rows' = disk.rows /\ ingestedAt' = disk.ingestedAt /\ superseded' = disk.superseded
    /\ leaves' = disk.leaves
    /\ UNCHANGED <<tampered, disk, tree, leafOf>>

(* The process dies and a new one opens the file: pending changes are gone, *)
(* and _rebuild_tree_from_disk() replays the leaves.                        *)
LastLeafOf(log, f) == SelectLastInSeq(log, LAMBDA r : r.fp = f)
FirstLeafOf(log, f) == SelectInSeq(log, LAMBDA r : r.fp = f)

RestartFirstLeaf ==
    /\ current' = disk.current /\ authorized' = disk.authorized
    /\ rows' = disk.rows /\ ingestedAt' = disk.ingestedAt /\ superseded' = disk.superseded
    /\ leaves' = disk.leaves
    /\ tree' = disk.leaves
    /\ leafOf' = [f \in Fingerprint |-> FirstLeafOf(disk.leaves, f)]
    /\ call' = NoCall
    /\ UNCHANGED <<tampered, disk, failures>>

Restart ==
    /\ current' = disk.current /\ authorized' = disk.authorized
    /\ rows' = disk.rows /\ ingestedAt' = disk.ingestedAt /\ superseded' = disk.superseded
    /\ leaves' = disk.leaves
    /\ tree' = disk.leaves
    /\ leafOf' = [f \in Fingerprint |-> LastLeafOf(disk.leaves, f)]
    /\ call' = NoCall
    /\ UNCHANGED <<tampered, disk, failures>>

MerkleNext ==
    \/ \E r \in Row, grant \in BOOLEAN : BeginAdd(r, grant)
    \/ \E at \in Time : WriteRow(at)
    \/ WriteLeaf
    \/ LeafKeyTaken
    \/ AppendTree
    \/ \E d \in Document, grant \in BOOLEAN : SetAuthorizationCall(d, grant)
    \/ \E d \in Document, v \in Version : SupersedeCall(d, v)
    \/ RollsBack
    \/ Restart

MerkleSpec == MerkleInit /\ [][MerkleNext]_merkleVars

-----------------------------------------------------------------------------
(* Properties.                                                             *)

(* Whatever is retried after a failure, no row is logged twice and none is  *)
(* logged that the index does not hold.                                     *)
LogListsRows ==
    /\ IsInjective(disk.leaves)
    /\ ToSet(disk.leaves) \subseteq disk.rows

(* The committed log lists committed rows, and the tree whose root was      *)
(* handed out is a prefix of it at every moment: no failed commit and no    *)
(* crash can take a published leaf back or put another one in its place.    *)
PublishedTreeIsDurable == LogListsRows /\ IsPrefix(tree, disk.leaves)

(* inclusion_proof() combines a position from the dictionary, the bytes     *)
(* from the table and a path from the tree; it is checked against           *)
(* tree_root().  A position the tree does not have raises IndexError.       *)
ProofOf(f) == [leaf |-> leaves[leafOf[f]], index |-> leafOf[f] - 1,
               path |-> AuditPath(tree, leafOf[f] - 1)]

(* After any failures and restarts the proof of a fingerprint is about its  *)
(* most recent published leaf, and it verifies.                             *)
ProofVerifies ==
    \A f \in Fingerprint :
        /\ leafOf[f] = LastLeafOf(tree, f)
        /\ leafOf[f] # 0 =>
             LET p == ProofOf(f)
             IN  VerifyInclusion(p.leaf, p.index, Len(tree), p.path, TreeRoot(tree))

(* An auditor who holds a published root cannot be shown a path that puts   *)
(* another row, or the same row somewhere else, in the log: whatever the    *)
(* log has grown to, its paths verify for their own leaf only.              *)
ProofIsExact == AuditPathIsExact(tree)

(* The committed table and the tree implement an append-only log: whatever *)
(* fails, a commit adds at most one leaf, a new one, and the tree only ever *)
(* becomes the committed log, so that every root handed out is extended by  *)
(* all later ones.                                                          *)
Log == INSTANCE TransparencyLog WITH
    Leaf      <- Row,
    log       <- disk.leaves,
    published <- tree

LogSpec == Log!Spec

-----------------------------------------------------------------------------
=============================================================================
