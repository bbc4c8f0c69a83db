-------------------------- MODULE MerkleSqliteProofs --------------------------
(***************************************************************************)
(* Proofs about the SQLite transparency log, for any rows, any number of   *)
(* failed commits, rollbacks and restarts, and a log of any length.        *)
(*                                                                         *)
(* The properties speak of the committed log and of the tree; what makes   *)
(* them inductive is what lies between: the leaves the connection sees     *)
(* extend the committed ones, which extend the tree, by one leaf at most,  *)
(* and a call that is about to log its row knows that nothing logged it    *)
(* before.  The committed tables have to be as good as the visible ones,   *)
(* since a rollback or a restart goes back to them.                        *)
(***************************************************************************)
EXTENDS MerkleSqlite, ProvenanceIndexProofs, MerkleTreeProofs

Begins(s, t) == Len(s) <= Len(t) /\ \A i \in 1..Len(s) : t[i] = s[i]

(* What IndexInv says of the visible tables holds of the committed ones. *)
DiskIsSound ==
    /\ disk \in Disk
    /\ disk.superseded \subseteq disk.rows
    /\ \A r \in disk.rows : disk.current[r.doc] # NoVersion
    /\ \A r \in disk.rows \ disk.superseded : disk.current[r.doc] = r.ver
    /\ \A i \in 1..Len(disk.leaves) : disk.leaves[i] \in disk.rows

LeavesAgree ==
    /\ leaves \in Seq(Row) /\ tree \in Seq(Row)
    /\ Begins(tree, disk.leaves)
    /\ Begins(disk.leaves, leaves)
    /\ Len(leaves) <= Len(tree) + 1
    /\ \A i \in 1..Len(leaves) : leaves[i] \in rows
    /\ \A i, j \in 1..Len(leaves) : leaves[i] = leaves[j] => i = j

CallIsBacked ==
    /\ call \in Call \cup {NoCall}
    /\ call # NoCall =>
           /\ call.at = "base" /\ ~call.existed => call.row \notin rows
           /\ call.at = "leaf" => /\ call.row \in rows
                                  /\ \A i \in 1..Len(leaves) : leaves[i] # call.row
           /\ call.at = "tree" => /\ Len(leaves) = Len(tree) + 1
                                  /\ Len(disk.leaves) = Len(tree) + 1
                                  /\ leaves[Len(tree) + 1] = call.row

DictionaryIsLast ==
    /\ leafOf \in [Fingerprint -> Nat]
    /\ \A f \in Fingerprint : leafOf[f] = LastLeafOf(tree, f)

SqliteInv ==
    /\ IndexInv /\ tampered = {}
    /\ DiskIsSound
    /\ LeavesAgree
    /\ CallIsBacked
    /\ DictionaryIsLast
    /\ failures \in 0..MaxFailures

-----------------------------------------------------------------------------
(* Helpers.                                                                *)

LEMMA PrefixBegins ==
  ASSUME NEW S, NEW s \in Seq(S), NEW t \in Seq(S)
  PROVE  IsPrefix(s, t) <=> Begins(s, t)
<1>1. Len(s) \in Nat /\ Len(t) \in Nat
  OBVIOUS
<1>2. ASSUME Len(s) <= Len(t)
      PROVE  SubSeq(s, 1, Len(s)) = SubSeq(t, 1, Len(s)) <=> \A i \in 1..Len(s) : t[i] = s[i]
  <2>1. SubSeq(s, 1, Len(s)) \in Seq(S) /\ SubSeq(t, 1, Len(s)) \in Seq(S)
        /\ Len(SubSeq(s, 1, Len(s))) = Len(s) /\ Len(SubSeq(t, 1, Len(s))) = Len(s)
    BY <1>2
  <2>2. \A i \in 1..Len(s) : SubSeq(s, 1, Len(s))[i] = s[i] /\ SubSeq(t, 1, Len(s))[i] = t[i]
    BY <1>2
  <2>. QED  BY <2>1, <2>2, SeqEqual
<1>. QED  BY <1>1, <1>2 DEF IsPrefix, Begins

LEMMA LastLeafIsIn ==
  ASSUME NEW s \in Seq(Row), NEW f
  PROVE  /\ LastLeafOf(s, f) \in 0..Len(s)
         /\ LastLeafOf(s, f) # 0 => s[LastLeafOf(s, f)].fp = f
<1>. DEFINE I == {i \in 1..Len(s) : s[i].fp = f}
<1>1. LastLeafOf(s, f) = IF I # {} THEN Max(I) ELSE 0
  BY DEF LastLeafOf, SelectLastInSeq
<1>2. I # {} => Max(I) \in I
  <2>1. Len(s) \in Nat /\ I \in SUBSET (0..Len(s))
    OBVIOUS
  <2>. HIDE DEF I
  <2>. QED  BY <2>1, LastPosition
<1>. QED  BY <1>1, <1>2

(* A new leaf is the last one of its own fingerprint and changes no other. *)
LEMMA LastLeafOfAppend ==
  ASSUME NEW s \in Seq(Row), NEW r \in Row, NEW f
  PROVE  LastLeafOf(Append(s, r), f) = IF f = r.fp THEN Len(s) + 1 ELSE LastLeafOf(s, f)
<1>. DEFINE n == Len(s)
            t == Append(s, r)
            I == {i \in 1..n : s[i].fp = f}
            J == {i \in 1..Len(t) : t[i].fp = f}
<1>1. LastLeafOf(s, f) = (IF I # {} THEN Max(I) ELSE 0)
      /\ LastLeafOf(t, f) = (IF J # {} THEN Max(J) ELSE 0)
  BY DEF LastLeafOf, SelectLastInSeq
<1>2. n \in Nat /\ Len(t) = n + 1 /\ t[n + 1] = r /\ \A i \in 1..n : t[i] = s[i]
  OBVIOUS
<1>3. CASE f = r.fp
  <2>1. J \in SUBSET (0..(n + 1)) /\ n + 1 \in J
    BY <1>2, <1>3
  <2>2. n + 1 \in Nat /\ J # {}
    BY <1>2, <2>1
  <2>. HIDE DEF J, n
  <2>3. Max(J) \in J /\ \A i \in J : i <= Max(J)
    BY <2>1, <2>2, LastPosition
  <2>4. Max(J) \in 0..(n + 1) /\ n + 1 <= Max(J)
    BY <2>1, <2>3
  <2>5. Max(J) = n + 1
    BY <2>2, <2>4
  <2>. QED  BY <1>1, <1>3, <2>2, <2>5 DEF n
<1>4. CASE f # r.fp
  <2>1. I = J
    <3>1. \A i \in 1..(n + 1) : t[i].fp = f => i \in 1..n
      BY <1>2, <1>4
    <3>. QED  BY <1>2, <3>1
  <2>. QED  BY <1>1, <1>4, <2>1
<1>. QED  BY <1>3, <1>4

-----------------------------------------------------------------------------
(* Commits, rollbacks and restarts.                                        *)

(* A commit makes what the connection sees durable, or leaves the disk as   *)
(* it was: either way the committed tables are sound.                       *)
LEMMA CommitKeepsDisk ==
  ASSUME SqliteInv, IndexInv', leaves' \in Seq(Row),
         \A i \in 1..Len(leaves') : leaves'[i] \in rows',
         CommitWorks \/ CommitRaises
  PROVE  /\ DiskIsSound'
         /\ failures' \in 0..MaxFailures
         /\ disk' = disk \/ disk'.leaves = leaves'
<1>1. CASE CommitWorks
  <2>1. disk' = [current |-> current', authorized |-> authorized', rows |-> rows',
                 ingestedAt |-> ingestedAt', superseded |-> superseded', leaves |-> leaves']
    BY <1>1 DEF CommitWorks, View
  <2>2. IndexTypeOK' /\ LiveRowIsCurrent'
    BY DEF IndexInv
  <2>3. superseded' \subseteq Row
    BY <2>2 DEF IndexTypeOK
  <2>4. disk' \in Disk
    BY <2>1, <2>2, <2>3 DEF IndexTypeOK, Disk
  <2>5. DiskIsSound'
    BY <2>1, <2>2, <2>4 DEF IndexTypeOK, LiveRowIsCurrent, DiskIsSound
  <2>. QED  BY <1>1, <2>1, <2>5 DEF CommitWorks, SqliteInv
<1>2. CASE CommitRaises
  BY <1>2, MerkleAssumption DEF CommitRaises, SqliteInv, DiskIsSound, Disk
<1>. QED  BY <1>1, <1>2

(* The tables go back to what was committed last. *)
BackToDisk ==
    /\ current' = disk.current /\ authorized' = disk.authorized
    /\ rows' = disk.rows /\ ingestedAt' = disk.ingestedAt /\ superseded' = disk.superseded
    /\ leaves' = disk.leaves
    /\ call' = NoCall
    /\ UNCHANGED <<tampered, disk>>

LEMMA BackToDiskKeeps ==
  ASSUME SqliteInv, BackToDisk
  PROVE  /\ IndexInv' /\ tampered' = {} /\ DiskIsSound' /\ CallIsBacked'
         /\ leaves' \in Seq(Row) /\ leaves' = disk'.leaves
         /\ \A i \in 1..Len(leaves') : leaves'[i] \in rows'
         /\ \A i, j \in 1..Len(leaves') : leaves'[i] = leaves'[j] => i = j
<1>1. disk \in Disk /\ DiskIsSound /\ disk' = disk
  BY DEF SqliteInv, DiskIsSound, BackToDisk
<1>2. DiskIsSound'
  BY <1>1 DEF DiskIsSound
<1>3. IndexTypeOK'
  BY <1>1 DEF SqliteInv, BackToDisk, DiskIsSound, Disk, IndexTypeOK
<1>4. LiveRowIsCurrent'
  BY <1>1 DEF BackToDisk, DiskIsSound, LiveRowIsCurrent
<1>5. leaves' \in Seq(Row) /\ leaves' = disk'.leaves
  BY <1>1 DEF BackToDisk, Disk
<1>6. \A i, j \in 1..Len(leaves') : leaves'[i] = leaves'[j] => i = j
  <2>1. Begins(disk.leaves, leaves) /\ leaves \in Seq(Row) /\ disk.leaves \in Seq(Row)
        /\ \A i, j \in 1..Len(leaves) : leaves[i] = leaves[j] => i = j
    BY <1>1 DEF SqliteInv, LeavesAgree, Disk
  <2>2. \A i \in 1..Len(disk.leaves) : i \in 1..Len(leaves) /\ leaves[i] = disk.leaves[i]
    BY <2>1 DEF Begins
  <2>. QED  BY <2>1, <2>2 DEF BackToDisk
<1>. QED  BY <1>1, <1>2, <1>3, <1>4, <1>5, <1>6 DEF IndexInv, BackToDisk, CallIsBacked, SqliteInv, DiskIsSound

LEMMA BeginsItself ==
  ASSUME NEW S, NEW s \in Seq(S)
  PROVE  Begins(s, s)
BY DEF Begins

LEMMA RollsBackKeeps ==
  ASSUME SqliteInv, RollsBack
  PROVE  SqliteInv'
<1>1. BackToDisk /\ tree' = tree /\ leafOf' = leafOf
  BY DEF RollsBack, BackToDisk
<1>2. /\ IndexInv' /\ tampered' = {} /\ DiskIsSound' /\ CallIsBacked'
      /\ leaves' \in Seq(Row) /\ leaves' = disk'.leaves
      /\ \A i \in 1..Len(leaves') : leaves'[i] \in rows'
      /\ \A i, j \in 1..Len(leaves') : leaves'[i] = leaves'[j] => i = j
  BY <1>1, BackToDiskKeeps
<1>3. LeavesAgree'
  <2>1. /\ tree \in Seq(Row) /\ Begins(tree, disk.leaves) /\ Begins(disk.leaves, leaves)
        /\ Len(leaves) <= Len(tree) + 1 /\ leaves \in Seq(Row)
    BY DEF SqliteInv, LeavesAgree
  <2>2. disk' = disk /\ leaves' = disk.leaves
    BY <1>1 DEF BackToDisk
  <2>3. Len(disk.leaves) <= Len(tree) + 1
    <3>1. Len(disk.leaves) <= Len(leaves) /\ Len(disk.leaves) \in Nat
      BY <1>2, <2>1, <2>2 DEF Begins
    <3>. QED  BY <2>1, <3>1
  <2>4. Begins(disk.leaves, disk.leaves)
    BY <1>2, <2>2, BeginsItself
  <2>. QED  BY <1>1, <1>2, <2>1, <2>2, <2>3, <2>4 DEF LeavesAgree
<1>4. DictionaryIsLast'
  BY <1>1 DEF SqliteInv, DictionaryIsLast
<1>5. failures' \in 0..MaxFailures
  BY MerkleAssumption DEF RollsBack, SqliteInv
<1>. QED  BY <1>2, <1>3, <1>4, <1>5 DEF SqliteInv

LEMMA RestartKeeps ==
  ASSUME SqliteInv, Restart
  PROVE  SqliteInv'
<1>1. /\ BackToDisk /\ tree' = disk.leaves /\ failures' = failures
      /\ leafOf' = [f \in Fingerprint |-> LastLeafOf(disk.leaves, f)]
  BY DEF Restart, BackToDisk
<1>2. /\ IndexInv' /\ tampered' = {} /\ DiskIsSound' /\ CallIsBacked'
      /\ leaves' \in Seq(Row) /\ leaves' = disk'.leaves
      /\ \A i \in 1..Len(leaves') : leaves'[i] \in rows'
      /\ \A i, j \in 1..Len(leaves') : leaves'[i] = leaves'[j] => i = j
  BY <1>1, BackToDiskKeeps
<1>3. tree' = leaves' /\ disk'.leaves = leaves' /\ disk.leaves = leaves'
  BY <1>1, <1>2 DEF BackToDisk
<1>4. LeavesAgree'
  <2>1. Begins(leaves', leaves') /\ Len(leaves') \in Nat
    BY <1>2, BeginsItself
  <2>. QED  BY <1>2, <1>3, <2>1 DEF LeavesAgree
<1>5. DictionaryIsLast'
  <2>1. \A f \in Fingerprint : LastLeafOf(leaves', f) \in Nat
    BY <1>2, LastLeafIsIn
  <2>. QED  BY <1>1, <1>3, <2>1 DEF DictionaryIsLast
<1>. QED  BY <1>1, <1>2, <1>4, <1>5 DEF SqliteInv

-----------------------------------------------------------------------------
(* add() and the other writers.                                            *)

LEMMA CallShape ==
  ASSUME SqliteInv, call # NoCall
  PROVE  call \in Call /\ call.row \in Row /\ call.row.fp \in Fingerprint /\ call.grant \in BOOLEAN
BY DEF SqliteInv, CallIsBacked, Call, Row

LEMMA CallIsNotNoCall == \A c \in Call : c # NoCall
BY MerkleAssumption DEF Call

LEMMA BeginAddKeeps ==
  ASSUME SqliteInv, NEW r \in Row, NEW grant \in BOOLEAN, BeginAdd(r, grant)
  PROVE  SqliteInv'
<1>1. /\ UNCHANGED <<current, authorized, rows, ingestedAt, superseded, tampered,
                     leaves, disk, tree, leafOf, failures>>
      /\ call' = [row |-> r, grant |-> grant, existed |-> r \in rows, at |-> "base"]
  BY DEF BeginAdd
<1>2. IndexInv' /\ DiskIsSound' /\ LeavesAgree' /\ DictionaryIsLast'
  BY <1>1 DEF SqliteInv, IndexInv, IndexTypeOK, LiveRowIsCurrent, DiskIsSound, LeavesAgree, DictionaryIsLast
<1>3. CallIsBacked'
  <2>. DEFINE existed == r \in rows
  <2>1. existed \in BOOLEAN /\ (~existed => r \notin rows)
    OBVIOUS
  <2>2. call' = [row |-> r, grant |-> grant, existed |-> existed, at |-> "base"]
    BY <1>1
  <2>. HIDE DEF existed
  <2>3. call' \in Call /\ call'.at = "base" /\ call'.row = r /\ call'.existed = existed
    BY <2>1, <2>2 DEF Call
  <2>. QED  BY <1>1, <2>1, <2>3 DEF CallIsBacked
<1>. QED  BY <1>1, <1>2, <1>3 DEF SqliteInv

(* A step that only changes the tables of the index, and commits or fails. *)
LEMMA TableStepKeeps ==
  ASSUME SqliteInv, IndexInv', rows \subseteq rows', UNCHANGED <<tampered, leaves, tree, leafOf>>,
         CommitWorks \/ CommitRaises
  PROVE  /\ tampered' = {} /\ DiskIsSound' /\ LeavesAgree' /\ DictionaryIsLast'
         /\ failures' \in 0..MaxFailures
<1>1. leaves' \in Seq(Row) /\ \A i \in 1..Len(leaves') : leaves'[i] \in rows'
  BY DEF SqliteInv, LeavesAgree
<1>2. DiskIsSound' /\ failures' \in 0..MaxFailures /\ (disk' = disk \/ disk'.leaves = leaves)
  BY <1>1, CommitKeepsDisk
<1>3. LeavesAgree'
  <2>1. /\ Begins(tree, disk.leaves) /\ Begins(disk.leaves, leaves)
        /\ leaves \in Seq(Row) /\ tree \in Seq(Row) /\ disk.leaves \in Seq(Row)
    BY DEF SqliteInv, LeavesAgree, DiskIsSound, Disk
  <2>2. Begins(tree, leaves) /\ Begins(leaves, leaves)
    <3>1. Len(tree) \in Nat /\ Len(leaves) \in Nat /\ Len(disk.leaves) \in Nat
      BY <2>1
    <3>. QED  BY <2>1, <3>1 DEF Begins
  <2>3. Begins(tree, disk'.leaves) /\ Begins(disk'.leaves, leaves)
    BY <1>2, <2>1, <2>2
  <2>. QED  BY <1>1, <2>3 DEF SqliteInv, LeavesAgree
<1>. QED  BY <1>2, <1>3 DEF SqliteInv, DictionaryIsLast

LEMMA WriteRowKeeps ==
  ASSUME SqliteInv, NEW at \in Time, WriteRow(at)
  PROVE  SqliteInv'
<1>1. /\ call \in Call /\ call # NoCall /\ call.at = "base" /\ call.row \in Row
      /\ call.grant \in BOOLEAN
      /\ Add(call.row, call.grant, at)
      /\ UNCHANGED <<leaves, tree, leafOf>>
      /\ CommitWorks \/ CommitRaises
  BY CallShape DEF WriteRow
<1>2. IndexInv' /\ tampered' = tampered /\ rows' = rows \cup {call.row}
  <2>1. IndexInv
    BY DEF SqliteInv
  <2>. QED  BY <1>1, <2>1, AddPreserves DEF Add
<1>3. /\ tampered' = {} /\ DiskIsSound' /\ LeavesAgree' /\ DictionaryIsLast'
      /\ failures' \in 0..MaxFailures
  BY <1>1, <1>2, TableStepKeeps
<1>4. CallIsBacked'
  <2>1. CASE call' = NoCall
    BY <2>1 DEF CallIsBacked
  <2>2. CASE call' = [call EXCEPT !.at = "leaf"] /\ ~call.existed
    <3>1. call' \in Call /\ call'.at = "leaf" /\ call'.row = call.row
      BY <1>1, <2>2 DEF Call
    <3>2. call.row \notin rows /\ \A i \in 1..Len(leaves) : leaves[i] \in rows
      BY <1>1, <2>2 DEF SqliteInv, CallIsBacked, LeavesAgree
    <3>. QED  BY <1>1, <1>2, <3>1, <3>2 DEF CallIsBacked
  <2>. QED  BY <2>1, <2>2 DEF WriteRow
<1>. QED  BY <1>2, <1>3, <1>4 DEF SqliteInv

LEMMA WriteLeafKeeps ==
  ASSUME SqliteInv, WriteLeaf
  PROVE  SqliteInv'
<1>. DEFINE r == call.row
            n == Len(tree)
<1>1. /\ call \in Call /\ call.at = "leaf" /\ r \in Row /\ r \in rows
      /\ \A i \in 1..Len(leaves) : leaves[i] # r
  BY CallShape DEF WriteLeaf, SqliteInv, CallIsBacked
<1>2. /\ Len(leaves) = n /\ leaves' = Append(leaves, r)
      /\ UNCHANGED <<current, authorized, rows, ingestedAt, superseded, tampered, tree, leafOf>>
      /\ CommitWorks \/ CommitRaises
  BY DEF WriteLeaf
<1>3. /\ leaves \in Seq(Row) /\ tree \in Seq(Row) /\ disk.leaves \in Seq(Row)
      /\ Begins(tree, disk.leaves) /\ Begins(disk.leaves, leaves)
      /\ \A i \in 1..Len(leaves) : leaves[i] \in rows
      /\ \A i, j \in 1..Len(leaves) : leaves[i] = leaves[j] => i = j
  BY DEF SqliteInv, LeavesAgree, DiskIsSound, Disk
<1>4. n \in Nat /\ Len(disk.leaves) = n /\ \A i \in 1..n : tree[i] = leaves[i] /\ disk.leaves[i] = leaves[i]
  <2>1. Len(disk.leaves) \in Nat /\ n \in Nat
    BY <1>3
  <2>2. Len(disk.leaves) = n
    BY <1>2, <1>3, <2>1 DEF Begins
  <2>. QED  BY <1>2, <1>3, <2>1, <2>2 DEF Begins
<1>5. leaves' \in Seq(Row) /\ Len(leaves') = n + 1 /\ leaves'[n + 1] = r
      /\ \A i \in 1..n : leaves'[i] = leaves[i]
  BY <1>1, <1>2, <1>3
<1>. HIDE DEF r, n
<1>6. \A i \in 1..Len(leaves') : leaves'[i] \in rows'
  <2>1. \A i \in 1..(n + 1) : i \in 1..n \/ i = n + 1
    BY <1>4
  <2>. QED  BY <1>1, <1>2, <1>3, <1>5, <2>1
<1>7. \A i, j \in 1..Len(leaves') : leaves'[i] = leaves'[j] => i = j
  <2>1. \A i \in 1..(n + 1) : i \in 1..n \/ i = n + 1
    BY <1>4
  <2>. QED  BY <1>1, <1>2, <1>3, <1>5, <2>1
<1>8. IndexInv'
  BY <1>2 DEF SqliteInv, IndexInv, IndexTypeOK, LiveRowIsCurrent
<1>9. DiskIsSound' /\ failures' \in 0..MaxFailures /\ (disk' = disk \/ disk'.leaves = leaves')
  BY <1>2, <1>5, <1>6, <1>8, CommitKeepsDisk
<1>10. LeavesAgree'
  <2>1. Begins(tree, leaves') /\ Begins(leaves', leaves') /\ Begins(disk.leaves, leaves')
    BY <1>4, <1>5 DEF Begins, n
  <2>2. Begins(tree, disk'.leaves) /\ Begins(disk'.leaves, leaves')
    BY <1>3, <1>9, <2>1
  <2>3. Len(leaves') <= Len(tree) + 1
    BY <1>4, <1>5 DEF n
  <2>. QED  BY <1>2, <1>3, <1>5, <1>6, <1>7, <2>2, <2>3 DEF LeavesAgree
<1>11. CallIsBacked'
  <2>1. CASE call' = NoCall
    BY <2>1 DEF CallIsBacked
  <2>2. CASE CommitWorks /\ call' = [call EXCEPT !.at = "tree"]
    <3>1. call' \in Call /\ call'.at = "tree" /\ call'.row = r
      BY <1>1, <2>2 DEF Call, r
    <3>2. disk'.leaves = leaves'
      BY <2>2 DEF CommitWorks, View
    <3>. QED  BY <1>2, <1>5, <3>1, <3>2 DEF CallIsBacked, n
  <2>. QED  BY <2>1, <2>2 DEF WriteLeaf
<1>12. DictionaryIsLast'
  BY <1>2 DEF SqliteInv, DictionaryIsLast
<1>. QED  BY <1>2, <1>8, <1>9, <1>10, <1>11, <1>12 DEF SqliteInv

LEMMA AppendTreeKeeps ==
  ASSUME SqliteInv, AppendTree
  PROVE  SqliteInv'
<1>. DEFINE r == call.row
            n == Len(tree)
<1>1. /\ call \in Call /\ r \in Row /\ r.fp \in Fingerprint
      /\ Len(leaves) = n + 1 /\ Len(disk.leaves) = n + 1 /\ leaves[n + 1] = r
  BY CallShape DEF AppendTree, SqliteInv, CallIsBacked
<1>2. /\ tree' = Append(tree, r) /\ leafOf' = [leafOf EXCEPT ![r.fp] = Len(tree')] /\ call' = NoCall
      /\ UNCHANGED <<current, authorized, rows, ingestedAt, superseded, tampered, leaves, disk, failures>>
  BY DEF AppendTree
<1>3. /\ leaves \in Seq(Row) /\ tree \in Seq(Row)
      /\ Begins(tree, disk.leaves) /\ Begins(disk.leaves, leaves)
  BY DEF SqliteInv, LeavesAgree
<1>4. n \in Nat /\ tree' \in Seq(Row) /\ Len(tree') = n + 1 /\ tree'[n + 1] = r
      /\ \A i \in 1..n : tree'[i] = tree[i]
  BY <1>1, <1>2, <1>3
<1>. HIDE DEF r, n
<1>5. LeavesAgree'
  <2>1. disk.leaves[n + 1] = r
    BY <1>1, <1>3, <1>4 DEF Begins
  <2>2. \A i \in 1..n : disk.leaves[i] = tree[i]
    BY <1>3 DEF Begins, n
  <2>3. \A i \in 1..(n + 1) : i \in 1..n \/ i = n + 1
    BY <1>4
  <2>4. \A i \in 1..(n + 1) : disk.leaves[i] = tree'[i]
    BY <1>4, <2>1, <2>2, <2>3
  <2>5. Begins(tree', disk.leaves)
    BY <1>1, <1>4, <2>4 DEF Begins
  <2>6. Len(leaves) <= Len(tree') + 1
    BY <1>1, <1>4
  <2>. QED  BY <1>2, <1>4, <2>5, <2>6 DEF SqliteInv, LeavesAgree
<1>6. DictionaryIsLast'
  <2>1. \A f \in Fingerprint : LastLeafOf(tree', f) = IF f = r.fp THEN n + 1 ELSE LastLeafOf(tree, f)
    BY <1>1, <1>2, <1>3, LastLeafOfAppend DEF n
  <2>. QED  BY <1>1, <1>2, <1>4, <2>1 DEF SqliteInv, DictionaryIsLast
<1>7. CallIsBacked' /\ IndexInv' /\ DiskIsSound'
  BY <1>2 DEF CallIsBacked, SqliteInv, IndexInv, IndexTypeOK, LiveRowIsCurrent, DiskIsSound
<1>. QED  BY <1>2, <1>5, <1>6, <1>7 DEF SqliteInv

LEMMA StepKeepsSqliteInv == SqliteInv /\ [MerkleNext]_merkleVars => SqliteInv'
<1>. SUFFICES ASSUME SqliteInv, [MerkleNext]_merkleVars PROVE SqliteInv'
  OBVIOUS
<1>1. ASSUME NEW d \in Document, NEW grant \in BOOLEAN, SetAuthorizationCall(d, grant)
      PROVE  SqliteInv'
  <2>1. /\ IndexInv' /\ rows' = rows /\ UNCHANGED <<tampered, leaves, tree, leafOf>>
        /\ call' = NoCall
        /\ CommitWorks \/ CommitRaises
    BY <1>1, SetAuthorizationPreserves DEF SetAuthorizationCall, SetAuthorization, SqliteInv
  <2>. QED  BY <2>1, TableStepKeeps DEF SqliteInv, CallIsBacked
<1>2. ASSUME NEW d \in Document, NEW v \in Version, SupersedeCall(d, v)
      PROVE  SqliteInv'
  <2>1. /\ IndexInv' /\ rows' = rows /\ UNCHANGED <<tampered, leaves, tree, leafOf>>
        /\ call' = NoCall
        /\ CommitWorks \/ CommitRaises
    BY <1>2, SupersedePreserves DEF SupersedeCall, Supersede, SqliteInv
  <2>. QED  BY <2>1, TableStepKeeps DEF SqliteInv, CallIsBacked
<1>3. CASE LeafKeyTaken
  BY <1>3 DEF LeafKeyTaken, SqliteInv, IndexInv, IndexTypeOK, LiveRowIsCurrent, DiskIsSound, LeavesAgree,
              CallIsBacked, DictionaryIsLast
<1>4. CASE UNCHANGED merkleVars
  BY <1>4 DEF merkleVars, SqliteInv, IndexInv, IndexTypeOK, LiveRowIsCurrent, DiskIsSound, LeavesAgree,
              CallIsBacked, DictionaryIsLast
<1>. QED  BY <1>1, <1>2, <1>3, <1>4, BeginAddKeeps, WriteRowKeeps, WriteLeafKeeps, AppendTreeKeeps,
             RollsBackKeeps, RestartKeeps DEF MerkleNext

LEMMA InitIsSound == MerkleInit => SqliteInv
<1>. SUFFICES ASSUME MerkleInit PROVE SqliteInv
  OBVIOUS
<1>1. IndexInv
  BY InitEstablishes DEF MerkleInit
<1>2. disk = [current |-> current, authorized |-> authorized, rows |-> {},
              ingestedAt |-> ingestedAt, superseded |-> {}, leaves |-> <<>>]
  BY DEF MerkleInit, IndexInit, View
<1>3. DiskIsSound
  BY <1>1, <1>2 DEF IndexInv, IndexTypeOK, DiskIsSound, Disk
<1>4. LeavesAgree
  BY <1>2 DEF MerkleInit, LeavesAgree, Begins
<1>5. DictionaryIsLast
  <2>1. \A f \in Fingerprint : LastLeafOf(<<>>, f) \in 0..0
    <3>1. <<>> \in Seq(Row) /\ Len(<<>>) = 0
      OBVIOUS
    <3>. QED  BY <3>1, LastLeafIsIn
  <2>. QED  BY <2>1 DEF MerkleInit, DictionaryIsLast
<1>. QED  BY <1>1, <1>3, <1>4, <1>5, MerkleAssumption DEF MerkleInit, IndexInit, SqliteInv, CallIsBacked

(* The visible and the committed tables, the log, the tree and the          *)
(* dictionary agree through every failed commit, rollback and restart.      *)
THEOREM SqliteInvariant == MerkleSpec => []SqliteInv
BY InitIsSound, StepKeepsSqliteInv, PTL DEF MerkleSpec

-----------------------------------------------------------------------------
(* What it means.                                                          *)

(* The tables, the log, the tree, the dictionary and the call in progress   *)
(* keep their types: no dictionary entry points past the end of the tree.   *)
THEOREM MerkleTypeCorrect == MerkleSpec => []MerkleTypeOK
<1>1. SqliteInv => MerkleTypeOK
  <2>. SUFFICES ASSUME SqliteInv PROVE MerkleTypeOK
    OBVIOUS
  <2>1. tree \in Seq(Row) /\ leaves \in Seq(Row)
    BY DEF SqliteInv, LeavesAgree
  <2>2. leafOf \in [Fingerprint -> 0..Len(tree)]
    BY <2>1, LastLeafIsIn DEF SqliteInv, DictionaryIsLast
  <2>. QED  BY <2>1, <2>2 DEF SqliteInv, IndexInv, DiskIsSound, CallIsBacked, MerkleTypeOK
<1>. QED  BY <1>1, SqliteInvariant, PTL

(* A crash or a rollback in the middle of add() leaves no row of a retired  *)
(* version live: the tables come back as consistent as they were.           *)
THEOREM CrashesKeepRowsCurrent == MerkleSpec => []LiveRowIsCurrent
<1>1. SqliteInv => LiveRowIsCurrent
  BY DEF SqliteInv, IndexInv
<1>. QED  BY <1>1, SqliteInvariant, PTL

(* The committed log as a sequence without repetitions. *)
LEMMA CommittedLeaves ==
  ASSUME SqliteInv
  PROVE  /\ tree \in Seq(Row) /\ disk.leaves \in Seq(Row) /\ leaves \in Seq(Row)
         /\ Begins(tree, disk.leaves) /\ Begins(disk.leaves, leaves)
         /\ \A i, j \in 1..Len(disk.leaves) : disk.leaves[i] = disk.leaves[j] => i = j
<1>1. /\ tree \in Seq(Row) /\ disk.leaves \in Seq(Row) /\ leaves \in Seq(Row)
      /\ Begins(tree, disk.leaves) /\ Begins(disk.leaves, leaves)
      /\ \A i, j \in 1..Len(leaves) : leaves[i] = leaves[j] => i = j
  BY DEF SqliteInv, LeavesAgree, DiskIsSound, Disk
<1>2. \A i \in 1..Len(disk.leaves) : i \in 1..Len(leaves) /\ leaves[i] = disk.leaves[i]
  BY <1>1 DEF Begins
<1>. QED  BY <1>1, <1>2

(* Whatever fails and is retried, no row is logged twice, none is logged    *)
(* that the committed index does not hold, and no published leaf is taken   *)
(* back or replaced.                                                        *)
THEOREM PublishedTreesAreDurable == MerkleSpec => []PublishedTreeIsDurable
<1>1. SqliteInv => PublishedTreeIsDurable
  <2>. SUFFICES ASSUME SqliteInv PROVE PublishedTreeIsDurable
    OBVIOUS
  <2>1. IsPrefix(tree, disk.leaves)
    BY CommittedLeaves, PrefixBegins
  <2>2. DOMAIN disk.leaves = 1..Len(disk.leaves)
    BY CommittedLeaves
  <2>3. IsInjective(disk.leaves)
    BY <2>2, CommittedLeaves DEF IsInjective
  <2>4. ToSet(disk.leaves) \subseteq disk.rows
    BY <2>2 DEF SqliteInv, DiskIsSound, ToSet
  <2>. QED  BY <2>1, <2>3, <2>4 DEF PublishedTreeIsDurable, LogListsRows
<1>. QED  BY <1>1, SqliteInvariant, PTL

(* A list that is one longer than another at most, and begins with it, is the *)
(* same or one leaf longer.                                                   *)
LEMMA OneLeafMore ==
  ASSUME NEW d \in Seq(Row), NEW l \in Seq(Row), Begins(d, l), Len(l) <= Len(d) + 1,
         \A i, j \in 1..Len(l) : l[i] = l[j] => i = j
  PROVE  l = d \/ \E r \in Row : (\A i \in DOMAIN d : d[i] # r) /\ l = Append(d, r)
<1>1. Len(l) = Len(d) \/ Len(l) = Len(d) + 1
  BY DEF Begins
<1>2. CASE Len(l) = Len(d)
  <2>1. \A i \in 1..Len(d) : d[i] = l[i]
    BY DEF Begins
  <2>. QED  BY <1>2, <2>1, SeqEqual
<1>3. CASE Len(l) = Len(d) + 1
  <2>. DEFINE r == l[Len(d) + 1]
              e == Append(d, r)
  <2>1. r \in Row
    BY <1>3, ElementOfSeq
  <2>2. \A i \in DOMAIN d : d[i] # r
    BY <1>3 DEF Begins
  <2>3. /\ e \in Seq(Row) /\ Len(e) = Len(d) + 1
        /\ \A i \in 1..(Len(d) + 1) : e[i] = l[i]
    BY <2>1 DEF Begins
  <2>4. l = e
    <3>. HIDE DEF e
    <3>. QED  BY <1>3, <2>3, SeqEqual
  <2>. QED  BY <2>1, <2>2, <2>4
<1>. QED  BY <1>1, <1>2, <1>3

(* A commit makes what the connection sees durable: one new leaf at most. *)
LEMMA CommitStep ==
  ASSUME SqliteInv, disk'.leaves = leaves, UNCHANGED tree
  PROVE  [Log!Next]_<<disk.leaves, tree>>
<1>1. /\ tree \in Seq(Row) /\ disk.leaves \in Seq(Row) /\ leaves \in Seq(Row)
      /\ Begins(tree, disk.leaves) /\ Begins(disk.leaves, leaves)
  BY CommittedLeaves
<1>2. Len(leaves) <= Len(tree) + 1 /\ \A i, j \in 1..Len(leaves) : leaves[i] = leaves[j] => i = j
  BY DEF SqliteInv, LeavesAgree
<1>3. Len(leaves) <= Len(disk.leaves) + 1
  BY <1>1, <1>2 DEF Begins
<1>4. \/ leaves = disk.leaves
      \/ \E r \in Row : (\A i \in DOMAIN disk.leaves : disk.leaves[i] # r)
                       /\ leaves = Append(disk.leaves, r)
  BY <1>1, <1>2, <1>3, OneLeafMore
<1>. QED  BY <1>4 DEF Log!Next, Log!Commit

LEMMA WriteLeafStep ==
  ASSUME SqliteInv, WriteLeaf
  PROVE  [Log!Next]_<<disk.leaves, tree>>
<1>1. /\ tree \in Seq(Row) /\ disk.leaves \in Seq(Row) /\ leaves \in Seq(Row)
      /\ Begins(tree, disk.leaves) /\ Begins(disk.leaves, leaves)
  BY CommittedLeaves
<1>2. /\ call # NoCall /\ call.at = "leaf" /\ Len(leaves) = Len(tree)
      /\ leaves' = Append(leaves, call.row) /\ tree' = tree
      /\ disk' = disk \/ disk'.leaves = leaves'
  BY DEF WriteLeaf, CommitWorks, CommitRaises, View
<1>3. call.row \in Row
  BY <1>2, CallShape
<1>4. \A i \in 1..Len(leaves) : leaves[i] # call.row
  BY <1>2 DEF SqliteInv, CallIsBacked
<1>5. leaves = disk.leaves
  <2>1. Len(leaves) = Len(disk.leaves)
    BY <1>1, <1>2 DEF Begins
  <2>2. \A i \in 1..Len(leaves) : leaves[i] = disk.leaves[i]
    BY <1>1, <2>1 DEF Begins
  <2>. QED  BY <1>1, <2>1, <2>2, SeqEqual
<1>6. DOMAIN disk.leaves = 1..Len(leaves)
  BY <1>1, <1>5
<1>. QED  BY <1>2, <1>3, <1>4, <1>5, <1>6 DEF Log!Next, Log!Commit

LEMMA AppendTreeStep ==
  ASSUME SqliteInv, AppendTree
  PROVE  tree' = disk.leaves /\ disk' = disk
<1>1. /\ tree \in Seq(Row) /\ disk.leaves \in Seq(Row) /\ leaves \in Seq(Row)
      /\ Begins(tree, disk.leaves) /\ Begins(disk.leaves, leaves)
  BY CommittedLeaves
<1>2. /\ call # NoCall /\ call.at = "tree" /\ tree' = Append(tree, call.row) /\ disk' = disk
  BY DEF AppendTree
<1>3. /\ Len(disk.leaves) = Len(tree) + 1 /\ leaves[Len(tree) + 1] = call.row
  BY <1>2 DEF SqliteInv, CallIsBacked
<1>4. call.row \in Row
  BY <1>2, CallShape
<1>. DEFINE e == Append(tree, call.row)
<1>5. /\ e \in Seq(Row) /\ Len(e) = Len(tree) + 1 /\ e[Len(tree) + 1] = call.row
      /\ \A i \in 1..Len(tree) : e[i] = tree[i]
  BY <1>1, <1>4
<1>6. \A i \in 1..(Len(tree) + 1) : i \in 1..Len(tree) \/ i = Len(tree) + 1
  BY <1>1
<1>7. disk.leaves[Len(tree) + 1] = call.row
  <2>1. Len(tree) + 1 \in 1..Len(disk.leaves)
    BY <1>1, <1>3
  <2>. QED  BY <1>1, <1>3, <2>1 DEF Begins
<1>8. e = disk.leaves
  <2>. HIDE DEF e
  <2>1. \A i \in 1..Len(e) : e[i] = disk.leaves[i]
    BY <1>1, <1>5, <1>6, <1>7 DEF Begins
  <2>. QED  BY <1>1, <1>3, <1>5, <2>1, SeqEqual
<1>. QED  BY <1>2, <1>8

LEMMA StepImplementsLog ==
  SqliteInv /\ [MerkleNext]_merkleVars => [Log!Next]_<<disk.leaves, tree>>
<1>. SUFFICES ASSUME SqliteInv, [MerkleNext]_merkleVars
              PROVE  [Log!Next]_<<disk.leaves, tree>>
  OBVIOUS
<1>1. CASE disk' = disk /\ tree' = tree
  BY <1>1
<1>2. CASE CommitWorks /\ UNCHANGED <<leaves, tree>>
  <2>1. disk'.leaves = leaves
    BY <1>2 DEF CommitWorks, View
  <2>. QED  BY <1>2, <2>1, CommitStep
<1>3. CASE WriteLeaf
  BY <1>3, WriteLeafStep
<1>4. CASE tree' = disk.leaves /\ disk' = disk
  BY <1>4 DEF Log!Next, Log!Publish
<1>5. CASE AppendTree
  BY <1>4, <1>5, AppendTreeStep
<1>6. CASE UNCHANGED merkleVars
  BY <1>1, <1>6 DEF merkleVars
<1>. QED  BY <1>1, <1>2, <1>3, <1>4, <1>5, <1>6 DEF MerkleNext, BeginAdd, WriteRow, LeafKeyTaken,
              SetAuthorizationCall, SupersedeCall, RollsBack, Restart, CommitRaises

(* The committed table and the tree in memory implement an append-only log   *)
(* for an auditor, whatever fails and is restarted: one new leaf at a time,  *)
(* none changed or removed, and every root that is handed out is extended by *)
(* all later ones.                                                           *)
THEOREM ImplementsLog == MerkleSpec => LogSpec
<1>1. MerkleInit => Log!Init
  BY DEF MerkleInit, View, Log!Init
<1>. QED  BY <1>1, SqliteInvariant, StepImplementsLog, PTL DEF MerkleSpec, LogSpec, Log!Spec, Log!logVars

(* After any failures and restarts, inclusion_proof() is about the newest   *)
(* published leaf of the fingerprint, and it verifies against tree_root().  *)
THEOREM InclusionProofsVerify == MerkleSpec => []ProofVerifies
<1>1. SqliteInv => ProofVerifies
  <2>. SUFFICES ASSUME SqliteInv, NEW f \in Fingerprint, leafOf[f] # 0
                PROVE  VerifyInclusion(leaves[leafOf[f]], leafOf[f] - 1, Len(tree),
                                       AuditPath(tree, leafOf[f] - 1), TreeRoot(tree))
    BY DEF ProofVerifies, ProofOf, SqliteInv, DictionaryIsLast
  <2>. DEFINE m == leafOf[f] - 1
  <2>1. tree \in Seq(Row) /\ Begins(tree, disk.leaves) /\ Begins(disk.leaves, leaves)
    BY CommittedLeaves
  <2>2. leafOf[f] \in 0..Len(tree)
    BY <2>1, LastLeafIsIn DEF SqliteInv, DictionaryIsLast
  <2>3. leafOf[f] \in 1..Len(tree) /\ m \in 0..(Len(tree) - 1) /\ m + 1 = leafOf[f]
    BY <2>1, <2>2
  <2>4. leaves[leafOf[f]] = tree[leafOf[f]]
    <3>1. Len(disk.leaves) \in Nat /\ Len(tree) \in Nat
      BY CommittedLeaves
    <3>2. disk.leaves[leafOf[f]] = tree[leafOf[f]] /\ leafOf[f] \in 1..Len(disk.leaves)
      BY <2>1, <2>3, <3>1 DEF Begins
    <3>. QED  BY <2>1, <3>2 DEF Begins
  <2>5. VerifyInclusion(tree[m + 1], m, Len(tree), AuditPath(tree, m), TreeRoot(tree))
    BY <2>1, <2>3, AuditPathVerifies
  <2>. QED  BY <2>3, <2>4, <2>5
<1>. QED  BY <1>1, SqliteInvariant, PTL

(* However long the log has grown and whatever failed on the way, a path    *)
(* verifies for its own leaf at its own position only.                      *)
THEOREM InclusionProofsAreExact == MerkleSpec => []ProofIsExact
<1>1. SqliteInv => ProofIsExact
  <2>. SUFFICES ASSUME SqliteInv PROVE AuditPathIsExact(tree)
    BY DEF ProofIsExact
  <2>1. /\ tree \in Seq(Row) /\ disk.leaves \in Seq(Row) /\ Begins(tree, disk.leaves)
        /\ \A i, j \in 1..Len(disk.leaves) : disk.leaves[i] = disk.leaves[j] => i = j
    BY CommittedLeaves
  <2>2. \A i \in 1..Len(tree) : i \in 1..Len(disk.leaves) /\ disk.leaves[i] = tree[i]
    BY <2>1 DEF Begins
  <2>3. \A i, j \in 1..Len(tree) : tree[i] = tree[j] => i = j
    BY <2>1, <2>2
  <2>. QED  BY <2>1, <2>3, EveryAuditPathIsExact
<1>. QED  BY <1>1, SqliteInvariant, PTL
===============================================================================
