------------------------------ MODULE MerkleTree ------------------------------
(***************************************************************************)
(* MerkleTree and verify_inclusion_proof() (provenex/core/merkle.py), the  *)
(* RFC 6962 log both transparency indexes build.  A hash is the term that  *)
(* was hashed: distinct terms have distinct hashes.  Leaf positions count  *)
(* from 0, as in the code.                                                 *)
(*                                                                         *)
(* _mth_cache is left out: its keys are ranges of an append-only list, so  *)
(* what it returns is what would be computed.                              *)
(***************************************************************************)
EXTENDS Naturals, FiniteSetsExt, SequencesExt

HashLeaf(leaf)       == <<"leaf", leaf>>
HashNode(left, right) == <<"node", left, right>>
EmptyRoot            == <<"empty">>

Pow2[k \in Nat] == IF k = 0 THEN 1 ELSE 2 * Pow2[k - 1]

(* _largest_pow2_lt(): where a range of n > 1 leaves is split. *)
SplitPoint(n) == Max({Pow2[k] : k \in {j \in 0..n : Pow2[j] < n}})

(* _mth(): the hash of n leaves from position lo. *)
RangeHash(leaves) ==
    LET h[n \in 1..Len(leaves)] ==
            [lo \in 0..(Len(leaves) - n) |->
                IF n = 1 THEN HashLeaf(leaves[lo + 1])
                ELSE HashNode(h[SplitPoint(n)][lo], h[n - SplitPoint(n)][lo + SplitPoint(n)])]
    IN  h

TreeRoot(leaves) ==
    IF leaves = <<>> THEN EmptyRoot ELSE RangeHash(leaves)[Len(leaves)][0]

(* _proof(): the sibling of every subtree on the way from leaf m to the root  *)
(* of n leaves from position lo, the lowest first.                            *)
RangePath(leaves, m) ==
    LET p[n \in 1..Len(leaves)] ==
            [lo \in 0..(Len(leaves) - n) |->
                IF n = 1 THEN <<>>
                ELSE IF m < lo + SplitPoint(n)
                THEN Append(p[SplitPoint(n)][lo],
                            RangeHash(leaves)[n - SplitPoint(n)][lo + SplitPoint(n)])
                ELSE Append(p[n - SplitPoint(n)][lo + SplitPoint(n)],
                            RangeHash(leaves)[SplitPoint(n)][lo])]
    IN  p

AuditPath(leaves, m) == RangePath(leaves, m)[Len(leaves)][0]

(* One turn of the verifier's loop: `node` is the last node on a level of the *)
(* tree when r = sn; a node without a right sibling is carried up unchanged   *)
(* until it is a right child.                                                 *)
TrailingZeros(n) == IF n = 0 THEN 0 ELSE Max({k \in 0..n : n % Pow2[k] = 0})

ClimbWithoutUnwinding(at, sibling) ==
    IF ~at.ok \/ at.sn = 0 THEN [at EXCEPT !.ok = FALSE]
    ELSE [ok   |-> TRUE,
          node |-> IF at.r % 2 = 1 \/ at.r = at.sn
                   THEN HashNode(sibling, at.node) ELSE HashNode(at.node, sibling),
          r    |-> at.r \div 2,
          sn   |-> at.sn \div 2]

Climb(at, sibling) ==
    LET left == at.r % 2 = 1 \/ at.r = at.sn
        up   == IF left THEN 2 * Pow2[TrailingZeros(at.r)] ELSE 2
    IN  IF ~at.ok \/ at.sn = 0 THEN [at EXCEPT !.ok = FALSE]
        ELSE [ok   |-> TRUE,
              node |-> IF left THEN HashNode(sibling, at.node) ELSE HashNode(at.node, sibling),
              r    |-> at.r \div up,
              sn   |-> at.sn \div up]

(* The loop: the verifier's variables after each sibling. *)
Climbs(start, proof) ==
    LET at[i \in 0..Len(proof)] == IF i = 0 THEN start ELSE Climb(at[i - 1], proof[i])
    IN  at

VerifyInclusion(leaf, index, size, proof, root) ==
    LET start == [ok |-> TRUE, node |-> HashLeaf(leaf), r |-> index, sn |-> size - 1]
        end   == Climbs(start, proof)[Len(proof)]
    IN  /\ size > 0
        /\ index < size
        /\ end.ok
        /\ end.node = root
        /\ end.sn = 0

-----------------------------------------------------------------------------
(* The audit path of a leaf verifies for that leaf at that position and for   *)
(* nothing else: not for another leaf there, not for that leaf elsewhere, and *)
(* not with its last sibling dropped.  (It does verify for some other sizes   *)
(* of the log: the root does not say how many leaves it covers.)              *)
AuditPathIsExact(leaves) ==
    \A m \in 0..(Len(leaves) - 1) :
        LET path == AuditPath(leaves, m)
            root == TreeRoot(leaves)
        IN  /\ \A i \in 0..(Len(leaves) - 1) :
                 /\ VerifyInclusion(leaves[i + 1], m, Len(leaves), path, root) <=> i = m
                 /\ VerifyInclusion(leaves[m + 1], i, Len(leaves), path, root) <=> i = m
            /\ path # <<>> =>
                 ~VerifyInclusion(leaves[m + 1], m, Len(leaves), Front(path), root)
=============================================================================
