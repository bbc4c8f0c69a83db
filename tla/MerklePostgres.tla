---------------------------- MODULE MerklePostgres ----------------------------
(***************************************************************************)
(* MerklePostgresProvenanceIndex                                           *)
(* (provenex/index/merkle_postgres_index.py): the transparency log when    *)
(* several processes, each with a pool of connections and any number of    *)
(* threads, write to one database.  add() is four separate pieces: a       *)
(* look-up of the row, the base class' transaction, the transaction that   *)
(* appends the leaf under an advisory lock, and the update of this         *)
(* process' tree and dictionary, which no lock protects.                   *)
(*                                                                         *)
(* Of the tables of the index only the set of rows matters to the log, so  *)
(* that is what is left of them here (ProvenanceIndex has the rest).       *)
(* Positions count from 1.                                                 *)
(***************************************************************************)
EXTENDS MerkleTree

CONSTANTS
    Fingerprint, Document, Version,
    Process,        \* processes with a MerklePostgresProvenanceIndex
    Thread,         \* the threads that call add(), as <<process, number>>
    NoThread,       \* "nobody holds the lock"
    MaxFailures     \* bound: calls that raise

ASSUME PostgresAssumption ==
    /\ Thread \subseteq Process \X Nat
    /\ NoThread \notin Thread
    /\ MaxFailures \in Nat

ProcessOf(t) == t[1]

Row == [fp : Fingerprint, doc : Document, ver : Version]

VARIABLES
    rows,           \* the rows of the index
    log,            \* provenex_merkle_leaves in leaf_index order
    leafLock,       \* holder of the advisory lock _LEAF_LOCK_KEY
    tree,           \* _tree of each process
    leafOf,         \* _leaf_index_by_fp of each process, 0 when absent
    call,           \* the add() each thread is in
    failures,       \* calls that raised so far
    lost,           \* history: rows whose add() ended before its leaf was in
    solo            \* history: the process saw every leaf and appended in order

pgVars == <<rows, log, leafLock, tree, leafOf, call, failures, lost, solo>>

(* Where a thread is in add(): "base" after the look-up, "leaf" with the row  *)
(* written, "insert" with the lock and the tail of the log, "tree" with the   *)
(* leaf committed, "index" with the tree extended.                            *)
Call == [row : Row, existed : BOOLEAN, at : {"base", "leaf", "insert", "tree", "index"},
         leafIndex : Nat]

Idle == [at |-> "idle"]

PgTypeOK ==
    /\ rows \in SUBSET Row
    /\ log \in Seq(rows)
    /\ leafLock \in Thread \cup {NoThread}
    /\ tree \in [Process -> Seq(rows)]
    /\ leafOf \in [Process -> [Fingerprint -> 0..Len(log)]]
    /\ call \in [Thread -> Call \cup {Idle}]
    /\ failures \in 0..MaxFailures
    /\ lost \in SUBSET rows
    /\ solo \in [Process -> BOOLEAN]

PgInit ==
    /\ rows = {}
    /\ log = <<>>
    /\ leafLock = NoThread
    /\ tree = [p \in Process |-> <<>>]
    /\ leafOf = [p \in Process |-> [f \in Fingerprint |-> 0]]
    /\ call = [t \in Thread |-> Idle]
    /\ failures = 0
    /\ lost = {}
    /\ solo = [p \in Process |-> TRUE]

At(t, where) == call[t].at = where
Move(t, where) == call' = [call EXCEPT ![t].at = where]

(* Threads of p whose leaf is committed and not yet in the tree and the       *)
(* dictionary of p.                                                           *)
Unpublished(p) == {t \in Thread : ProcessOf(t) = p /\ call[t].at \in {"tree", "index"}}

-----------------------------------------------------------------------------
(* add().                                                                  *)

CheckExists(t, r) ==
    /\ At(t, "idle")
    /\ call' = [call EXCEPT ![t] = [row |-> r, existed |-> r \in rows, at |-> "base",
                                    leafIndex |-> 0]]
    /\ UNCHANGED <<rows, log, leafLock, tree, leafOf, failures, lost, solo>>

(* The look-up made after the row has been written always finds it. *)
BaseAddThenCheck(t) ==
    /\ At(t, "base")
    /\ rows' = rows \cup {call[t].row}
    /\ call' = [call EXCEPT ![t] = Idle]
    /\ UNCHANGED <<log, leafLock, tree, leafOf, failures, lost, solo>>

(* The base class' transaction without its commit. *)
BaseAddUncommitted(t) ==
    /\ At(t, "base")
    /\ IF call[t].existed THEN call' = [call EXCEPT ![t] = Idle] ELSE Move(t, "leaf")
    /\ UNCHANGED <<rows, log, leafLock, tree, leafOf, failures, lost, solo>>

(* super().add(): its transaction writes the row unless it is there. *)
BaseAdd(t) ==
    /\ At(t, "base")
    /\ rows' = rows \cup {call[t].row}
    /\ IF call[t].existed THEN call' = [call EXCEPT ![t] = Idle] ELSE Move(t, "leaf")
    /\ UNCHANGED <<log, leafLock, tree, leafOf, failures, lost, solo>>

(* pg_advisory_xact_lock(), then MAX(leaf_index) + 1 as it is once the lock   *)
(* has been granted.                                                          *)
LockTail(t) ==
    /\ At(t, "leaf")
    /\ leafLock = NoThread
    /\ leafLock' = t
    /\ call' = [call EXCEPT ![t].at = "insert", ![t].leafIndex = Len(log) + 1]
    /\ UNCHANGED <<rows, log, tree, leafOf, failures, lost, solo>>

(* INSERT and COMMIT, which releases the lock.  Other processes miss the      *)
(* leaf, and this one is no longer in order when another of its threads has   *)
(* committed a leaf that is not in the tree yet.                              *)
InsertLeaf(t) ==
    LET me == ProcessOf(t)
    IN  /\ At(t, "insert")
        /\ log' = Append(log, call[t].row)
        /\ leafLock' = NoThread
        /\ Move(t, "tree")
        /\ solo' = [p \in Process |-> solo[p] /\ p = me /\ Unpublished(me) = {}]
        /\ UNCHANGED <<rows, tree, leafOf, failures, lost>>

AppendTree(t) ==
    /\ At(t, "tree")
    /\ tree' = [tree EXCEPT ![ProcessOf(t)] = Append(@, call[t].row)]
    /\ Move(t, "index")
    /\ UNCHANGED <<rows, log, leafLock, leafOf, failures, lost, solo>>

IndexLeaf(t) ==
    LET p == ProcessOf(t)
    IN  /\ At(t, "index")
        /\ leafOf' = [leafOf EXCEPT ![p][call[t].row.fp] = call[t].leafIndex]
        /\ call' = [call EXCEPT ![t] = Idle]
        /\ UNCHANGED <<rows, log, leafLock, tree, failures, lost, solo>>

-----------------------------------------------------------------------------
(* Failures.                                                               *)

(* Rows whose leaf nobody will write once the calls of T are gone. *)
LostBy(T) == {call[t].row : t \in {u \in T : call[u].at \in {"leaf", "insert"}}}

(* The database raises: the transaction is rolled back and its lock released. *)
(* A commit may raise although it was carried out, which is a failure at      *)
(* "tree".                                                                    *)
Fail(t) ==
    /\ call[t].at \in {"base", "leaf", "insert", "tree"}
    /\ failures < MaxFailures
    /\ failures' = failures + 1
    /\ call' = [call EXCEPT ![t] = Idle]
    /\ leafLock' = IF leafLock = t THEN NoThread ELSE leafLock
    /\ lost' = lost \cup LostBy({t})
    /\ solo' = [p \in Process |-> solo[p] /\ ~(p = ProcessOf(t) /\ At(t, "tree"))]
    /\ UNCHANGED <<rows, log, tree, leafOf>>

(* A process dies, and its successor replays the committed leaves. *)
LastLeafOf(f)  == SelectLastInSeq(log, LAMBDA r : r.fp = f)
FirstLeafOf(f) == SelectInSeq(log, LAMBDA r : r.fp = f)

RestartFirstLeaf(p) ==
    LET threads == {t \in Thread : ProcessOf(t) = p}
    IN  /\ call' = [t \in Thread |-> IF t \in threads THEN Idle ELSE call[t]]
        /\ leafLock' = IF leafLock \in threads THEN NoThread ELSE leafLock
        /\ lost' = lost \cup LostBy(threads)
        /\ tree' = [tree EXCEPT ![p] = log]
        /\ leafOf' = [leafOf EXCEPT ![p] = [f \in Fingerprint |-> FirstLeafOf(f)]]
        /\ solo' = [solo EXCEPT ![p] = TRUE]
        /\ UNCHANGED <<rows, log, failures>>

Restart(p) ==
    LET threads == {t \in Thread : ProcessOf(t) = p}
    IN  /\ call' = [t \in Thread |-> IF t \in threads THEN Idle ELSE call[t]]
        /\ leafLock' = IF leafLock \in threads THEN NoThread ELSE leafLock
        /\ lost' = lost \cup LostBy(threads)
        /\ tree' = [tree EXCEPT ![p] = log]
        /\ leafOf' = [leafOf EXCEPT ![p] = [f \in Fingerprint |-> LastLeafOf(f)]]
        /\ solo' = [solo EXCEPT ![p] = TRUE]
        /\ UNCHANGED <<rows, log, failures>>

PgNext ==
    \/ \E t \in Thread, r \in Row : CheckExists(t, r)
    \/ \E t \in Thread :
         BaseAdd(t) \/ LockTail(t) \/ InsertLeaf(t) \/ AppendTree(t) \/ IndexLeaf(t) \/ Fail(t)
    \/ \E p \in Process : Restart(p)

PgSpec == PgInit /\ [][PgNext]_pgVars

-----------------------------------------------------------------------------
(* Properties.                                                             *)

(* The module's own promise for many writers, that they "do not race on the *)
(* tail of the log": the position a call was given is still free when its   *)
(* INSERT is executed, whoever fails or dies holding the lock.              *)
TailIsFree ==
    \A t \in Thread : At(t, "insert") => /\ call[t].leafIndex = Len(log) + 1
                                        /\ leafLock = t

(* No INSERT meets a position that is taken, and a row of the index is in   *)
(* the log, or some call is on its way to log it, or every call that would  *)
(* have was cut short after writing the row.                                *)
NoRowForgotten ==
    /\ TailIsFree
    /\ rows \subseteq ToSet(log) \cup lost \cup LostBy(Thread)

(* The proof that process p produces for fingerprint f, with the leaf's     *)
(* bytes from the database and the path from its own tree, verifies against *)
(* its own root.  A position the tree does not have raises IndexError.      *)
ProofOfProcessVerifies(p, f) ==
    leafOf[p][f] # 0 =>
        /\ leafOf[p][f] <= Len(tree[p])
        /\ VerifyInclusion(log[leafOf[p][f]], leafOf[p][f] - 1, Len(tree[p]),
                           AuditPath(tree[p], leafOf[p][f] - 1), TreeRoot(tree[p]))

(* The tree is the committed log up to the leaf being published, so the     *)
(* root that p hands out is one every later root extends.                   *)
TreeIsLog(p) ==
    /\ IsPrefix(tree[p], log)
    /\ Unpublished(p) = {} => tree[p] = log

(* The recommended deployment: a process that is the only writer and whose  *)
(* calls did not overlap between commit and append hands out durable roots  *)
(* and proofs that verify, about the newest leaf of the fingerprint or the  *)
(* one before while the newest is published.                                *)
SoloProofVerifies ==
    \A p \in Process : solo[p] =>
        /\ TreeIsLog(p)
        /\ \A f \in Fingerprint :
               /\ ProofOfProcessVerifies(p, f)
               /\ Unpublished(p) = {} => leafOf[p][f] = LastLeafOf(f)

-----------------------------------------------------------------------------
(* Statements of the repository that the code does not meet.                *)

(* inclusion_proof() returns the audit path and the bytes of a             *)
(* fingerprint's leaf, "suitable for offline verification"; the caveat of   *)
(* the module is about other processes.  Refuted by two threads of one      *)
(* process that append to the tree in the other order than to the table:    *)
(* the proof stays wrong until the process is restarted.                    *)
ProofVerifies ==
    \A p \in Process :
        Unpublished(p) = {} => \A f \in Fingerprint : ProofOfProcessVerifies(p, f)
=============================================================================
