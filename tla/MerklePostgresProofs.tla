------------------------- MODULE MerklePostgresProofs -------------------------
(***************************************************************************)
(* Proofs about the Postgres transparency log, for any number of           *)
(* processes, threads, rows and failures: no INSERT meets a taken          *)
(* position, no row is forgotten without a failure, and the log never      *)
(* holds a row the index does not have.                                    *)
(*                                                                         *)
(* What has to be added to the properties is what a thread knows while it  *)
(* is between two transactions: the row it is about to log is in the       *)
(* table, and the position it will enter in the dictionary is one of the   *)
(* log.  What makes the tail free is the advisory lock: a thread that has  *)
(* read MAX(leaf_index) still holds it.                                    *)
(***************************************************************************)
EXTENDS MerklePostgres, MerkleTreeProofs

(* A call that found its row, and one past the base class' transaction, has *)
(* it in the table; one past its own transaction has a position in the log. *)
CallsAreBacked ==
    \A t \in Thread :
        /\ call[t].at = "base" /\ call[t].existed => call[t].row \in rows
        /\ call[t].at \in {"leaf", "insert", "tree", "index"} => call[t].row \in rows
        /\ call[t].at \in {"tree", "index"} => call[t].leafIndex \in 1..Len(log)

PgInv == PgTypeOK /\ CallsAreBacked /\ NoRowForgotten

-----------------------------------------------------------------------------
(* Helpers.                                                                *)

(* The position a rebuild enters for a fingerprint is one of the log, or 0. *)
LEMMA LastLeafIsInLog ==
  ASSUME Len(log) \in Nat, NEW f
  PROVE  /\ LastLeafOf(f) \in 0..Len(log)
         /\ LastLeafOf(f) # 0 => log[LastLeafOf(f)].fp = f
<1>. DEFINE I == {i \in 1..Len(log) : log[i].fp = f}
<1>1. LastLeafOf(f) = IF I # {} THEN Max(I) ELSE 0
  BY DEF LastLeafOf, SelectLastInSeq
<1>2. I # {} => Max(I) \in I
  <2>1. I \in SUBSET (0..Len(log))
    OBVIOUS
  <2>. HIDE DEF I
  <2>. QED  BY <2>1, LastPosition
<1>. QED  BY <1>1, <1>2

(* The parts of a call that a step moves on. *)
LEMMA CallShape ==
  ASSUME PgTypeOK, NEW t \in Thread
  PROVE  /\ call[t] \in Call \cup {Idle}
         /\ call[t].at # "idle" => call[t] \in Call
         /\ DOMAIN call = Thread
BY DEF PgTypeOK, Call, Idle

LEMMA SeqOfMore ==
  ASSUME NEW S, NEW T, S \subseteq T, NEW s \in Seq(S)
  PROVE  s \in Seq(T)
OBVIOUS

LEMMA ThreadHasProcess ==
  ASSUME NEW t \in Thread
  PROVE  ProcessOf(t) \in Process
BY PostgresAssumption DEF ProcessOf

-----------------------------------------------------------------------------
(* Steps.                                                                  *)

LEMMA InitEstablishes == PgInit => PgInv
<1>. SUFFICES ASSUME PgInit PROVE PgInv
  OBVIOUS
<1>1. PgTypeOK
  <2>1. log \in Seq(rows) /\ Len(log) = 0
    BY DEF PgInit
  <2>2. failures \in 0..MaxFailures
    BY PostgresAssumption DEF PgInit
  <2>. QED  BY <2>1, <2>2 DEF PgInit, PgTypeOK
<1>2. \A t \in Thread : call[t].at = "idle"
  BY DEF PgInit, Idle
<1>. QED  BY <1>1, <1>2 DEF PgInit, PgInv, CallsAreBacked, NoRowForgotten, TailIsFree, At

(* A step of thread t forgets no row if the rows it adds are on their way   *)
(* to the log afterwards, and the row that was on its way stays so, or      *)
(* reaches the log, or is recorded as lost.                                 *)
LEMMA NothingForgotten ==
  ASSUME PgInv, NEW t \in Thread, NEW c, call' = [call EXCEPT ![t] = c],
         rows' \subseteq rows \cup LostBy({t})',
         LostBy({t}) \subseteq ToSet(log)' \cup lost' \cup LostBy({t})',
         ToSet(log) \subseteq ToSet(log)', lost \subseteq lost'
  PROVE  rows' \subseteq ToSet(log)' \cup lost' \cup LostBy(Thread)'
<1>. SUFFICES ASSUME NEW r \in rows', r \notin ToSet(log)', r \notin lost'
              PROVE  r \in LostBy(Thread)'
  OBVIOUS
<1>1. \A u \in Thread : u # t => call'[u] = call[u]
  BY DEF PgInv, PgTypeOK
<1>. QED  BY <1>1 DEF PgInv, NoRowForgotten, LostBy

LEMMA CheckExistsKeeps ==
  ASSUME PgInv, NEW t \in Thread, NEW r \in Row, CheckExists(t, r)
  PROVE  PgInv'
<1>. DEFINE c == [row |-> r, existed |-> r \in rows, at |-> "base", leafIndex |-> 0]
<1>0. /\ call' = [call EXCEPT ![t] = c]
      /\ c \in Call
      /\ call'[t] = c /\ \A u \in Thread : u # t => call'[u] = call[u]
      /\ At(t, "idle")
      /\ UNCHANGED <<rows, log, leafLock, tree, leafOf, failures, lost, solo>>
  BY DEF PgInv, PgTypeOK, CheckExists, Call
<1>1. PgTypeOK'
  BY <1>0 DEF PgInv, PgTypeOK
<1>2. CallsAreBacked'
  <2>1. c.at = "base" /\ c.row = r /\ (c.existed => r \in rows)
    OBVIOUS
  <2>. HIDE DEF c
  <2>. QED  BY <1>0, <2>1 DEF PgInv, CallsAreBacked
<1>3. TailIsFree'
  BY <1>0 DEF PgInv, NoRowForgotten, TailIsFree, At
<1>4. (rows \subseteq ToSet(log) \cup lost \cup LostBy(Thread))'
  <2>. HIDE DEF c
  <2>1. LostBy({t}) = {}
    BY <1>0 DEF LostBy, At
  <2>. QED  BY <1>0, <2>1, NothingForgotten
<1>. QED  BY <1>1, <1>2, <1>3, <1>4 DEF PgInv, NoRowForgotten

LEMMA BaseAddKeeps ==
  ASSUME PgInv, NEW t \in Thread, BaseAdd(t)
  PROVE  PgInv'
<1>. DEFINE c == IF call[t].existed THEN Idle ELSE [call[t] EXCEPT !.at = "leaf"]
<1>0. /\ call' = [call EXCEPT ![t] = c]
      /\ call[t] \in Call /\ call[t].at = "base" /\ c \in Call \cup {Idle}
      /\ call'[t] = c /\ \A u \in Thread : u # t => call'[u] = call[u]
      /\ rows' = rows \cup {call[t].row}
      /\ UNCHANGED <<log, leafLock, tree, leafOf, failures, lost, solo>>
  <2>1. call[t] \in Call /\ call[t].at = "base"
    BY CallShape DEF PgInv, BaseAdd, At
  <2>2. call' = [call EXCEPT ![t] = c]
    BY DEF BaseAdd, Move
  <2>3. c \in Call \cup {Idle}
    BY <2>1 DEF Call
  <2>. HIDE DEF c
  <2>. QED  BY <2>1, <2>2, <2>3, CallShape DEF PgInv, BaseAdd
<1>1. PgTypeOK'
  <2>1. rows' \in SUBSET Row /\ rows \subseteq rows'
    BY <1>0 DEF PgInv, PgTypeOK, Call
  <2>2. log' \in Seq(rows') /\ tree' \in [Process -> Seq(rows')]
    BY <1>0, <2>1, SeqOfMore DEF PgInv, PgTypeOK
  <2>. QED  BY <1>0, <2>1, <2>2 DEF PgInv, PgTypeOK
<1>2. CallsAreBacked'
  BY <1>0 DEF PgInv, CallsAreBacked, Idle, Call
<1>3. TailIsFree'
  BY <1>0 DEF PgInv, NoRowForgotten, TailIsFree, At, Idle, Call
<1>4. (rows \subseteq ToSet(log) \cup lost \cup LostBy(Thread))'
  <2>1. LostBy({t}) = {}
    BY <1>0 DEF LostBy
  <2>2. rows' \subseteq rows \cup LostBy({t})'
    <3>1. CASE call[t].existed
      BY <1>0, <3>1 DEF PgInv, CallsAreBacked
    <3>2. CASE ~ call[t].existed
      BY <1>0, <3>2 DEF LostBy, Call
    <3>. QED  BY <3>1, <3>2
  <2>. HIDE DEF c
  <2>. QED  BY <1>0, <2>1, <2>2, NothingForgotten
<1>. QED  BY <1>1, <1>2, <1>3, <1>4 DEF PgInv, NoRowForgotten

(* A thread that takes the lock is the only one to have read the tail. *)
LEMMA LockTailKeeps ==
  ASSUME PgInv, NEW t \in Thread, LockTail(t)
  PROVE  PgInv'
<1>. DEFINE c == [call[t] EXCEPT !.at = "insert", !.leafIndex = Len(log) + 1]
<1>0. /\ call' = [call EXCEPT ![t] = c]
      /\ call[t] \in Call /\ call[t].at = "leaf"
      /\ c \in Call /\ c.at = "insert" /\ c.row = call[t].row /\ c.leafIndex = Len(log) + 1
      /\ call'[t] = c /\ \A u \in Thread : u # t => call'[u] = call[u]
      /\ leafLock = NoThread /\ leafLock' = t
      /\ UNCHANGED <<rows, log, tree, leafOf, failures, lost, solo>>
  <2>1. call[t] \in Call /\ call[t].at = "leaf" /\ Len(log) \in Nat
    BY CallShape DEF PgInv, PgTypeOK, LockTail, At
  <2>2. c.at = "insert" /\ c.row = call[t].row /\ c.leafIndex = Len(log) + 1
    BY <2>1 DEF Call
  <2>4. c \in Call
    <3>. DEFINE d == [call[t] EXCEPT !.at = "insert"]
    <3>1. d \in Call
      BY <2>1 DEF Call
    <3>2. Len(log) + 1 \in Nat
      BY <2>1
    <3>3. [d EXCEPT !.leafIndex = Len(log) + 1] \in Call
      <4>. HIDE DEF d
      <4>. QED  BY <3>1, <3>2 DEF Call
    <3>4. c = [d EXCEPT !.leafIndex = Len(log) + 1]
      BY <2>1 DEF Call
    <3>. QED  BY <3>3, <3>4
  <2>3. call' = [call EXCEPT ![t] = c]
    BY DEF LockTail
  <2>. HIDE DEF c
  <2>. QED  BY <2>1, <2>2, <2>3, <2>4, CallShape DEF PgInv, LockTail
<1>. HIDE DEF c
<1>1. PgTypeOK'
  BY <1>0 DEF PgInv, PgTypeOK
<1>2. CallsAreBacked'
  BY <1>0 DEF PgInv, CallsAreBacked
<1>3. TailIsFree'
  <2>1. \A u \in Thread : call[u].at # "insert"
    BY <1>0, PostgresAssumption DEF PgInv, NoRowForgotten, TailIsFree, At
  <2>. QED  BY <1>0, <2>1 DEF TailIsFree, At
<1>4. (rows \subseteq ToSet(log) \cup lost \cup LostBy(Thread))'
  <2>1. LostBy({t}) \subseteq LostBy({t})'
    BY <1>0 DEF LostBy
  <2>. QED  BY <1>0, <2>1, NothingForgotten
<1>. QED  BY <1>1, <1>2, <1>3, <1>4 DEF PgInv, NoRowForgotten

(* The leaf that is inserted is a row of the index, and the lock kept every *)
(* other thread away from the tail it extends.                              *)
LEMMA InsertLeafKeeps ==
  ASSUME PgInv, NEW t \in Thread, InsertLeaf(t)
  PROVE  PgInv'
<1>. DEFINE c == [call[t] EXCEPT !.at = "tree"]
<1>0. /\ call' = [call EXCEPT ![t] = c]
      /\ call[t] \in Call /\ call[t].at = "insert"
      /\ c \in Call /\ c.at = "tree" /\ c.row = call[t].row /\ c.leafIndex = call[t].leafIndex
      /\ call'[t] = c /\ \A u \in Thread : u # t => call'[u] = call[u]
      /\ log' = Append(log, call[t].row) /\ leafLock' = NoThread
      /\ UNCHANGED <<rows, tree, leafOf, failures, lost>>
  <2>1. call[t] \in Call /\ call[t].at = "insert"
    BY CallShape DEF PgInv, InsertLeaf, At
  <2>2. c \in Call /\ c.at = "tree" /\ c.row = call[t].row /\ c.leafIndex = call[t].leafIndex
    BY <2>1 DEF Call
  <2>3. call' = [call EXCEPT ![t] = c]
    BY DEF InsertLeaf, Move
  <2>. HIDE DEF c
  <2>. QED  BY <2>1, <2>2, <2>3, CallShape DEF PgInv, InsertLeaf
<1>. HIDE DEF c
<1>5. /\ Len(log) \in Nat /\ log \in Seq(rows) /\ call[t].row \in rows
      /\ log' \in Seq(rows) /\ Len(log') = Len(log) + 1
      /\ \A i \in 1..Len(log) : log'[i] = log[i]
      /\ log'[Len(log) + 1] = call[t].row
  BY <1>0 DEF PgInv, PgTypeOK, CallsAreBacked
<1>6. ToSet(log) \subseteq ToSet(log)' /\ call[t].row \in ToSet(log)'
  BY <1>5 DEF ToSet
<1>7. solo' \in [Process -> BOOLEAN]
  <2>1. solo' = [p \in Process |-> solo[p] /\ p = ProcessOf(t) /\ Unpublished(ProcessOf(t)) = {}]
    BY DEF InsertLeaf
  <2>. QED  BY <2>1, Zenon
<1>8. leafOf' \in [Process -> [Fingerprint -> 0..Len(log')]]
  <2>1. 0..Len(log) \subseteq 0..Len(log')
    BY <1>5
  <2>2. leafOf \in [Process -> [Fingerprint -> 0..Len(log)]]
    BY DEF PgInv, PgTypeOK
  <2>. QED  BY <1>0, <2>1, <2>2
<1>1. PgTypeOK'
  BY <1>0, <1>5, <1>7, <1>8 DEF PgInv, PgTypeOK
<1>2. CallsAreBacked'
  <2>1. call[t].leafIndex = Len(log) + 1
    BY <1>0 DEF PgInv, NoRowForgotten, TailIsFree, At
  <2>. QED  BY <1>0, <1>5, <2>1 DEF PgInv, CallsAreBacked
<1>3. TailIsFree'
  <2>1. \A u \in Thread : u # t => call[u].at # "insert"
    BY <1>0 DEF PgInv, NoRowForgotten, TailIsFree, At
  <2>. QED  BY <1>0, <2>1 DEF TailIsFree, At
<1>4. (rows \subseteq ToSet(log) \cup lost \cup LostBy(Thread))'
  <2>1. LostBy({t}) \subseteq ToSet(log)'
    BY <1>6 DEF LostBy
  <2>. QED  BY <1>0, <1>6, <2>1, NothingForgotten
<1>. QED  BY <1>1, <1>2, <1>3, <1>4 DEF PgInv, NoRowForgotten

LEMMA AppendTreeKeeps ==
  ASSUME PgInv, NEW t \in Thread, AppendTree(t)
  PROVE  PgInv'
<1>. DEFINE c == [call[t] EXCEPT !.at = "index"]
<1>0. /\ call' = [call EXCEPT ![t] = c]
      /\ call[t] \in Call /\ call[t].at = "tree"
      /\ c \in Call /\ c.at = "index" /\ c.row = call[t].row /\ c.leafIndex = call[t].leafIndex
      /\ call'[t] = c /\ \A u \in Thread : u # t => call'[u] = call[u]
      /\ tree' = [tree EXCEPT ![ProcessOf(t)] = Append(@, call[t].row)]
      /\ UNCHANGED <<rows, log, leafLock, leafOf, failures, lost, solo>>
  <2>1. call[t] \in Call /\ call[t].at = "tree"
    BY CallShape DEF PgInv, AppendTree, At
  <2>2. c \in Call /\ c.at = "index" /\ c.row = call[t].row /\ c.leafIndex = call[t].leafIndex
    BY <2>1 DEF Call
  <2>3. call' = [call EXCEPT ![t] = c]
    BY DEF AppendTree, Move
  <2>. HIDE DEF c
  <2>. QED  BY <2>1, <2>2, <2>3, CallShape DEF PgInv, AppendTree
<1>. HIDE DEF c
<1>5. tree' \in [Process -> Seq(rows)]
  <2>1. tree \in [Process -> Seq(rows)] /\ call[t].row \in rows
    BY <1>0 DEF PgInv, PgTypeOK, CallsAreBacked
  <2>2. Append(tree[ProcessOf(t)], call[t].row) \in Seq(rows)
    BY <2>1, ThreadHasProcess
  <2>. QED  BY <1>0, <2>1, <2>2
<1>1. PgTypeOK'
  BY <1>0, <1>5 DEF PgInv, PgTypeOK
<1>2. CallsAreBacked'
  BY <1>0 DEF PgInv, CallsAreBacked
<1>3. TailIsFree'
  BY <1>0 DEF PgInv, NoRowForgotten, TailIsFree, At
<1>4. (rows \subseteq ToSet(log) \cup lost \cup LostBy(Thread))'
  <2>1. LostBy({t}) = {}
    BY <1>0 DEF LostBy
  <2>. QED  BY <1>0, <2>1, NothingForgotten
<1>. QED  BY <1>1, <1>2, <1>3, <1>4 DEF PgInv, NoRowForgotten

LEMMA IndexLeafKeeps ==
  ASSUME PgInv, NEW t \in Thread, IndexLeaf(t)
  PROVE  PgInv'
<1>0. /\ call' = [call EXCEPT ![t] = Idle]
      /\ call[t] \in Call /\ call[t].at = "index" /\ Idle.at = "idle"
      /\ call'[t] = Idle /\ \A u \in Thread : u # t => call'[u] = call[u]
      /\ leafOf' = [leafOf EXCEPT ![ProcessOf(t)][call[t].row.fp] = call[t].leafIndex]
      /\ UNCHANGED <<rows, log, leafLock, tree, failures, lost, solo>>
  BY CallShape DEF PgInv, IndexLeaf, At, Idle
<1>5. leafOf' \in [Process -> [Fingerprint -> 0..Len(log)]]
  <2>1. /\ leafOf \in [Process -> [Fingerprint -> 0..Len(log)]]
        /\ call[t].leafIndex \in 0..Len(log)
        /\ call[t].row.fp \in Fingerprint
        /\ ProcessOf(t) \in Process
    <3>1. call[t].leafIndex \in 1..Len(log) /\ Len(log) \in Nat
      BY <1>0 DEF PgInv, PgTypeOK, CallsAreBacked
    <3>2. call[t].row.fp \in Fingerprint
      BY <1>0 DEF Call, Row
    <3>. QED  BY <3>1, <3>2, ThreadHasProcess DEF PgInv, PgTypeOK
  <2>2. [leafOf[ProcessOf(t)] EXCEPT ![call[t].row.fp] = call[t].leafIndex]
           \in [Fingerprint -> 0..Len(log)]
    BY <2>1
  <2>3. leafOf' = [leafOf EXCEPT ![ProcessOf(t)] =
                     [leafOf[ProcessOf(t)] EXCEPT ![call[t].row.fp] = call[t].leafIndex]]
    BY <1>0
  <2>. QED  BY <2>1, <2>2, <2>3
<1>1. PgTypeOK'
  BY <1>0, <1>5 DEF PgInv, PgTypeOK
<1>2. CallsAreBacked'
  BY <1>0 DEF PgInv, CallsAreBacked
<1>3. TailIsFree'
  BY <1>0 DEF PgInv, NoRowForgotten, TailIsFree, At
<1>4. (rows \subseteq ToSet(log) \cup lost \cup LostBy(Thread))'
  <2>1. LostBy({t}) = {}
    BY <1>0 DEF LostBy
  <2>. QED  BY <1>0, <2>1, NothingForgotten
<1>. QED  BY <1>1, <1>2, <1>3, <1>4 DEF PgInv, NoRowForgotten

(* A failed transaction gives the lock back and leaves no row behind that   *)
(* is not accounted for.                                                    *)
LEMMA FailKeeps ==
  ASSUME PgInv, NEW t \in Thread, Fail(t)
  PROVE  PgInv'
<1>0. /\ call' = [call EXCEPT ![t] = Idle] /\ Idle.at = "idle"
      /\ call'[t] = Idle /\ \A u \in Thread : u # t => call'[u] = call[u]
      /\ leafLock' = IF leafLock = t THEN NoThread ELSE leafLock
      /\ lost' = lost \cup LostBy({t})
      /\ failures' \in 0..MaxFailures
      /\ UNCHANGED <<rows, log, tree, leafOf>>
  BY CallShape, PostgresAssumption DEF PgInv, PgTypeOK, Fail, Idle
<1>5. solo' \in [Process -> BOOLEAN]
  <2>1. solo' = [p \in Process |-> solo[p] /\ ~(p = ProcessOf(t) /\ At(t, "tree"))]
    BY DEF Fail
  <2>. QED  BY <2>1, Zenon
<1>6. LostBy({t}) \subseteq rows
  BY DEF PgInv, CallsAreBacked, LostBy
<1>1. PgTypeOK'
  BY <1>0, <1>5, <1>6 DEF PgInv, PgTypeOK
<1>2. CallsAreBacked'
  BY <1>0 DEF PgInv, CallsAreBacked
<1>3. TailIsFree'
  BY <1>0 DEF PgInv, NoRowForgotten, TailIsFree, At
<1>4. (rows \subseteq ToSet(log) \cup lost \cup LostBy(Thread))'
  BY <1>0, NothingForgotten
<1>. QED  BY <1>1, <1>2, <1>3, <1>4 DEF PgInv, NoRowForgotten

(* A process that dies takes its calls with it and its lock is released;    *)
(* what its successor rebuilds is the committed log.                        *)
LEMMA RestartKeeps ==
  ASSUME PgInv, NEW p \in Process, Restart(p)
  PROVE  PgInv'
<1>. DEFINE threads == {t \in Thread : ProcessOf(t) = p}
<1>0. /\ \A t \in Thread : call'[t] = IF t \in threads THEN Idle ELSE call[t]
      /\ call' \in [Thread -> Call \cup {Idle}]
      /\ Idle.at = "idle"
      /\ leafLock' = IF leafLock \in threads THEN NoThread ELSE leafLock
      /\ lost' = lost \cup LostBy(threads)
      /\ tree' = [tree EXCEPT ![p] = log]
      /\ leafOf' = [leafOf EXCEPT ![p] = [f \in Fingerprint |-> LastLeafOf(f)]]
      /\ solo' = [solo EXCEPT ![p] = TRUE]
      /\ UNCHANGED <<rows, log, failures>>
  BY DEF PgInv, PgTypeOK, Restart, Idle
<1>5. leafOf' \in [Process -> [Fingerprint -> 0..Len(log)]]
  <2>1. leafOf \in [Process -> [Fingerprint -> 0..Len(log)]] /\ Len(log) \in Nat
    BY DEF PgInv, PgTypeOK
  <2>2. [f \in Fingerprint |-> LastLeafOf(f)] \in [Fingerprint -> 0..Len(log)]
    BY <2>1, LastLeafIsInLog
  <2>. QED  BY <1>0, <2>1, <2>2
<1>6. LostBy(threads) \subseteq rows
  BY DEF PgInv, CallsAreBacked, LostBy
<1>7. tree' \in [Process -> Seq(rows)] /\ solo' \in [Process -> BOOLEAN]
  BY <1>0 DEF PgInv, PgTypeOK
<1>1. PgTypeOK'
  BY <1>0, <1>5, <1>6, <1>7 DEF PgInv, PgTypeOK
<1>2. CallsAreBacked'
  BY <1>0 DEF PgInv, CallsAreBacked
<1>3. TailIsFree'
  BY <1>0 DEF PgInv, NoRowForgotten, TailIsFree, At
<1>4. (rows \subseteq ToSet(log) \cup lost \cup LostBy(Thread))'
  BY <1>0 DEF PgInv, NoRowForgotten, LostBy
<1>. QED  BY <1>1, <1>2, <1>3, <1>4 DEF PgInv, NoRowForgotten

LEMMA StepKeepsPgInv == PgInv /\ [PgNext]_pgVars => PgInv'
<1>. SUFFICES ASSUME PgInv, [PgNext]_pgVars PROVE PgInv'
  OBVIOUS
<1>1. CASE \E t \in Thread, r \in Row : CheckExists(t, r)
  BY <1>1, CheckExistsKeeps
<1>2. ASSUME NEW t \in Thread,
             BaseAdd(t) \/ LockTail(t) \/ InsertLeaf(t) \/ AppendTree(t) \/ IndexLeaf(t) \/ Fail(t)
      PROVE  PgInv'
  BY <1>2, BaseAddKeeps, LockTailKeeps, InsertLeafKeeps, AppendTreeKeeps, IndexLeafKeeps, FailKeeps
<1>3. CASE \E p \in Process : Restart(p)
  BY <1>3, RestartKeeps
<1>4. CASE UNCHANGED pgVars
  BY <1>4 DEF pgVars, PgInv, PgTypeOK, CallsAreBacked, NoRowForgotten, TailIsFree, At, LostBy
<1>. QED  BY <1>1, <1>2, <1>3, <1>4 DEF PgNext

-----------------------------------------------------------------------------
(* Theorems.                                                               *)

(* The inductive invariant of the log of merkle_postgres_index.py. *)
THEOREM PgInvariant == PgSpec => []PgInv
BY InitEstablishes, StepKeepsPgInv, PTL DEF PgSpec

(* The tables and the memory of every process keep their types: the log and *)
(* every tree hold rows of the index only, and every dictionary entry is a  *)
(* position of the log, through failures and restarts.                      *)
THEOREM PgTypeCorrect == PgSpec => []PgTypeOK
<1>1. PgInv => PgTypeOK
  BY DEF PgInv
<1>. QED  BY <1>1, PgInvariant, PTL

(* The advisory lock does what the module claims, that concurrent writers   *)
(* "do not race on the tail of the log", and a row misses its leaf only if  *)
(* a call failed after the base class' commit: for any number of processes, *)
(* threads and failures.                                                    *)
THEOREM EveryRowIsLogged == PgSpec => []NoRowForgotten
<1>1. PgInv => NoRowForgotten
  BY DEF PgInv
<1>. QED  BY <1>1, PgInvariant, PTL

-----------------------------------------------------------------------------
(* The log only grows.                                                     *)

(* What no add(), failure or restart may do to provenex_merkle_leaves:      *)
(* change or remove a leaf, or add more than one.                           *)
LogExtends ==
    /\ Len(log) <= Len(log') /\ Len(log') <= Len(log) + 1
    /\ \A i \in 1..Len(log) : log'[i] = log[i]

LEMMA StepExtendsLog == PgInv /\ [PgNext]_pgVars => [LogExtends]_log
<1>. SUFFICES ASSUME PgInv, PgNext, log' # log PROVE LogExtends
  BY DEF pgVars
<1>1. PICK t \in Thread : InsertLeaf(t)
  BY DEF PgNext, CheckExists, BaseAdd, LockTail, AppendTree, IndexLeaf, Fail, Restart
<1>2. log' = Append(log, call[t].row) /\ log \in Seq(rows) /\ call[t].row \in rows
  BY <1>1 DEF InsertLeaf, At, PgInv, PgTypeOK, CallsAreBacked
<1>. QED  BY <1>2 DEF LogExtends

(* A committed leaf stays where it is, so every root a process ever handed  *)
(* out for a prefix of the table is extended by all later ones.             *)
THEOREM LogIsAppendOnly == PgSpec => [][LogExtends]_log
BY PgInvariant, StepExtendsLog, PTL DEF PgSpec

-----------------------------------------------------------------------------
(* A process that writes alone.                                            *)

(* While a process is the only writer and its calls do not overlap between  *)
(* commit and append, at most one leaf is unpublished, and the tree and the *)
(* dictionary lag behind the log by that leaf at most.                      *)
SoloShapeOf(p) ==
    /\ \A t, u \in Unpublished(p) : t = u
    /\ Unpublished(p) = {} =>
           /\ tree[p] = log
           /\ \A f \in Fingerprint : leafOf[p][f] = LastLeafOf(f)
    /\ \A t \in Unpublished(p) :
           /\ log # <<>> /\ call[t].leafIndex = Len(log) /\ call[t].row = log[Len(log)]
           /\ \A f \in Fingerprint : f # call[t].row.fp => leafOf[p][f] = LastLeafOf(f)
           /\ At(t, "tree") => /\ log = Append(tree[p], call[t].row)
                               /\ \A f \in Fingerprint : leafOf[p][f] <= Len(tree[p])
           /\ At(t, "index") => tree[p] = log

SoloShape == \A p \in Process : solo[p] => SoloShapeOf(p)

(* The position SelectLastInSeq finds is the one nothing follows. *)
LEMMA LastLeafIs ==
  ASSUME Len(log) \in Nat, NEW f, NEW m \in 1..Len(log), log[m].fp = f,
         \A i \in 1..Len(log) : log[i].fp = f => i <= m
  PROVE  LastLeafOf(f) = m
<1>. DEFINE I == {i \in 1..Len(log) : log[i].fp = f}
<1>1. LastLeafOf(f) = IF I # {} THEN Max(I) ELSE 0
  BY DEF LastLeafOf, SelectLastInSeq
<1>2. m \in I /\ \A i \in I : i <= m /\ i \in Int
  OBVIOUS
<1>3. \A x \in I : (\A y \in I : x >= y) <=> x = m
  BY <1>2
<1>4. Max(I) = m
  <2>. HIDE DEF I
  <2>. QED  BY <1>2, <1>3 DEF Max
<1>. QED  BY <1>1, <1>2, <1>4

LEMMA SameLogSameLast ==
  ASSUME log' = log, NEW f
  PROVE  LastLeafOf(f)' = LastLeafOf(f)
BY DEF LastLeafOf, SelectLastInSeq

(* A new leaf changes the last position of its own fingerprint only. *)
LEMMA OtherLastLeafStays ==
  ASSUME NEW r, Len(log) \in Nat, Len(log') = Len(log) + 1,
         \A i \in 1..Len(log) : log'[i] = log[i], log'[Len(log) + 1] = r,
         NEW f, f # r.fp
  PROVE  LastLeafOf(f)' = LastLeafOf(f)
<1>. DEFINE I == {i \in 1..Len(log) : log[i].fp = f}
            J == {i \in 1..Len(log') : log'[i].fp = f}
<1>1. LastLeafOf(f) = IF I # {} THEN Max(I) ELSE 0
  BY DEF LastLeafOf, SelectLastInSeq
<1>2. LastLeafOf(f)' = IF J # {} THEN Max(J) ELSE 0
  BY DEF LastLeafOf, SelectLastInSeq
<1>3. I = J
  OBVIOUS
<1>. QED  BY <1>1, <1>2, <1>3

(* A step of thread t that leaves log, trees and dictionaries alone matters *)
(* only to the processes among whose unpublished calls t is.                *)
LEMMA ElsewhereKeepsSolo ==
  ASSUME SoloShape, NEW t \in Thread,
         \A u \in Thread : u # t => call'[u] = call[u],
         \A p \in Process : solo'[p] => solo[p] /\ t \notin Unpublished(p) /\ t \notin Unpublished(p)',
         UNCHANGED <<log, tree, leafOf>>
  PROVE  SoloShape'
<1>. SUFFICES ASSUME NEW p \in Process, solo'[p]
              PROVE  /\ Unpublished(p)' = Unpublished(p)
                     /\ \A u \in Unpublished(p) : call'[u] = call[u]
                     /\ \A f : LastLeafOf(f)' = LastLeafOf(f)
  BY DEF SoloShape, SoloShapeOf, At
<1>1. /\ solo[p] /\ t \notin Unpublished(p) /\ t \notin Unpublished(p)'
      /\ Unpublished(p) \subseteq Thread
  BY DEF Unpublished
<1>2. Unpublished(p)' = Unpublished(p)
  BY <1>1 DEF Unpublished
<1>3. \A f : LastLeafOf(f)' = LastLeafOf(f)
  BY SameLogSameLast
<1>. QED  BY <1>1, <1>2, <1>3

LEMMA InsertLeafKeepsSolo ==
  ASSUME PgInv, SoloShape, NEW t \in Thread, InsertLeaf(t)
  PROVE  SoloShape'
<1>. DEFINE me == ProcessOf(t)
            r == call[t].row
<1>1. /\ call[t] \in Call /\ call[t].at = "insert" /\ call[t].leafIndex = Len(log) + 1
      /\ log \in Seq(rows) /\ r \in rows /\ Len(log) \in Nat
      /\ log' = Append(log, r) /\ tree' = tree /\ leafOf' = leafOf
      /\ call'[t].at = "tree" /\ call'[t].row = r /\ call'[t].leafIndex = Len(log) + 1
      /\ \A u \in Thread : u # t => call'[u] = call[u]
  BY CallShape DEF PgInv, PgTypeOK, CallsAreBacked, NoRowForgotten, TailIsFree, InsertLeaf,
     At, Move, Call
<1>2. \A p \in Process : solo'[p] => solo[p] /\ p = me /\ Unpublished(me) = {}
  <2>1. solo' = [p \in Process |-> solo[p] /\ p = me /\ Unpublished(me) = {}]
    BY DEF InsertLeaf
  <2>. QED  BY <2>1, Zenon
<1>. SUFFICES ASSUME NEW p \in Process, solo'[p]
              PROVE  SoloShapeOf(p)'
  BY DEF SoloShape
<1>3. solo[p] /\ p = me /\ Unpublished(p) = {}
  BY <1>2
<1>4. Unpublished(p)' = {t}
  BY <1>1, <1>3 DEF Unpublished
<1>5. tree[p] = log /\ \A f \in Fingerprint : leafOf[p][f] = LastLeafOf(f)
  BY <1>3 DEF SoloShape, SoloShapeOf
<1>6. /\ log' # <<>> /\ Len(log') = Len(log) + 1 /\ log'[Len(log) + 1] = r
      /\ \A i \in 1..Len(log) : log'[i] = log[i]
  BY <1>1
<1>7. \A f \in Fingerprint : f # r.fp => LastLeafOf(f)' = LastLeafOf(f)
  BY <1>1, <1>6, OtherLastLeafStays
<1>8. log' = Append(tree'[p], r) /\ \A f \in Fingerprint : f # r.fp => leafOf'[p][f] = LastLeafOf(f)'
  BY <1>1, <1>5, <1>7
<1>9. \A f \in Fingerprint : leafOf'[p][f] <= Len(tree'[p])
  <2>1. \A f \in Fingerprint : leafOf[p][f] \in 0..Len(log)
    BY DEF PgInv, PgTypeOK
  <2>. QED  BY <1>1, <1>5, <2>1
<1>. QED  BY <1>1, <1>4, <1>6, <1>8, <1>9 DEF SoloShapeOf, At

LEMMA AppendTreeKeepsSolo ==
  ASSUME PgInv, SoloShape, NEW t \in Thread, AppendTree(t)
  PROVE  SoloShape'
<1>1. /\ call[t] \in Call /\ call[t].at = "tree" /\ ProcessOf(t) \in Process
      /\ tree' = [tree EXCEPT ![ProcessOf(t)] = Append(@, call[t].row)]
      /\ tree \in [Process -> Seq(rows)]
      /\ log' = log /\ leafOf' = leafOf /\ solo' = solo
      /\ call'[t].at = "index" /\ call'[t].row = call[t].row
      /\ call'[t].leafIndex = call[t].leafIndex
      /\ \A u \in Thread : u # t => call'[u] = call[u]
  BY CallShape, ThreadHasProcess DEF PgInv, PgTypeOK, AppendTree, At, Move, Call
<1>2. \A f : LastLeafOf(f)' = LastLeafOf(f)
  BY <1>1, SameLogSameLast
<1>3. \A p \in Process : Unpublished(p)' = Unpublished(p)
  BY <1>1 DEF Unpublished
<1>. SUFFICES ASSUME NEW p \in Process, solo[p]
              PROVE  SoloShapeOf(p)'
  BY <1>1 DEF SoloShape
<1>4. SoloShapeOf(p)
  BY DEF SoloShape
<1>5. CASE ProcessOf(t) = p
  <2>1. t \in Unpublished(p)
    BY <1>1, <1>5 DEF Unpublished
  <2>2. Unpublished(p) = {t} /\ log = Append(tree[p], call[t].row)
    BY <1>1, <1>4, <2>1 DEF SoloShapeOf, At
  <2>3. tree'[p] = log
    BY <1>1, <1>5, <2>2
  <2>4. /\ log # <<>> /\ call[t].leafIndex = Len(log) /\ call[t].row = log[Len(log)]
        /\ \A f \in Fingerprint : f # call[t].row.fp => leafOf[p][f] = LastLeafOf(f)
    BY <1>4, <2>1 DEF SoloShapeOf
  <2>5. Unpublished(p)' = {t} /\ leafOf'[p] = leafOf[p] /\ ~ At(t, "tree")'
    BY <1>1, <1>3, <2>2 DEF At
  <2>. QED  BY <1>1, <1>2, <2>3, <2>4, <2>5 DEF SoloShapeOf
<1>6. CASE ProcessOf(t) # p
  <2>1. \A u \in Unpublished(p) : call'[u] = call[u]
    BY <1>1, <1>6 DEF Unpublished
  <2>2. tree'[p] = tree[p] /\ leafOf'[p] = leafOf[p] /\ Unpublished(p) \subseteq Thread
    BY <1>1, <1>6 DEF Unpublished
  <2>3. Unpublished(p)' = Unpublished(p) /\ log' = log
    BY <1>1, <1>3
  <2>. QED  BY <1>2, <1>4, <2>1, <2>2, <2>3 DEF SoloShapeOf, At
<1>. QED  BY <1>5, <1>6

LEMMA IndexLeafKeepsSolo ==
  ASSUME PgInv, SoloShape, NEW t \in Thread, IndexLeaf(t)
  PROVE  SoloShape'
<1>. DEFINE me == ProcessOf(t)
            r == call[t].row
<1>1. /\ call[t].at = "index" /\ me \in Process /\ r.fp \in Fingerprint
      /\ leafOf \in [Process -> [Fingerprint -> 0..Len(log)]] /\ Len(log) \in Nat
      /\ leafOf' = [leafOf EXCEPT ![me][r.fp] = call[t].leafIndex]
      /\ log' = log /\ tree' = tree /\ solo' = solo
      /\ call'[t].at = "idle"
      /\ \A u \in Thread : u # t => call'[u] = call[u]
  <2>1. call[t] \in Call
    BY CallShape DEF PgInv, IndexLeaf, At
  <2>2. r.fp \in Fingerprint
    BY <2>1 DEF Call, Row
  <2>. QED  BY <2>2, CallShape, ThreadHasProcess DEF PgInv, PgTypeOK, IndexLeaf, At, Idle
<1>2. \A f : LastLeafOf(f)' = LastLeafOf(f)
  BY <1>1, SameLogSameLast
<1>3. \A p \in Process : p # me => Unpublished(p)' = Unpublished(p) /\ leafOf'[p] = leafOf[p]
                                   /\ \A u \in Unpublished(p) : call'[u] = call[u]
  BY <1>1 DEF Unpublished
<1>4. ASSUME solo[me]
      PROVE  /\ Unpublished(me)' = {} /\ tree[me] = log
             /\ \A f \in Fingerprint : leafOf'[me][f] = LastLeafOf(f)
  <2>1. t \in Unpublished(me)
    BY <1>1 DEF Unpublished
  <2>2. Unpublished(me) = {t}
    BY <1>4, <1>1, <2>1 DEF SoloShape, SoloShapeOf
  <2>3. /\ tree[me] = log /\ log # <<>>
        /\ call[t].leafIndex = Len(log) /\ r = log[Len(log)]
        /\ \A f \in Fingerprint : f # r.fp => leafOf[me][f] = LastLeafOf(f)
    BY <1>4, <1>1, <2>1 DEF SoloShape, SoloShapeOf, At
  <2>4. Unpublished(me)' = {}
    BY <1>1, <2>2 DEF Unpublished
  <2>5. Len(log) \in 1..Len(log)
    BY <1>1, <2>3 DEF PgInv, PgTypeOK
  <2>6. LastLeafOf(r.fp) = Len(log)
    BY <1>1, <2>3, <2>5, LastLeafIs
  <2>. QED  BY <1>1, <2>3, <2>4, <2>6
<1>5. ASSUME NEW p \in Process, solo[p], p # me PROVE SoloShapeOf(p)'
  <2>1. /\ SoloShapeOf(p) /\ tree'[p] = tree[p] /\ log' = log /\ leafOf'[p] = leafOf[p]
        /\ Unpublished(p)' = Unpublished(p) /\ \A u \in Unpublished(p) : call'[u] = call[u]
    BY <1>1, <1>3, <1>5 DEF SoloShape
  <2>. QED  BY <1>2, <2>1 DEF SoloShapeOf, At
<1>6. solo[me] => SoloShapeOf(me)'
  BY <1>1, <1>2, <1>4 DEF SoloShapeOf
<1>. QED  BY <1>1, <1>5, <1>6 DEF SoloShape

LEMMA FailKeepsSolo ==
  ASSUME PgInv, SoloShape, NEW t \in Thread, Fail(t)
  PROVE  SoloShape'
<1>1. /\ UNCHANGED <<log, tree, leafOf>>
      /\ call'[t].at = "idle" /\ call[t].at # "index"
      /\ \A u \in Thread : u # t => call'[u] = call[u]
  BY CallShape DEF PgInv, Fail, Idle
<1>2. \A p \in Process : solo'[p] => solo[p] /\ ~(p = ProcessOf(t) /\ At(t, "tree"))
  <2>1. solo' = [p \in Process |-> solo[p] /\ ~(p = ProcessOf(t) /\ At(t, "tree"))]
    BY DEF Fail
  <2>. QED  BY <2>1, Zenon
<1>3. \A p \in Process : solo'[p] => solo[p] /\ t \notin Unpublished(p) /\ t \notin Unpublished(p)'
  BY <1>1, <1>2 DEF Unpublished, At
<1>. QED  BY <1>1, <1>3, ElsewhereKeepsSolo

LEMMA RestartKeepsSolo ==
  ASSUME PgInv, SoloShape, NEW p \in Process, Restart(p)
  PROVE  SoloShape'
<1>1. /\ \A t \in Thread : call'[t] = IF ProcessOf(t) = p THEN Idle ELSE call[t]
      /\ Idle.at = "idle"
      /\ tree' = [tree EXCEPT ![p] = log] /\ DOMAIN tree = Process
      /\ leafOf' = [leafOf EXCEPT ![p] = [f \in Fingerprint |-> LastLeafOf(f)]]
      /\ DOMAIN leafOf = Process
      /\ solo' = [solo EXCEPT ![p] = TRUE] /\ log' = log
  BY DEF PgInv, PgTypeOK, Restart, Idle
<1>2. \A f : LastLeafOf(f)' = LastLeafOf(f)
  BY <1>1, SameLogSameLast
<1>. SUFFICES ASSUME NEW q \in Process, solo'[q] PROVE SoloShapeOf(q)'
  BY DEF SoloShape
<1>3. CASE q = p
  <2>1. Unpublished(p)' = {}
    BY <1>1 DEF Unpublished
  <2>2. tree'[p] = log /\ \A f \in Fingerprint : leafOf'[p][f] = LastLeafOf(f)
    BY <1>1
  <2>. QED  BY <1>1, <1>2, <1>3, <2>1, <2>2 DEF SoloShapeOf
<1>4. CASE q # p
  <2>1. /\ Unpublished(q)' = Unpublished(q)
        /\ \A u \in Unpublished(q) : call'[u] = call[u]
    BY <1>1, <1>4 DEF Unpublished
  <2>2. SoloShapeOf(q) /\ tree'[q] = tree[q] /\ leafOf'[q] = leafOf[q]
    BY <1>1, <1>4 DEF SoloShape, PgInv, PgTypeOK
  <2>. QED  BY <1>1, <1>2, <2>1, <2>2 DEF SoloShapeOf, At
<1>. QED  BY <1>3, <1>4

LEMMA StepKeepsSolo == PgInv /\ SoloShape /\ [PgNext]_pgVars => SoloShape'
<1>. SUFFICES ASSUME PgInv, SoloShape, [PgNext]_pgVars PROVE SoloShape'
  OBVIOUS
<1>1. ASSUME NEW t \in Thread, NEW r \in Row, CheckExists(t, r) PROVE SoloShape'
  <2>1. /\ \A u \in Thread : u # t => call'[u] = call[u]
        /\ call[t].at = "idle" /\ call'[t].at = "base"
        /\ UNCHANGED <<log, tree, leafOf, solo>>
    BY <1>1 DEF CheckExists, At, PgInv, PgTypeOK
  <2>. QED  BY <2>1, ElsewhereKeepsSolo DEF Unpublished
<1>2. ASSUME NEW t \in Thread, BaseAdd(t) PROVE SoloShape'
  <2>1. /\ \A u \in Thread : u # t => call'[u] = call[u]
        /\ call[t].at = "base" /\ call'[t].at \in {"idle", "leaf"}
        /\ UNCHANGED <<log, tree, leafOf, solo>>
    BY <1>2, CallShape DEF BaseAdd, At, Move, PgInv, Call, Idle
  <2>. QED  BY <2>1, ElsewhereKeepsSolo DEF Unpublished
<1>3. ASSUME NEW t \in Thread, LockTail(t) PROVE SoloShape'
  <2>1. /\ \A u \in Thread : u # t => call'[u] = call[u]
        /\ call[t].at = "leaf" /\ call'[t].at = "insert"
        /\ UNCHANGED <<log, tree, leafOf, solo>>
    BY <1>3, CallShape DEF LockTail, At, PgInv, Call
  <2>. QED  BY <2>1, ElsewhereKeepsSolo DEF Unpublished
<1>4. CASE UNCHANGED pgVars
  <2>1. \A f : LastLeafOf(f)' = LastLeafOf(f)
    BY <1>4, SameLogSameLast DEF pgVars
  <2>. QED  BY <1>4, <2>1 DEF pgVars, SoloShape, SoloShapeOf, Unpublished, At
<1>. QED  BY <1>1, <1>2, <1>3, <1>4, InsertLeafKeepsSolo, AppendTreeKeepsSolo, IndexLeafKeepsSolo,
             FailKeepsSolo, RestartKeepsSolo DEF PgNext

LEMMA InitIsSolo == PgInit => SoloShape
<1>. SUFFICES ASSUME PgInit, NEW p \in Process PROVE SoloShapeOf(p)
  BY DEF SoloShape
<1>1. Unpublished(p) = {} /\ tree[p] = log /\ Len(log) = 0
  BY DEF PgInit, Unpublished, Idle
<1>2. \A f \in Fingerprint : leafOf[p][f] = 0 /\ LastLeafOf(f) \in 0..0
  BY <1>1, LastLeafIsInLog DEF PgInit
<1>. QED  BY <1>1, <1>2 DEF SoloShapeOf

(* A solo process' tree is the log, or the log without its newest leaf, and *)
(* no dictionary entry is past the tree.                                    *)
LEMMA SoloTree ==
  ASSUME PgInv, NEW p \in Process, SoloShapeOf(p)
  PROVE  /\ tree[p] \in Seq(rows) /\ log \in Seq(rows) /\ Len(tree[p]) <= Len(log)
         /\ \A i \in 1..Len(tree[p]) : log[i] = tree[p][i]
         /\ \A f \in Fingerprint : leafOf[p][f] \in 0..Len(tree[p])
<1>1. tree[p] \in Seq(rows) /\ log \in Seq(rows)
      /\ \A f \in Fingerprint : leafOf[p][f] \in 0..Len(log)
  BY DEF PgInv, PgTypeOK
<1>2. CASE tree[p] = log
  BY <1>1, <1>2
<1>3. ASSUME NEW t \in Unpublished(p), log = Append(tree[p], call[t].row),
             \A f \in Fingerprint : leafOf[p][f] <= Len(tree[p])
      PROVE  /\ Len(tree[p]) <= Len(log)
             /\ \A i \in 1..Len(tree[p]) : log[i] = tree[p][i]
             /\ \A f \in Fingerprint : leafOf[p][f] \in 0..Len(tree[p])
  BY <1>1, <1>3
<1>. QED  BY <1>1, <1>2, <1>3 DEF SoloShapeOf, Unpublished, At

(* For any number of processes, threads, failures and restarts: a process   *)
(* that writes alone, and whose calls do not overlap between commit and     *)
(* append, hands out the root of a prefix of the committed log, and every   *)
(* proof it makes verifies against that root.                               *)
THEOREM SoloProofsVerify == PgSpec => []SoloProofVerifies
<1>1. PgInv /\ SoloShape => SoloProofVerifies
  <2>. SUFFICES ASSUME PgInv, NEW p \in Process, SoloShapeOf(p)
                PROVE  /\ TreeIsLog(p)
                       /\ \A f \in Fingerprint :
                             /\ ProofOfProcessVerifies(p, f)
                             /\ Unpublished(p) = {} => leafOf[p][f] = LastLeafOf(f)
    BY DEF SoloShape, SoloProofVerifies
  <2>1. /\ tree[p] \in Seq(rows) /\ log \in Seq(rows) /\ Len(tree[p]) <= Len(log)
        /\ \A i \in 1..Len(tree[p]) : log[i] = tree[p][i]
        /\ \A f \in Fingerprint : leafOf[p][f] \in 0..Len(tree[p])
    BY SoloTree
  <2>2. IsPrefix(tree[p], log)
    <3>. DEFINE front == SubSeq(log, 1, Len(tree[p]))
    <3>1. front \in Seq(rows) /\ Len(front) = Len(tree[p]) /\ \A i \in 1..Len(tree[p]) : front[i] = log[i]
      BY <2>1
    <3>2. SubSeq(tree[p], 1, Len(tree[p])) = tree[p]
      BY <2>1
    <3>. HIDE DEF front
    <3>3. front = tree[p]
      BY <2>1, <3>1, SeqEqual
    <3>. QED  BY <2>1, <3>2, <3>3 DEF IsPrefix, front
  <2>3. TreeIsLog(p)
    BY <2>2 DEF TreeIsLog, SoloShapeOf
  <2>4. ASSUME NEW f \in Fingerprint, leafOf[p][f] # 0 PROVE ProofOfProcessVerifies(p, f)
    <3>. DEFINE m == leafOf[p][f] - 1
    <3>1. leafOf[p][f] \in 1..Len(tree[p]) /\ m \in 0..(Len(tree[p]) - 1) /\ m + 1 = leafOf[p][f]
      BY <2>1, <2>4
    <3>2. log[leafOf[p][f]] = tree[p][m + 1]
      BY <2>1, <3>1
    <3>3. VerifyInclusion(tree[p][m + 1], m, Len(tree[p]), AuditPath(tree[p], m), TreeRoot(tree[p]))
      BY <2>1, <3>1, AuditPathVerifies
    <3>4. leafOf[p][f] <= Len(tree[p])
      BY <2>1, <3>1
    <3>. QED  BY <3>2, <3>3, <3>4 DEF ProofOfProcessVerifies
  <2>5. \A f \in Fingerprint : Unpublished(p) = {} => leafOf[p][f] = LastLeafOf(f)
    BY DEF SoloShapeOf
  <2>. QED  BY <2>3, <2>4, <2>5 DEF ProofOfProcessVerifies
<1>. QED  BY <1>1, InitIsSolo, PgInvariant, StepKeepsSolo, PTL DEF PgSpec
===============================================================================
