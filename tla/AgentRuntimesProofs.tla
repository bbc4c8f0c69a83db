-------------------------- MODULE AgentRuntimesProofs --------------------------
(***************************************************************************)
(* Proofs about the runtimes that issue receipts along a trajectory, for   *)
(* any number of threads, branches and receipts, and about the audit of    *)
(* what they leave behind.                                                 *)
(*                                                                         *)
(* First the audit, for every archive and every order the search may take  *)
(* through it.  The strengthening (`AuditInv`) is that of a depth-first    *)
(* search: the gray receipts are those on the stack, each frame but the    *)
(* first is a parent of the one below it, the parents a frame no longer    *)
(* lists are black or next on the stack, the black receipts are closed     *)
(* under parents and hold no cycle.                                        *)
(*                                                                         *)
(* Then the runtimes.  Every cursor, stored or read, names receipts that   *)
(* were issued (`Cursors`); the calls under way respect the bound          *)
(* (`Room`); what was published is a part of what was issued, in order     *)
(* (`Publications`); each receipt has one place where it is listed or      *)
(* about to be (`Listing`); and the archive handed to the audit is what    *)
(* its origin says (`Archive`).                                            *)
(*                                                                         *)
(* Then what holds as long as no two calls overlap.  A session is a story  *)
(* because the call under way holds the session's own cursor, no receipt   *)
(* is as late as that cursor, and only a call that has issued but not yet  *)
(* stored is ahead of it (`Story`); and a graph's state is the record of   *)
(* the receipts, but for the one of a node that has not returned           *)
(* (`Linear`).  Last the types, which need the bound on the cursor that a  *)
(* call has read (`Steps`).                                                *)
(***************************************************************************)
EXTENDS AgentRuntimes, SequenceTheorems, FiniteSetTheorems, WellFoundedInduction, TLAPS

-----------------------------------------------------------------------------
(* The audit.                                                              *)

(* A set of naturals that is not empty has a least element. *)
LEMMA LeastElement ==
  ASSUME NEW T \in SUBSET Nat, T # {}
  PROVE  \E x \in T : \A y \in T : x <= y
<1>. DEFINE R == {ss \in Nat \X Nat : ss[1] < ss[2]}
<1>1. IsWellFoundedOn(R, Nat)
  BY NatLessThanWellFounded, Zenon DEF OpToRel
<1>2. PICK x \in T : \A y \in T : <<y, x>> \notin R
  BY <1>1, WFMin
<1>3. \A y \in T : ~ (y < x)
  BY <1>2
<1>. QED  BY <1>3

(* by_id has an entry for every receipt. *)
LEMMA LastFileExists ==
  ASSUME files \in Seq(File), NEW n \in Node
  PROVE  LastFile(n) \in DOMAIN files /\ files[LastFile(n)].id = n
<1>. DEFINE Is == {i \in DOMAIN files : files[i].id = n}
            T == {k \in Nat : \E i \in Is : k = Len(files) - i}
<1>1. Len(files) \in Nat /\ DOMAIN files = 1..Len(files)
  OBVIOUS
<1>2. PICK i0 \in DOMAIN files : files[i0].id = n
  BY DEF Node
<1>3. Len(files) - i0 \in T
  BY <1>1, <1>2
<1>4. PICK x \in T : \A y \in T : x <= y
  BY <1>3, LeastElement
<1>5. PICK i \in Is : x = Len(files) - i
  OBVIOUS
<1>6. \A j \in Is : j <= i
  <2>. SUFFICES ASSUME NEW j \in Is PROVE j <= i
    OBVIOUS
  <2>1. Len(files) - j \in T
    BY <1>1
  <2>. QED  BY <1>1, <1>4, <1>5, <2>1
<1>7. \E k \in DOMAIN files :
        files[k].id = n /\ \A j \in DOMAIN files : files[j].id = n => j <= k
  BY <1>5, <1>6
<1>. QED  BY <1>7 DEF LastFile

LEMMA ParentsType ==
  ASSUME files \in Seq(File)
  PROVE  Node \subseteq Id /\ \A n \in Node : Parents(n) \in SUBSET Id
<1>1. \A i \in DOMAIN files : files[i] \in File
  OBVIOUS
<1>2. Node \subseteq Id
  BY <1>1 DEF Node, File
<1>. QED  BY <1>1, <1>2, LastFileExists DEF Parents, File

-----------------------------------------------------------------------------
(* The inductive invariant.                                                *)

Fresh ==
    /\ stack = <<>> /\ cycleThrough = {}
    /\ \A n \in Node : color[n] = "white"

GrayIsOnStack ==
    /\ \A n \in Node : color[n] = "gray" <=> \E i \in DOMAIN stack : stack[i].node = n
    /\ \A i, j \in DOMAIN stack : stack[i].node = stack[j].node => i = j

StackIsPath ==
    \A i \in DOMAIN stack :
        /\ stack[i].todo \subseteq Parents(stack[i].node)
        /\ i > 1 => stack[i].node \in Parents(stack[i - 1].node)

FramesFollowed ==
    cycleThrough = {} =>
        \A i \in DOMAIN stack : \A p \in Parents(stack[i].node) \cap Node :
            \/ p \in stack[i].todo
            \/ color[p] = "black"
            \/ i < Len(stack) /\ p = stack[i + 1].node

Black == {n \in Node : color[n] = "black"}

BlackIsClosed == \A n \in Black : Parents(n) \cap Node \subseteq Black

BlackIsAcyclic == \A S \in SUBSET Black : ~ CyclicSet(S)

AuditInv ==
    /\ AuditTypeOK
    /\ audit \in {"idle", "begun", "alone"} => Fresh
    /\ audit \notin {"done", "reported"} => ~ passed
    /\ audit = "searching" => HasTrajectoryBlock /\ SharedTrajectoryId
    /\ GrayIsOnStack
    /\ StackIsPath
    /\ FramesFollowed
    /\ BlackIsClosed
    /\ BlackIsAcyclic
    /\ cycleThrough # {} => ~ Acyclic
    /\ VerdictIsExact

LEMMA InitAudit == AuditIdle => AuditInv
<1>. SUFFICES ASSUME AuditIdle PROVE AuditInv
  OBVIOUS
<1>. USE DEF AuditIdle
<1>1. Node = {} /\ DOMAIN stack = {}
  BY DEF Node
<1>2. AuditTypeOK
  <2>1. args \in Arguments /\ files \in Seq(File) /\ stack \in Seq([node : Node, todo : SUBSET Id])
    BY DEF Arguments
  <2>2. color \in [Node -> {"white", "gray", "black"}]
    BY <1>1
  <2>. QED  BY <2>1, <2>2 DEF AuditTypeOK
<1>3. Fresh /\ GrayIsOnStack /\ StackIsPath /\ FramesFollowed
  BY <1>1 DEF Fresh, GrayIsOnStack, StackIsPath, FramesFollowed
<1>4. Black = {}
  BY <1>1 DEF Black
<1>5. BlackIsClosed /\ BlackIsAcyclic
  BY <1>4 DEF BlackIsClosed, BlackIsAcyclic, CyclicSet
<1>. QED  BY <1>2, <1>3, <1>5 DEF AuditInv, VerdictIsExact

(* The operators on the archive do not read the state of the search. *)
LEMMA ArchiveFrame ==
  ASSUME UNCHANGED files
  PROVE  /\ Node' = Node
         /\ \A n : Parents(n)' = Parents(n)
         /\ Acyclic' = Acyclic
         /\ \A S : CyclicSet(S)' = CyclicSet(S)
         /\ HasTrajectoryBlock' = HasTrajectoryBlock
         /\ SharedTrajectoryId' = SharedTrajectoryId
BY DEF Node, Parents, LastFile, Acyclic, CyclicSet, HasTrajectoryBlock, SharedTrajectoryId

LEMMA SignaturesVouch ==
  ASSUME files \in Seq(File), EveryReceiptOk, ~ args.unsigned
  PROVE  \A i \in DOMAIN files :
            files[i].alg # "none" /\ files[i].intact /\ "invalid" \notin files[i].proofs
BY DEF EveryReceiptOk, SignatureOk, VerifyReceiptSignature, ProofsOk

(* A command begins with every receipt white. *)
Collected(fs, as) ==
    /\ audit = "idle" /\ audit' \in {"begun", "alone"}
    /\ files' = fs /\ args' = as
    /\ color' = [n \in {fs[i].id : i \in DOMAIN fs} |-> "white"]
    /\ UNCHANGED <<stack, cycleThrough, passed>>

LEMMA CollectOneCollects ==
  ASSUME NEW f \in File, NEW as \in Arguments, CollectOne(f, as)
  PROVE  <<f>> \in Seq(File) /\ Collected(<<f>>, as)
<1>1. {<<f>>[i].id : i \in DOMAIN <<f>>} = {f.id}
  <2>1. DOMAIN <<f>> = {1} /\ <<f>>[1] = f
    OBVIOUS
  <2>. QED  BY <2>1
<1>. QED  BY <1>1 DEF CollectOne, Collected

LEMMA CollectPreserves ==
  ASSUME AuditInv, NEW fs \in Seq(File), NEW as \in Arguments, Collected(fs, as)
  PROVE  AuditInv'
<1>1. /\ audit = "idle" /\ files' = fs /\ args' = as
      /\ audit' \in {"begun", "alone"}
      /\ stack' = stack /\ cycleThrough' = cycleThrough /\ passed' = passed
      /\ color' = [n \in {fs[i].id : i \in DOMAIN fs} |-> "white"]
  BY DEF Collected
<1>2. stack = <<>> /\ cycleThrough = {} /\ ~ passed
  BY <1>1 DEF AuditInv, Fresh
<1>3. Node' = {fs[i].id : i \in DOMAIN fs}
  BY <1>1 DEF Node
<1>4. AuditTypeOK'
  <2>1. color' \in [Node' -> {"white", "gray", "black"}]
    BY <1>1, <1>3
  <2>2. stack' \in Seq([node : Node', todo : SUBSET Id]) /\ cycleThrough' \subseteq Node'
    BY <1>1, <1>2
  <2>. QED  BY <1>1, <2>1, <2>2 DEF AuditInv, AuditTypeOK
<1>5. Fresh' /\ GrayIsOnStack' /\ StackIsPath' /\ FramesFollowed'
  BY <1>1, <1>2, <1>3 DEF Fresh, GrayIsOnStack, StackIsPath, FramesFollowed
<1>6. Black' = {}
  BY <1>1, <1>3 DEF Black
<1>7. BlackIsClosed' /\ BlackIsAcyclic'
  BY <1>6 DEF BlackIsClosed, BlackIsAcyclic, CyclicSet
<1>. QED  BY <1>1, <1>2, <1>4, <1>5, <1>7 DEF AuditInv, VerdictIsExact

-----------------------------------------------------------------------------
(* The steps that do not search.                                           *)

LEMMA VerdictPreserves ==
  ASSUME AuditInv, RefuseArchive \/ BeginSearch \/ Report \/ ReportOne
  PROVE  AuditInv'
<1>1. files' = files /\ args' = args /\ color' = color /\ stack' = stack /\ cycleThrough' = cycleThrough
  BY DEF RefuseArchive, BeginSearch, Report, ReportAcyclic, ReportOne
<1>2. /\ Node' = Node /\ (\A n : Parents(n)' = Parents(n)) /\ Acyclic' = Acyclic
      /\ \A S : CyclicSet(S)' = CyclicSet(S)
      /\ HasTrajectoryBlock' = HasTrajectoryBlock /\ SharedTrajectoryId' = SharedTrajectoryId
  BY <1>1, ArchiveFrame
<1>3. /\ EveryReceiptOk' = EveryReceiptOk /\ NoDanglingParents' = NoDanglingParents
      /\ HasRootStep' = HasRootStep
  BY <1>1, <1>2 DEF EveryReceiptOk, SignatureOk, VerifyReceiptSignature, ProofsOk,
                    NoDanglingParents, HasRootStep
<1>4. Black' = Black
  BY <1>1, <1>2 DEF Black
<1>5. GrayIsOnStack' /\ StackIsPath' /\ FramesFollowed' /\ BlackIsClosed' /\ BlackIsAcyclic'
  BY <1>1, <1>2, <1>4 DEF AuditInv, GrayIsOnStack, StackIsPath, FramesFollowed, BlackIsClosed, BlackIsAcyclic
<1>6. passed' \in BOOLEAN /\ audit' \in {"searching", "done", "reported"}
  <2>1. CASE RefuseArchive \/ BeginSearch
    BY <2>1 DEF AuditInv, AuditTypeOK, RefuseArchive, BeginSearch
  <2>2. CASE ReportOne
    BY <2>2, Zenon DEF ReportOne, EveryReceiptOk
  <2>3. CASE Report
    BY <2>3, Zenon DEF Report, ReportAcyclic
  <2>. QED  BY <2>1, <2>2, <2>3
<1>7. AuditTypeOK'
  BY <1>1, <1>2, <1>6 DEF AuditInv, AuditTypeOK
<1>8. files \in Seq(File)
  BY DEF AuditInv, AuditTypeOK
<1>9. /\ audit' = "searching" => ~ passed' /\ HasTrajectoryBlock' /\ SharedTrajectoryId'
      /\ VerdictIsExact'
  <2>1. CASE RefuseArchive
    BY <2>1, <1>2 DEF RefuseArchive, VerdictIsExact
  <2>2. CASE BeginSearch
    BY <2>2, <1>2 DEF BeginSearch, VerdictIsExact, AuditInv
  <2>3. CASE ReportOne
    BY <2>3, <1>1, <1>8, SignaturesVouch DEF ReportOne, VerdictIsExact
  <2>4. CASE Report
    <3>1. /\ audit = "searching" /\ audit' = "done"
          /\ passed' = (EveryReceiptOk /\ NoDanglingParents /\ Acyclic /\ HasRootStep)
      <4>1. CASE cycleThrough # {} /\ ReportAcyclic(FALSE)
        BY <4>1 DEF ReportAcyclic, AuditInv
      <4>2. CASE /\ cycleThrough = {} /\ stack = <<>>
                 /\ \A n \in Node : color[n] # "white"
                 /\ ReportAcyclic(TRUE)
        <5>1. \A n \in Node : color[n] # "gray"
          BY <4>2 DEF AuditInv, GrayIsOnStack
        <5>2. Black = Node
          BY <4>2, <5>1 DEF Black, AuditInv, AuditTypeOK
        <5>3. Acyclic
          BY <5>2 DEF AuditInv, BlackIsAcyclic, Acyclic
        <5>. QED  BY <4>2, <5>3 DEF ReportAcyclic
      <4>. QED  BY <2>4, <4>1, <4>2 DEF Report
    <3>. QED  BY <1>1, <1>2, <1>3, <1>8, <3>1, SignaturesVouch DEF VerdictIsExact, AuditInv
  <2>. QED  BY <2>1, <2>2, <2>3, <2>4
<1>10. cycleThrough' # {} => ~ Acyclic'
  BY <1>1, <1>2 DEF AuditInv
<1>. QED  BY <1>5, <1>6, <1>7, <1>9, <1>10 DEF AuditInv

-----------------------------------------------------------------------------
(* The steps of the search.                                                *)

(* What the stack's operations do to its frames. *)
LEMMA StackElement ==
  ASSUME NEW S, NEW s \in Seq(S)
  PROVE  /\ Len(s) \in Nat /\ DOMAIN s = 1..Len(s)
         /\ \A i \in 1..Len(s) : s[i] \in S
         /\ s # <<>> <=> Len(s) # 0
OBVIOUS

LEMMA StackOfFunction ==
  ASSUME NEW S, NEW n \in Nat, NEW t \in [1..n -> S]
  PROVE  t \in Seq(S) /\ Len(t) = n
OBVIOUS

LEMMA StackPush ==
  ASSUME NEW S, NEW s \in Seq(S), NEW e \in S, NEW t, t = Append(s, e)
  PROVE  /\ t \in Seq(S) /\ Len(t) = Len(s) + 1
         /\ DOMAIN t = 1..(Len(s) + 1)
         /\ \A i \in 1..Len(s) : t[i] = s[i]
         /\ t[Len(s) + 1] = e
BY AppendProperties

LEMMA StackPop ==
  ASSUME NEW S, NEW s \in Seq(S), s # <<>>,
         NEW t, t = SubSeq(s, 1, Len(s) - 1)
  PROVE  /\ t \in Seq(S) /\ Len(t) = Len(s) - 1
         /\ \A i \in 1..(Len(s) - 1) : t[i] = s[i]
<1>. DEFINE n == Len(s) - 1
<1>1. n \in Nat /\ \A i \in 1..n : s[i] \in S
  BY StackElement
<1>. HIDE DEF n
<1>2. /\ SubSeq(s, 1, n) \in Seq(S) /\ Len(SubSeq(s, 1, n)) = n
      /\ \A i \in 1..n : SubSeq(s, 1, n)[i] = s[i]
  BY <1>1, SubSeqProperties
<1>. QED  BY <1>2 DEF n

(* What every step of the search leaves alone. *)
LEMMA SearchFrame ==
  ASSUME AuditInv, audit = "searching", UNCHANGED <<args, files, audit, passed>>
  PROVE  /\ Node' = Node /\ Node \subseteq Id
         /\ \A n : Parents(n)' = Parents(n)
         /\ \A n \in Node : Parents(n) \in SUBSET Id
         /\ Acyclic' = Acyclic
         /\ \A S : CyclicSet(S)' = CyclicSet(S)
         /\ HasTrajectoryBlock' /\ SharedTrajectoryId'
         /\ ~ passed' /\ audit' = "searching"
         /\ args' \in Arguments /\ files' \in Seq(File) /\ passed' \in BOOLEAN
         /\ VerdictIsExact'
<1>1. files \in Seq(File) /\ args \in Arguments /\ passed \in BOOLEAN
  BY DEF AuditInv, AuditTypeOK
<1>2. ~ passed /\ HasTrajectoryBlock /\ SharedTrajectoryId
  BY DEF AuditInv
<1>. QED  BY <1>1, <1>2, ArchiveFrame, ParentsType DEF VerdictIsExact

(* An unexplored receipt goes on the stack. *)
LEMMA StartPreserves ==
  ASSUME AuditInv, NEW n \in Node, StartAt(n)
  PROVE  AuditInv'
<1>. DEFINE frame == [node |-> n, todo |-> Parents(n)]
<1>1. /\ audit = "searching" /\ cycleThrough = {} /\ stack = <<>> /\ color[n] = "white"
      /\ color' = [color EXCEPT ![n] = "gray"]
      /\ stack' = <<frame>>
      /\ UNCHANGED <<args, files, audit, cycleThrough, passed>>
  <2>1. Append(<<>>, frame) = <<frame>>
    OBVIOUS
  <2>. QED  BY <2>1 DEF StartAt, Searching, Push
<1>2. color \in [Node -> {"white", "gray", "black"}]
  BY DEF AuditInv, AuditTypeOK
<1>. USE SearchFrame
<1>3. DOMAIN stack' = {1} /\ stack'[1].node = n /\ stack'[1].todo = Parents(n)
  BY <1>1
<1>4. AuditTypeOK'
  <2>1. frame \in [node : Node, todo : SUBSET Id]
    BY <1>1
  <2>2. stack' \in Seq([node : Node', todo : SUBSET Id])
    BY <1>1, <2>1
  <2>. QED  BY <1>1, <1>2, <2>2 DEF AuditTypeOK
<1>5. GrayIsOnStack'
  <2>1. \A m \in Node : color[m] # "gray"
    BY <1>1 DEF AuditInv, GrayIsOnStack
  <2>. QED  BY <1>1, <1>2, <1>3, <2>1 DEF GrayIsOnStack
<1>6. StackIsPath' /\ FramesFollowed'
  BY <1>1, <1>3 DEF StackIsPath, FramesFollowed
<1>7. Black' = Black
  BY <1>1, <1>2 DEF Black
<1>8. BlackIsClosed' /\ BlackIsAcyclic'
  BY <1>1, <1>7 DEF AuditInv, BlackIsClosed, BlackIsAcyclic
<1>. QED  BY <1>1, <1>4, <1>5, <1>6, <1>8 DEF AuditInv

(* The stack after the parent p was taken from its top frame. *)
LEMMA RestOfStack ==
  ASSUME AuditInv, audit = "searching", stack # <<>>, NEW p \in Top.todo,
         NEW rest, rest = [stack EXCEPT ![Len(stack)].todo = @ \ {p}]
  PROVE  /\ Len(stack) \in Nat \ {0} /\ DOMAIN stack = 1..Len(stack)
         /\ rest \in Seq([node : Node, todo : SUBSET Id]) /\ Len(rest) = Len(stack)
         /\ \A i \in DOMAIN stack : rest[i].node = stack[i].node
         /\ \A i \in DOMAIN stack : i # Len(stack) => rest[i].todo = stack[i].todo
         /\ rest[Len(stack)].todo = Top.todo \ {p}
         /\ p \in Parents(stack[Len(stack)].node)
<1>. DEFINE Frame == [node : Node, todo : SUBSET Id]
            changed == [stack[Len(stack)] EXCEPT !.todo = @ \ {p}]
<1>1. stack \in Seq(Frame)
  BY DEF AuditInv, AuditTypeOK
<1>2. Len(stack) \in Nat \ {0} /\ DOMAIN stack = 1..Len(stack) /\ stack[Len(stack)] \in Frame
  <2>. HIDE DEF Frame
  <2>1. Len(stack) \in 1..Len(stack)
    BY <1>1, StackElement
  <2>. QED  BY <1>1, <2>1, StackElement
<1>4. changed \in Frame /\ changed.node = stack[Len(stack)].node /\ changed.todo = Top.todo \ {p}
  BY <1>2 DEF Top
<1>5. rest = [stack EXCEPT ![Len(stack)] = changed]
  BY <1>2
<1>. HIDE DEF changed, Frame
<1>6. /\ rest \in Seq(Frame) /\ Len(rest) = Len(stack)
      /\ \A i \in 1..Len(stack) : rest[i] = IF i = Len(stack) THEN changed ELSE stack[i]
  <2>1. rest = [i \in 1..Len(stack) |-> IF i = Len(stack) THEN changed ELSE stack[i]]
    BY <1>2, <1>5
  <2>2. \A i \in 1..Len(stack) : stack[i] \in Frame
    BY <1>1, StackElement
  <2>3. rest \in [1..Len(stack) -> Frame]
    BY <1>4, <2>1, <2>2
  <2>. QED  BY <1>2, <2>1, <2>3, StackOfFunction
<1>7. p \in Parents(stack[Len(stack)].node)
  BY <1>2 DEF AuditInv, StackIsPath, Top
<1>. QED  BY <1>2, <1>4, <1>6, <1>7 DEF Frame

(* A parent that has not been explored goes on top of the stack. *)
LEMMA PushPreserves ==
  ASSUME AuditInv, NEW p \in Id, Follow(p), p \in Node, color[p] = "white"
  PROVE  AuditInv'
<1>. DEFINE rest == [stack EXCEPT ![Len(stack)].todo = @ \ {p}]
            frame == [node |-> p, todo |-> Parents(p)]
            L == Len(stack)
<1>1. /\ audit = "searching" /\ cycleThrough = {} /\ stack # <<>> /\ p \in Top.todo
      /\ color' = [color EXCEPT ![p] = "gray"]
      /\ stack' = Append(rest, frame)
      /\ cycleThrough' = {}
      /\ UNCHANGED <<args, files, audit, passed>>
  BY DEF Follow, Searching, Push
<1>2. color \in [Node -> {"white", "gray", "black"}]
  BY DEF AuditInv, AuditTypeOK
<1>3. /\ L \in Nat \ {0} /\ DOMAIN stack = 1..L /\ Top = stack[L]
      /\ rest \in Seq([node : Node, todo : SUBSET Id]) /\ Len(rest) = L
      /\ \A i \in 1..L : rest[i].node = stack[i].node
      /\ \A i \in 1..L : i # L => rest[i].todo = stack[i].todo
      /\ rest[L].todo = Top.todo \ {p}
      /\ p \in Parents(stack[L].node)
  BY <1>1, RestOfStack DEF Top
<1>. HIDE DEF rest
<1>4. frame \in [node : Node, todo : SUBSET Id]
  BY <1>1, SearchFrame
<1>5. /\ stack' \in Seq([node : Node, todo : SUBSET Id]) /\ Len(stack') = L + 1
      /\ DOMAIN stack' = 1..(L + 1)
      /\ \A i \in 1..L : stack'[i] = rest[i]
      /\ stack'[L + 1] = frame
  <2>. DEFINE Frame == [node : Node, todo : SUBSET Id]
  <2>1. rest \in Seq(Frame) /\ frame \in Frame /\ stack' = Append(rest, frame)
    BY <1>1, <1>3, <1>4
  <2>. HIDE DEF Frame, frame
  <2>2. /\ stack' \in Seq(Frame) /\ Len(stack') = Len(rest) + 1
        /\ DOMAIN stack' = 1..(Len(rest) + 1)
        /\ \A i \in 1..Len(rest) : stack'[i] = rest[i]
        /\ stack'[Len(rest) + 1] = frame
    BY <2>1, StackPush
  <2>. QED  BY <1>3, <2>2 DEF Frame
<1>. HIDE DEF L
<1>. USE SearchFrame
<1>6. AuditTypeOK'
  BY <1>1, <1>2, <1>5 DEF AuditTypeOK
<1>7. GrayIsOnStack'
  <2>1. /\ \A n \in Node : color[n] = "gray" <=> \E i \in 1..L : stack[i].node = n
        /\ \A i, j \in 1..L : stack[i].node = stack[j].node => i = j
    BY <1>3 DEF AuditInv, GrayIsOnStack
  <2>2. \A i \in 1..L : stack[i].node # p
    BY <2>1
  <2>3. \A i \in 1..L : stack'[i].node = stack[i].node
    BY <1>3, <1>5
  <2>4. \A n \in Node : color'[n] = "gray" <=> \E i \in 1..(L + 1) : stack'[i].node = n
    <3>. SUFFICES ASSUME NEW n \in Node
                  PROVE  color'[n] = "gray" <=> \E i \in 1..(L + 1) : stack'[i].node = n
      OBVIOUS
    <3>1. CASE n = p
      BY <1>1, <1>2, <1>3, <1>5, <3>1
    <3>2. CASE n # p
      <4>1. color'[n] = color[n]
        BY <1>1, <1>2, <3>2
      <4>2. stack'[L + 1].node # n
        BY <1>5, <3>2
      <4>3. (\E i \in 1..(L + 1) : stack'[i].node = n) <=> \E i \in 1..L : stack'[i].node = n
        BY <1>3, <4>2
      <4>. QED  BY <2>1, <2>3, <4>1, <4>3
    <3>. QED  BY <3>1, <3>2
  <2>5. \A i, j \in 1..(L + 1) : stack'[i].node = stack'[j].node => i = j
    BY <1>3, <1>5, <2>1, <2>2, <2>3
  <2>. QED  BY <1>1, <1>5, <2>4, <2>5 DEF GrayIsOnStack
<1>8. StackIsPath'
  <2>1. \A i \in 1..L : /\ stack[i].todo \subseteq Parents(stack[i].node)
                        /\ i > 1 => stack[i].node \in Parents(stack[i - 1].node)
    BY <1>3 DEF AuditInv, StackIsPath
  <2>2. \A i \in 1..L : rest[i].todo \subseteq stack[i].todo
    BY <1>3
  <2>. SUFFICES ASSUME NEW i \in 1..(L + 1)
                PROVE  /\ stack'[i].todo \subseteq Parents(stack'[i].node)
                       /\ i > 1 => stack'[i].node \in Parents(stack'[i - 1].node)
    BY <1>1, <1>5 DEF StackIsPath
  <2>3. CASE i = L + 1
    BY <1>3, <1>5, <2>3
  <2>4. CASE i \in 1..L
    BY <1>3, <1>5, <2>1, <2>2, <2>4
  <2>. QED  BY <1>3, <2>3, <2>4
<1>9. FramesFollowed'
  <2>1. \A i \in 1..L : \A q \in Parents(stack[i].node) \cap Node :
            q \in stack[i].todo \/ color[q] = "black" \/ (i < L /\ q = stack[i + 1].node)
    BY <1>1, <1>3 DEF AuditInv, FramesFollowed, L
  <2>. SUFFICES ASSUME NEW i \in 1..(L + 1), NEW q \in Parents(stack'[i].node) \cap Node
                PROVE  q \in stack'[i].todo \/ color'[q] = "black" \/ (i < L + 1 /\ q = stack'[i + 1].node)
    BY <1>1, <1>5 DEF FramesFollowed
  <2>2. CASE i = L + 1
    BY <1>5, <2>2
  <2>3. CASE i = L
    <3>1. q \in Top.todo \/ color[q] = "black"
      BY <1>3, <1>5, <2>1, <2>3
    <3>. QED  BY <1>1, <1>2, <1>3, <1>5, <2>3, <3>1
  <2>4. CASE i \in 1..(L - 1)
    <3>1. q \in stack[i].todo \/ color[q] = "black" \/ q = stack[i + 1].node
      BY <1>3, <1>5, <2>1, <2>4
    <3>2. i \in 1..L /\ i + 1 \in 1..L /\ i # L
      BY <1>3, <2>4
    <3>3. stack'[i].todo = stack[i].todo /\ stack'[i + 1].node = stack[i + 1].node
      BY <1>3, <1>5, <3>2
    <3>. QED  BY <1>1, <1>2, <1>3, <3>1, <3>2, <3>3
  <2>. QED  BY <1>3, <2>2, <2>3, <2>4
<1>10. Black' = Black
  BY <1>1, <1>2 DEF Black
<1>11. BlackIsClosed' /\ BlackIsAcyclic'
  BY <1>1, <1>10 DEF AuditInv, BlackIsClosed, BlackIsAcyclic
<1>. QED  BY <1>1, <1>6, <1>7, <1>8, <1>9, <1>11 DEF AuditInv

(* A parent that is on the stack closes a cycle: the receipts from it up.  *)
LEMMA GrayParentClosesCycle ==
  ASSUME AuditInv, stack # <<>>, NEW p \in Node, color[p] = "gray",
         p \in Parents(stack[Len(stack)].node)
  PROVE  ~ Acyclic
<1>. DEFINE L == Len(stack)
<1>1. L \in Nat \ {0} /\ DOMAIN stack = 1..L /\ \A i \in 1..L : stack[i].node \in Node
  <2>. DEFINE Frame == [node : Node, todo : SUBSET Id]
  <2>1. stack \in Seq(Frame)
    BY DEF AuditInv, AuditTypeOK
  <2>. HIDE DEF Frame
  <2>2. Len(stack) \in Nat \ {0} /\ DOMAIN stack = 1..Len(stack) /\ \A i \in 1..Len(stack) : stack[i] \in Frame
    BY <2>1, StackElement
  <2>. QED  BY <2>2 DEF Frame
<1>. HIDE DEF L
<1>2. PICK k \in 1..L : stack[k].node = p
  BY <1>1 DEF AuditInv, GrayIsOnStack
<1>. DEFINE S == {stack[i].node : i \in k..L}
<1>3. S # {} /\ S \subseteq Node
  BY <1>1, <1>2
<1>4. \A n \in S : Parents(n) \cap S # {}
  <2>. SUFFICES ASSUME NEW i \in k..L PROVE Parents(stack[i].node) \cap S # {}
    OBVIOUS
  <2>1. CASE i = L
    BY <1>1, <1>2, <2>1 DEF L
  <2>2. CASE i # L
    <3>1. i + 1 \in k..L /\ i + 1 \in 1..L /\ i + 1 > 1 /\ (i + 1) - 1 = i
      BY <1>1, <2>2
    <3>2. stack[i + 1].node \in Parents(stack[i].node)
      BY <1>1, <3>1 DEF AuditInv, StackIsPath
    <3>. QED  BY <3>1, <3>2
  <2>. QED  BY <2>1, <2>2
<1>. QED  BY <1>3, <1>4 DEF Acyclic, CyclicSet

(* A parent that is not pushed: it has no file, is black, or closes a cycle. *)
LEMMA SkipPreserves ==
  ASSUME AuditInv, NEW p \in Id, Follow(p), ~ (p \in Node /\ color[p] = "white")
  PROVE  AuditInv'
<1>. DEFINE rest == [stack EXCEPT ![Len(stack)].todo = @ \ {p}]
            L == Len(stack)
<1>1. /\ audit = "searching" /\ cycleThrough = {} /\ stack # <<>> /\ p \in Top.todo
      /\ color' = color
      /\ stack' = rest
      /\ cycleThrough' = IF p \in Node /\ color[p] = "gray" THEN {p} ELSE {}
      /\ UNCHANGED <<args, files, audit, passed>>
  BY DEF Follow, Searching
<1>2. color \in [Node -> {"white", "gray", "black"}]
  BY DEF AuditInv, AuditTypeOK
<1>3. /\ L \in Nat \ {0} /\ DOMAIN stack = 1..L /\ Top = stack[L]
      /\ stack' \in Seq([node : Node, todo : SUBSET Id]) /\ DOMAIN stack' = 1..L /\ Len(stack') = L
      /\ \A i \in 1..L : stack'[i].node = stack[i].node
      /\ \A i \in 1..L : i # L => stack'[i].todo = stack[i].todo
      /\ stack'[L].todo = Top.todo \ {p}
      /\ p \in Parents(stack[L].node)
  <2>1. /\ L \in Nat \ {0} /\ DOMAIN stack = 1..L
        /\ rest \in Seq([node : Node, todo : SUBSET Id]) /\ Len(rest) = L
        /\ \A i \in 1..L : rest[i].node = stack[i].node
        /\ \A i \in 1..L : i # L => rest[i].todo = stack[i].todo
        /\ rest[L].todo = Top.todo \ {p}
        /\ p \in Parents(stack[L].node)
    <3>1. /\ Len(stack) \in Nat \ {0} /\ DOMAIN stack = 1..Len(stack)
          /\ rest \in Seq([node : Node, todo : SUBSET Id]) /\ Len(rest) = Len(stack)
          /\ \A i \in DOMAIN stack : rest[i].node = stack[i].node
          /\ \A i \in DOMAIN stack : i # Len(stack) => rest[i].todo = stack[i].todo
          /\ rest[Len(stack)].todo = Top.todo \ {p}
          /\ p \in Parents(stack[Len(stack)].node)
      BY <1>1, RestOfStack, Zenon
    <3>. HIDE DEF rest
    <3>. QED  BY <3>1
  <2>. HIDE DEF rest
  <2>2. DOMAIN rest = 1..L
    BY <2>1, StackElement
  <2>. QED  BY <1>1, <2>1, <2>2 DEF Top
<1>. HIDE DEF rest
<1>4. cycleThrough' # {} => ~ Acyclic
  BY <1>1, <1>3, GrayParentClosesCycle
<1>. HIDE DEF L
<1>. USE SearchFrame
<1>5. AuditTypeOK'
  BY <1>1, <1>2, <1>3 DEF AuditTypeOK
<1>6. GrayIsOnStack'
  <2>1. /\ \A n \in Node : color[n] = "gray" <=> \E i \in 1..L : stack[i].node = n
        /\ \A i, j \in 1..L : stack[i].node = stack[j].node => i = j
    BY <1>3 DEF AuditInv, GrayIsOnStack
  <2>2. Node' = Node /\ DOMAIN stack' = 1..L /\ \A i \in 1..L : stack'[i].node = stack[i].node
    BY <1>1, <1>3
  <2>3. /\ \A n \in Node : color'[n] = "gray" <=> \E i \in 1..L : stack'[i].node = n
        /\ \A i, j \in 1..L : stack'[i].node = stack'[j].node => i = j
    BY <1>1, <2>1, <2>2
  <2>. QED  BY <2>2, <2>3 DEF GrayIsOnStack
<1>7. StackIsPath'
  <2>1. \A i \in 1..L : /\ stack[i].todo \subseteq Parents(stack[i].node)
                        /\ i > 1 => stack[i].node \in Parents(stack[i - 1].node)
    BY <1>3 DEF AuditInv, StackIsPath
  <2>2. \A i \in 1..L : stack'[i].todo \subseteq stack[i].todo
    BY <1>3
  <2>. SUFFICES ASSUME NEW i \in 1..L
                PROVE  /\ stack'[i].todo \subseteq Parents(stack'[i].node)
                       /\ i > 1 => stack'[i].node \in Parents(stack'[i - 1].node)
    BY <1>1, <1>3 DEF StackIsPath
  <2>3. i > 1 => i - 1 \in 1..L
    BY <1>3
  <2>. QED  BY <1>3, <2>1, <2>2, <2>3
<1>8. FramesFollowed'
  <2>1. \A i \in 1..L : \A q \in Parents(stack[i].node) \cap Node :
            q \in stack[i].todo \/ color[q] = "black" \/ (i < L /\ q = stack[i + 1].node)
    BY <1>1, <1>3 DEF AuditInv, FramesFollowed, L
  <2>. SUFFICES ASSUME cycleThrough' = {}, NEW i \in 1..L, NEW q \in Parents(stack'[i].node) \cap Node
                PROVE  q \in stack'[i].todo \/ color'[q] = "black" \/ (i < L /\ q = stack'[i + 1].node)
    <3>1. DOMAIN stack' = 1..L /\ Len(stack') = L /\ Node' = Node
      BY <1>1, <1>3
    <3>2. \A n : Parents(n)' = Parents(n)
      BY <1>1
    <3>. QED  BY <3>1, <3>2 DEF FramesFollowed
  <2>. q \in Parents(stack[i].node) \cap Node
    BY <1>3
  <2>2. p \in Node => color[p] = "black"
    BY <1>1, <1>2
  <2>3. i < L => i + 1 \in 1..L
    BY <1>3
  <2>4. q = p \/ (q \in stack[i].todo => q \in stack'[i].todo)
    BY <1>3
  <2>. QED  BY <1>1, <1>3, <2>1, <2>2, <2>3, <2>4
<1>9. Black' = Black
  BY <1>1, <1>2 DEF Black
<1>10. BlackIsClosed' /\ BlackIsAcyclic'
  BY <1>1, <1>9 DEF AuditInv, BlackIsClosed, BlackIsAcyclic
<1>. QED  BY <1>1, <1>4, <1>5, <1>6, <1>7, <1>8, <1>10 DEF AuditInv

(* A receipt whose parents are all black becomes black: a cycle through it   *)
(* would already be one of black receipts.                                  *)
LEMMA BacktrackPreserves ==
  ASSUME AuditInv, Backtrack
  PROVE  AuditInv'
<1>. DEFINE L == Len(stack)
            n == Top.node
            Frame == [node : Node, todo : SUBSET Id]
<1>1. /\ audit = "searching" /\ cycleThrough = {} /\ stack # <<>> /\ Top.todo = {}
      /\ color' = [color EXCEPT ![n] = "black"]
      /\ stack' = SubSeq(stack, 1, Len(stack) - 1)
      /\ UNCHANGED <<args, files, audit, cycleThrough, passed>>
  BY DEF Backtrack, Searching
<1>2. color \in [Node -> {"white", "gray", "black"}] /\ stack \in Seq(Frame)
  BY DEF AuditInv, AuditTypeOK
<1>. HIDE DEF Frame
<1>3. /\ L \in Nat \ {0} /\ DOMAIN stack = 1..L /\ \A i \in 1..L : stack[i] \in Frame
  BY <1>1, <1>2, StackElement
<1>4. Top = stack[L] /\ n \in Node
  BY <1>3 DEF Top, Frame
<1>5. /\ stack' \in Seq(Frame) /\ Len(stack') = L - 1
      /\ \A i \in 1..(L - 1) : stack'[i] = stack[i]
  <2>1. stack \in Seq(Frame) /\ stack # <<>> /\ stack' = SubSeq(stack, 1, Len(stack) - 1)
    BY <1>1, <1>2
  <2>2. /\ stack' \in Seq(Frame) /\ Len(stack') = Len(stack) - 1
        /\ \A i \in 1..(Len(stack) - 1) : stack'[i] = stack[i]
    BY <2>1, StackPop
  <2>. QED  BY <2>2
<1>6. DOMAIN stack' = 1..(L - 1)
  BY <1>5, StackElement
<1>. HIDE DEF L, n
<1>7. /\ \A i \in 1..L : \A q \in Parents(stack[i].node) \cap Node :
            q \in stack[i].todo \/ color[q] = "black" \/ (i < L /\ q = stack[i + 1].node)
  BY <1>1, <1>3 DEF AuditInv, FramesFollowed, L
<1>. USE SearchFrame
<1>8. AuditTypeOK'
  <2>1. color' \in [Node' -> {"white", "gray", "black"}]
    BY <1>1, <1>2
  <2>2. stack' \in Seq([node : Node', todo : SUBSET Id])
    BY <1>1, <1>5 DEF Frame
  <2>. QED  BY <1>1, <2>1, <2>2 DEF AuditTypeOK
<1>9. GrayIsOnStack'
  <2>1. /\ \A m \in Node : color[m] = "gray" <=> \E i \in 1..L : stack[i].node = m
        /\ \A i, j \in 1..L : stack[i].node = stack[j].node => i = j
    BY <1>3 DEF AuditInv, GrayIsOnStack
  <2>2. L \in 1..L /\ stack[L].node = n /\ \A i \in 1..(L - 1) : i \in 1..L /\ i # L
    BY <1>3, <1>4 DEF n
  <2>3. \A i \in 1..(L - 1) : stack[i].node # n
    BY <2>1, <2>2
  <2>4. \A m \in Node : color'[m] = "gray" <=> \E i \in 1..(L - 1) : stack[i].node = m
    <3>. SUFFICES ASSUME NEW m \in Node
                  PROVE  color'[m] = "gray" <=> \E i \in 1..(L - 1) : stack[i].node = m
      OBVIOUS
    <3>1. CASE m = n
      BY <1>1, <1>2, <2>3, <3>1
    <3>2. CASE m # n
      <4>1. color'[m] = color[m]
        BY <1>1, <1>2, <3>2
      <4>2. \A i \in 1..L : stack[i].node = m => i \in 1..(L - 1)
        BY <1>3, <2>2, <3>2
      <4>. QED  BY <2>1, <2>2, <4>1, <4>2
    <3>. QED  BY <3>1, <3>2
  <2>5. \A i, j \in 1..(L - 1) : stack[i].node = stack[j].node => i = j
    BY <2>1, <2>2
  <2>6. \A i \in 1..(L - 1) : stack'[i].node = stack[i].node
    BY <1>5
  <2>7. Node' = Node
    BY <1>1
  <2>. QED  BY <1>6, <2>4, <2>5, <2>6, <2>7 DEF GrayIsOnStack
<1>10. StackIsPath'
  <2>1. \A i \in 1..L : /\ stack[i].todo \subseteq Parents(stack[i].node)
                        /\ i > 1 => stack[i].node \in Parents(stack[i - 1].node)
    BY <1>3 DEF AuditInv, StackIsPath
  <2>. SUFFICES ASSUME NEW i \in 1..(L - 1)
                PROVE  /\ stack'[i].todo \subseteq Parents(stack'[i].node)
                       /\ i > 1 => stack'[i].node \in Parents(stack'[i - 1].node)
    <3>1. \A m : Parents(m)' = Parents(m)
      BY <1>1
    <3>. QED  BY <1>6, <3>1 DEF StackIsPath
  <2>2. i \in 1..L /\ (i > 1 => i - 1 \in 1..(L - 1))
    BY <1>3
  <2>. QED  BY <1>5, <2>1, <2>2
<1>11. FramesFollowed'
  <2>. SUFFICES ASSUME NEW i \in 1..(L - 1), NEW q \in Parents(stack[i].node) \cap Node
                PROVE  \/ q \in stack[i].todo \/ color'[q] = "black"
                       \/ (i < L - 1 /\ q = stack'[i + 1].node)
    <3>1. /\ DOMAIN stack' = 1..(L - 1) /\ Len(stack') = L - 1
          /\ \A i \in 1..(L - 1) : stack'[i] = stack[i]
      BY <1>5, <1>6
    <3>2. Node' = Node /\ \A m : Parents(m)' = Parents(m)
      BY <1>1
    <3>. QED  BY <3>1, <3>2 DEF FramesFollowed
  <2>1. i \in 1..L /\ (i < L - 1 => i + 1 \in 1..(L - 1)) /\ (i < L - 1 \/ i + 1 = L)
    BY <1>3
  <2>2. q \in stack[i].todo \/ color[q] = "black" \/ q = stack[i + 1].node
    BY <1>7, <2>1
  <2>3. color[q] = "black" \/ q = n => color'[q] = "black"
    BY <1>1, <1>2
  <2>4. stack[L].node = n
    BY <1>4 DEF n
  <2>. QED  BY <1>5, <2>1, <2>2, <2>3, <2>4
<1>12. Black' = Black \cup {n} /\ Parents(n) \cap Node \subseteq Black
  <2>1. Black' = Black \cup {n}
    BY <1>1, <1>2, <1>4 DEF Black
  <2>2. \A q \in Parents(n) \cap Node : color[q] = "black"
    BY <1>1, <1>3, <1>4, <1>7 DEF n
  <2>. QED  BY <2>1, <2>2 DEF Black
<1>13. BlackIsClosed'
  BY <1>1, <1>12 DEF AuditInv, BlackIsClosed
<1>14. BlackIsAcyclic'
  <2>. SUFFICES ASSUME NEW S \in SUBSET (Black \cup {n}), CyclicSet(S) PROVE FALSE
    BY <1>1, <1>12 DEF BlackIsAcyclic
  <2>. DEFINE T == S \cap Black
  <2>1. \A m \in Black : Parents(m) \cap Node \subseteq Black
    BY DEF AuditInv, BlackIsClosed
  <2>2. \A m \in S : Parents(m) \cap S \cap Black # {}
    BY <1>12, <2>1 DEF CyclicSet
  <2>3. CyclicSet(T)
    BY <2>2 DEF CyclicSet
  <2>. QED  BY <2>3 DEF AuditInv, BlackIsAcyclic
<1>. QED  BY <1>1, <1>8, <1>9, <1>10, <1>11, <1>13, <1>14 DEF AuditInv

-----------------------------------------------------------------------------
(* The theorems.                                                           *)

LEMMA UnchangedPreserves ==
  ASSUME AuditInv, UNCHANGED auditVars
  PROVE  AuditInv'
<1>1. /\ UNCHANGED files /\ args' = args /\ audit' = audit /\ color' = color /\ stack' = stack
      /\ cycleThrough' = cycleThrough /\ passed' = passed
  BY DEF auditVars
<1>2. Black' = Black
  BY <1>1, ArchiveFrame DEF Black
<1>3. AuditTypeOK' /\ Fresh' = Fresh /\ GrayIsOnStack' /\ StackIsPath'
  BY <1>1, ArchiveFrame DEF AuditInv, AuditTypeOK, Fresh, GrayIsOnStack, StackIsPath
<1>4. FramesFollowed' /\ BlackIsClosed' /\ BlackIsAcyclic'
  BY <1>1, <1>2, ArchiveFrame DEF AuditInv, FramesFollowed, BlackIsClosed, BlackIsAcyclic
<1>5. /\ EveryReceiptOk' = EveryReceiptOk /\ NoDanglingParents' = NoDanglingParents
      /\ HasRootStep' = HasRootStep
  BY <1>1, ArchiveFrame DEF EveryReceiptOk, SignatureOk, VerifyReceiptSignature, ProofsOk,
                            NoDanglingParents, HasRootStep
<1>6. VerdictIsExact' = VerdictIsExact
  BY <1>1, <1>5, ArchiveFrame DEF VerdictIsExact
<1>. QED  BY <1>1, <1>3, <1>4, <1>6, ArchiveFrame DEF AuditInv

LEMMA AuditStepPreserves ==
  ASSUME AuditInv, AuditStep
  PROVE  AuditInv'
<1>1. CASE ReportOne \/ RefuseArchive \/ BeginSearch \/ Report
  BY <1>1, VerdictPreserves
<1>2. CASE \E n \in Node : StartAt(n)
  BY <1>2, StartPreserves
<1>3. CASE \E p \in Id : Follow(p)
  BY <1>3, PushPreserves, SkipPreserves
<1>4. CASE Backtrack
  BY <1>4, BacktrackPreserves
<1>. QED  BY <1>1, <1>2, <1>3, <1>4 DEF AuditStep

LEMMA NextPreserves ==
  ASSUME AuditInv, [AuditNext]_auditVars
  PROVE  AuditInv'
<1>1. CASE UNCHANGED auditVars
  BY <1>1, UnchangedPreserves
<1>2. CASE \E fs \in Seq(File), as \in Arguments : Collect(fs, as)
  <2>. PICK fs \in Seq(File), as \in Arguments : Collect(fs, as)
    BY <1>2
  <2>1. Collected(fs, as)
    BY DEF Collect, Collected
  <2>. QED  BY <2>1, CollectPreserves
<1>3. CASE \E f \in File, as \in Arguments : CollectOne(f, as)
  BY <1>3, CollectOneCollects, CollectPreserves
<1>4. CASE AuditStep
  BY <1>4, AuditStepPreserves
<1>. QED  BY <1>1, <1>2, <1>3, <1>4 DEF AuditNext

LEMMA AuditInvariant == AuditSpec => []AuditInv
BY InitAudit, NextPreserves, PTL DEF AuditSpec

(* The audit's report is exact: whatever files are missing, copied or        *)
(* edited and whatever order the search takes, PASS is reported when and     *)
(* only when every receipt stands by itself, all share a trajectory, and their   *)
(* parents are all there, with a root and no cycle; and a PASS without       *)
(* --unsigned vouches for every signature and inclusion proof                *)
(* (_cmd_audit(), _cmd_audit_trajectory(), audit_trajectory_dag()).          *)
THEOREM AuditIsExact == AuditSpec => []VerdictIsExact
<1>1. AuditInv => VerdictIsExact
  BY DEF AuditInv
<1>. QED  BY <1>1, AuditInvariant, PTL

(* The search is a path of gray receipts above a closed, acyclic set of      *)
(* black ones, and every variable keeps its type (audit_trajectory_dag()'s   *)
(* three colors and explicit stack).                                         *)
THEOREM SearchIsDepthFirst ==
  AuditSpec => [](AuditTypeOK /\ GrayIsOnStack /\ StackIsPath /\ BlackIsClosed /\ BlackIsAcyclic)
<1>1. AuditInv => AuditTypeOK /\ GrayIsOnStack /\ StackIsPath /\ BlackIsClosed /\ BlackIsAcyclic
  BY DEF AuditInv
<1>. QED  BY <1>1, AuditInvariant, PTL

-----------------------------------------------------------------------------
(* The runtimes.                                                           *)

Session == SessionId \cup {NoSession}

(* A cursor that knows of the first n receipts, and a receipt of n others.  *)
ContextOf(n) == [tid : Trajectory \cup {NoTrajectory}, step : Nat, parents : SUBSET (1..n),
                 session : Session]

Record == [tid : Trajectory \cup {NoTrajectory}, step : Nat, parents : SUBSET Nat,
           session : Session, decision : {"none", "allow", "deny"}]

Graph == {"graph", "graph with reducer"}

(* What a worker may be about to do under each runtime. *)
Phase(r) ==
    IF r = "crew"
    THEN {"idle", "verify", "admission", "issued", "stored", "execute", "advance", "parents", "merge"}
    ELSE IF r = "tools" THEN {"idle", "admission", "issued", "execute"}
    ELSE {"idle", "node", "issued"}

Cursors ==
    /\ runtime \in {"crew", "tools"} \cup Graph
    /\ issued \in Seq(Record)
    /\ cursor \in ContextOf(Len(issued))
    /\ context \in [Worker -> ContextOf(Len(issued))]
    /\ request \in [Worker -> Session]
    /\ at \in [Worker -> Phase(runtime)]
    /\ \A w \in Worker : at[w] = "idle" => context[w] = StartTrajectory
    /\ ParentsPrecede

(* Workers that will issue a receipt, or hold one that was issued.          *)
Issuing == {"verify", "admission", "node"}
Holding == {"issued", "stored", "execute"}

Room == Len(issued) + Cardinality({w \in Worker : at[w] \in Issuing}) <= MaxReceipts

Publications ==
    /\ published \in Seq(Nat)
    /\ Len(published) <= Len(issued)
    /\ \A i \in DOMAIN published : published[i] \in 1..Len(issued)
    /\ Len(published) = Len(issued) => \A i \in DOMAIN published : published[i] = i

Listing ==
    /\ mine \in [Worker -> Nat]
    /\ \A w \in Worker : at[w] \in Holding => mine[w] \in DOMAIN issued
    /\ \A v, w \in Worker :
          (at[v] \in Holding /\ at[w] \in Holding /\ mine[v] = mine[w]) => v = w
    /\ runtime \in Graph => ran = {}
    /\ runtime \notin Graph =>
          /\ receipts \in Seq(Nat)
          /\ \A w \in Worker : at[w] \in {"issued", "stored"} => mine[w] \notin Recorded
    /\ NoReceiptForgotten
    /\ ExecutedWasAllowed

(* The archive of all that was issued along one trajectory. *)
WholeSession ==
    /\ args.key = "none" /\ args.secret /\ ~ args.unsigned
    /\ files # <<>>
    /\ \A i \in DOMAIN files :
          /\ files[i].id = i /\ files[i].parents \subseteq 1..(i - 1)
          /\ files[i].tid # NoTrajectory
          /\ files[i].alg = "hmac-sha256" /\ files[i].intact /\ files[i].proofs = {"none"}
    /\ \A i, j \in DOMAIN files : files[i].tid = files[j].tid

Archive ==
    audit # "idle" =>
        /\ origin = "whole session" => WholeSession
        /\ origin = "several" => ~ (HasTrajectoryBlock /\ SharedTrajectoryId)

RuntimeInv == Cursors /\ Room /\ Publications /\ Listing /\ Archive /\ AuditInv

-----------------------------------------------------------------------------
(* Cursors.                                                                *)

LEMMA ContextGrows ==
  ASSUME NEW n \in Nat, NEW m \in Nat, n <= m
  PROVE  ContextOf(n) \subseteq ContextOf(m)
<1>1. SUBSET (1..n) \subseteq SUBSET (1..m)
  OBVIOUS
<1>. QED  BY <1>1 DEF ContextOf

LEMMA StartIsContext ==
  ASSUME NEW n \in Nat
  PROVE  /\ StartTrajectory \in ContextOf(n) /\ NoContext \in ContextOf(n)
         /\ \A t \in Trajectory : [StartTrajectory EXCEPT !.tid = t] \in ContextOf(n)
         /\ NoSession \in Session
BY SessionAssumption DEF StartTrajectory, NoContext, ContextOf, Session

LEMMA NextStepIsContext ==
  ASSUME NEW n \in Nat, NEW c \in ContextOf(n), NEW ps \in SUBSET (1..n), NEW s \in Session
  PROVE  NextStep(c, ps, s) \in ContextOf(n)
<1>1. Override(s, c.session) \in Session
  BY DEF Override, ContextOf
<1>. QED  BY <1>1 DEF NextStep, ContextOf

LEMMA EmittedIsRecord ==
  ASSUME NEW n \in Nat, NEW c \in ContextOf(n), NEW s \in Session,
         NEW d \in {"none", "allow", "deny"}
  PROVE  /\ EmitTrajectory(c, s, d) \in Record
         /\ EmitTrajectory(c, s, d).parents \subseteq 1..n
         /\ [EmitTrajectory(c, s, d) EXCEPT !.session = NoSession] \in Record
         /\ [EmitTrajectory(c, s, d) EXCEPT !.session = NoSession].parents \subseteq 1..n
         /\ \A c2 \in ContextOf(n) : /\ [EmitTrajectory(c, s, d) EXCEPT !.tid = c2.tid] \in Record
                                     /\ [EmitTrajectory(c, s, d) EXCEPT !.tid = c2.tid].parents \subseteq 1..n
<1>1. Override(s, c.session) \in Session /\ NoSession \in Session
  BY DEF Override, ContextOf, Session
<1>2. c.parents \subseteq 1..n /\ c.parents \in SUBSET Nat
  BY DEF ContextOf
<1>3. EmitTrajectory(c, s, d) \in Record /\ EmitTrajectory(c, s, d).parents = c.parents
  BY <1>1, <1>2 DEF EmitTrajectory, Record, ContextOf
<1>. DEFINE e == EmitTrajectory(c, s, d)
<1>. HIDE DEF e
<1>4. e \in Record /\ e.parents \subseteq 1..n
  BY <1>2, <1>3 DEF e
<1>5. [e EXCEPT !.session = NoSession] \in Record /\ [e EXCEPT !.session = NoSession].parents = e.parents
  BY <1>1, <1>4 DEF Record
<1>6. \A c2 \in ContextOf(n) : [e EXCEPT !.tid = c2.tid] \in Record /\ [e EXCEPT !.tid = c2.tid].parents = e.parents
  BY <1>4 DEF Record, ContextOf
<1>. QED  BY <1>4, <1>5, <1>6 DEF e

(* A receipt joins those issued; its parents were issued before it. *)
LEMMA IssueKeepsCursors ==
  ASSUME Cursors, NEW w \in Worker, NEW r \in Record, r.parents \subseteq 1..Len(issued),
         issued' = Append(issued, r), "issued" \in Phase(runtime),
         at' = [at EXCEPT ![w] = "issued"], request' \in [Worker -> Session],
         UNCHANGED <<runtime, cursor, context>>
  PROVE  /\ Cursors'
         /\ Len(issued') = Len(issued) + 1
         /\ \A i \in 1..Len(issued) : issued'[i] = issued[i]
<1>1. /\ issued \in Seq(Record) /\ Len(issued) \in Nat
      /\ cursor \in ContextOf(Len(issued)) /\ context \in [Worker -> ContextOf(Len(issued))]
      /\ at \in [Worker -> Phase(runtime)]
  BY DEF Cursors
<1>2. /\ issued' \in Seq(Record) /\ Len(issued') = Len(issued) + 1
      /\ \A i \in 1..Len(issued) : issued'[i] = issued[i]
      /\ issued'[Len(issued) + 1] = r
      /\ DOMAIN issued = 1..Len(issued) /\ DOMAIN issued' = 1..(Len(issued) + 1)
  BY <1>1, AppendProperties
<1>3. ContextOf(Len(issued)) \subseteq ContextOf(Len(issued'))
  BY <1>1, <1>2, ContextGrows
<1>4. cursor' \in ContextOf(Len(issued')) /\ context' \in [Worker -> ContextOf(Len(issued'))]
  BY <1>1, <1>3
<1>5. ParentsPrecede'
  <2>. SUFFICES ASSUME NEW i \in 1..(Len(issued) + 1) PROVE issued'[i].parents \subseteq 1..(i - 1)
    BY <1>2 DEF ParentsPrecede
  <2>1. CASE i \in 1..Len(issued)
    BY <1>2, <2>1 DEF Cursors, ParentsPrecede
  <2>2. CASE i = Len(issued) + 1
    <3>1. i - 1 = Len(issued)
      BY <1>1, <2>2
    <3>. QED  BY <1>2, <2>2, <3>1
  <2>. QED  BY <1>1, <2>1, <2>2
<1>6. \A v \in Worker : at'[v] = "idle" => at[v] = "idle" /\ context'[v] = context[v]
  BY <1>1
<1>7. at' \in [Worker -> Phase(runtime')]
  BY <1>1
<1>. QED  BY <1>2, <1>4, <1>5, <1>6, <1>7 DEF Cursors

(* One worker goes on to something else; the receipts issued stay.          *)
LEMMA MoveKeepsCursors ==
  ASSUME Cursors, NEW w \in Worker, NEW step \in Phase(runtime),
         at' = [at EXCEPT ![w] = step],
         NEW c \in ContextOf(Len(issued)), context' = [context EXCEPT ![w] = c],
         step = "idle" => c = StartTrajectory,
         request' \in [Worker -> Session],
         cursor' \in ContextOf(Len(issued)),
         UNCHANGED <<runtime, issued>>
  PROVE  Cursors'
<1>1. \A v \in Worker : at'[v] = "idle" => context'[v] = StartTrajectory
  BY DEF Cursors
<1>. QED  BY <1>1 DEF Cursors, ParentsPrecede

LEMMA CrewKeepsCursors ==
  ASSUME Cursors, Listing, NEW w \in Worker, AgentStep(w), runtime' = runtime
  PROVE  Cursors'
<1>. DEFINE n == Len(issued)
<1>1. /\ issued \in Seq(Record) /\ n \in Nat /\ DOMAIN issued = 1..n
      /\ cursor \in ContextOf(n) /\ context[w] \in ContextOf(n)
      /\ context \in [Worker -> ContextOf(n)]
      /\ request \in [Worker -> Session] /\ request[w] \in Session
      /\ at \in [Worker -> Phase(runtime)]
      /\ StartTrajectory \in ContextOf(n) /\ NoSession \in Session
  BY StartIsContext DEF Cursors
<1>. HIDE DEF n
<1>2. ASSUME NEW step \in {"verify", "admission", "advance", "merge"}, NEW s \in Session,
             ReadCursor(w, step, s)
      PROVE  Cursors'
  <2>1. step \in Phase(runtime)
    BY <1>2 DEF ReadCursor, Phase
  <2>2. request' \in [Worker -> Session]
    BY <1>1, <1>2 DEF ReadCursor
  <2>3. step # "idle"
    OBVIOUS
  <2>. QED  BY <1>1, <1>2, <2>1, <2>2, <2>3, MoveKeepsCursors DEF ReadCursor, n
<1>3. CASE CallVerify(w) \/ CallAdvance(w) \/ CallMerge(w) \/ \E s \in Requested : CallAdmission(w, s)
  BY <1>1, <1>2, <1>3, SessionAssumption DEF CallVerify, CallAdvance, CallMerge, CallAdmission, Session
<1>4. ASSUME NEW step \in {"verify", "admission"}, NEW d \in {"none", "allow", "deny"},
             NEW written \in BOOLEAN, Issue(w, step, d, written)
      PROVE  Cursors'
  <2>1. "issued" \in Phase(runtime)
    BY <1>1, <1>4 DEF Issue, Phase, Cursors
  <2>2. /\ EmitTrajectory(context[w], request[w], d) \in Record
        /\ EmitTrajectory(context[w], request[w], d).parents \subseteq 1..n
    BY <1>1, EmittedIsRecord
  <2>. QED  BY <1>1, <1>4, <2>1, <2>2, IssueKeepsCursors DEF Issue, n
<1>5. CASE \/ \E written \in BOOLEAN : IssueVerify(w, written)
           \/ \E d \in {"allow", "deny"}, written \in BOOLEAN : IssueAdmission(w, d, written)
  BY <1>4, <1>5 DEF IssueVerify, IssueAdmission
<1>6. ASSUME Return(w), cursor' \in ContextOf(n), UNCHANGED issued PROVE Cursors'
  <2>1. "idle" \in Phase(runtime)
    BY DEF Phase
  <2>2. request' \in [Worker -> Session]
    BY <1>1, <1>6 DEF Return
  <2>. QED  BY <1>1, <1>6, <2>1, <2>2, MoveKeepsCursors DEF Return, n
<1>7. ASSUME NEW step \in Phase(runtime), step # "idle", Become(w, step),
             cursor' \in ContextOf(n), UNCHANGED issued
      PROVE  Cursors'
  <2>1. context' = [context EXCEPT ![w] = context[w]]
    BY <1>1, <1>7 DEF Become
  <2>. QED  BY <1>1, <1>7, <2>1, MoveKeepsCursors DEF Become, n
<1>8. CASE CallRaises(w)
  BY <1>1, <1>6, <1>8 DEF CallRaises
<1>9. CASE StoreCursor(w)
  <2>1. mine[w] \in 1..n
    BY <1>1, <1>9 DEF StoreCursor, Listing, Holding
  <2>2. cursor' \in ContextOf(n)
    BY <1>1, <1>9, <2>1, NextStepIsContext DEF StoreCursor
  <2>3. "stored" \in Phase(runtime)
    BY <1>9 DEF StoreCursor, Phase
  <2>. QED  BY <1>7, <1>9, <2>2, <2>3 DEF StoreCursor
<1>10. CASE AppendReceipt(w)
  <2>1. "execute" \in Phase(runtime)
    BY <1>1, <1>10 DEF AppendReceipt, Phase
  <2>. QED  BY <1>1, <1>6, <1>7, <1>10, <2>1 DEF AppendReceipt
<1>11. CASE RunTool(w)
  BY <1>1, <1>6, <1>11 DEF RunTool
<1>12. CASE ReadParents(w)
  <2>. DEFINE c == [context[w] EXCEPT !.parents = cursor.parents]
  <2>1. c \in ContextOf(n)
    BY <1>1 DEF ContextOf
  <2>2. context' = [context EXCEPT ![w] = c]
    BY <1>1, <1>12 DEF ReadParents
  <2>3. "parents" \in Phase(runtime)
    BY <1>1, <1>12 DEF ReadParents, Phase
  <2>. HIDE DEF c
  <2>. QED  BY <1>1, <1>12, <2>1, <2>2, <2>3, MoveKeepsCursors DEF ReadParents, n
<1>13. ASSUME NEW step, NEW ps \in SUBSET (1..n), StoreAdvanced(w, step, ps) PROVE Cursors'
  BY <1>1, <1>6, <1>13, NextStepIsContext DEF StoreAdvanced
<1>14. CASE Advance(w)
  BY <1>1, <1>13, <1>14 DEF Advance, ContextOf
<1>15. ASSUME NEW ps \in SUBSET Id, Merge(w, ps) PROVE Cursors'
  <2>1. runtime = "crew"
    BY <1>1, <1>15 DEF Merge, StoreAdvanced, Phase, Cursors
  <2>2. Recorded \subseteq 1..n
    BY <1>1, <2>1 DEF Listing, NoReceiptForgotten
  <2>. QED  BY <1>13, <1>15, <2>2 DEF Merge, Recorded
<1>. QED  BY <1>3, <1>5, <1>8, <1>9, <1>10, <1>11, <1>12, <1>14, <1>15 DEF AgentStep

(* The nodes of a superstep, and its end. *)
LEMMA GraphKeepsCursors ==
  ASSUME Cursors, Listing, GraphStep, runtime' = runtime
  PROVE  Cursors'
<1>. DEFINE n == Len(issued)
<1>1. /\ issued \in Seq(Record) /\ n \in Nat /\ DOMAIN issued = 1..n
      /\ cursor \in ContextOf(n) /\ context \in [Worker -> ContextOf(n)]
      /\ request \in [Worker -> Session]
      /\ at \in [Worker -> Phase(runtime)]
      /\ StartTrajectory \in ContextOf(n) /\ NoSession \in Session
      /\ \A t \in Trajectory : [StartTrajectory EXCEPT !.tid = t] \in ContextOf(n)
      /\ runtime \in {"crew", "tools"} \cup Graph
  BY StartIsContext DEF Cursors
<1>. HIDE DEF n
<1>2. CASE \E bs \in SUBSET Worker : BeginSuperstep(bs)
  <2>1. PICK bs \in SUBSET Worker : BeginSuperstep(bs)
    BY <1>2
  <2>2. /\ runtime \in Graph
        /\ at' = [w \in Worker |-> IF w \in bs THEN "node" ELSE "idle"]
        /\ UNCHANGED <<cursor, issued, request>>
    BY <2>1 DEF BeginSuperstep, Graph
  <2>3. PICK fresh \in [Worker -> Trajectory] :
            context' = [w \in Worker |->
                 IF w \notin bs THEN StartTrajectory
                 ELSE IF cursor # NoContext THEN cursor
                 ELSE [StartTrajectory EXCEPT !.tid = fresh[w]]]
    BY <2>1 DEF BeginSuperstep
  <2>4. \A w \in Worker : [StartTrajectory EXCEPT !.tid = fresh[w]] \in ContextOf(n)
    BY <1>1
  <2>5. context' \in [Worker -> ContextOf(n)]
    BY <1>1, <2>3, <2>4
  <2>6. at' \in [Worker -> Phase(runtime)]
    BY <2>2 DEF Phase, Graph
  <2>7. \A w \in Worker : at'[w] = "idle" => context'[w] = StartTrajectory
    BY <2>2, <2>3
  <2>. QED  BY <1>1, <2>2, <2>5, <2>6, <2>7 DEF Cursors, ParentsPrecede, n
<1>3. ASSUME NEW w \in Worker, NEW r \in Record, r.parents \subseteq 1..n, NEW s \in Session,
             NEW written \in BOOLEAN, NodeIssues(w, r, s, written)
      PROVE  Cursors'
  <2>1. "issued" \in Phase(runtime) /\ request' \in [Worker -> Session]
    BY <1>1, <1>3 DEF NodeIssues, Phase, Graph
  <2>. QED  BY <1>3, <2>1, IssueKeepsCursors DEF NodeIssues, n
<1>4. ASSUME NEW w \in Worker, NEW written \in BOOLEAN,
             \/ RetrievalNode(w, written)
             \/ CustomNode(w, written)
             \/ \E s \in Requested, d \in {"allow", "deny"} : AdmissionNode(w, s, d, written)
      PROVE  Cursors'
  <2>1. context[w] \in ContextOf(n) /\ Requested \subseteq Session
    BY <1>1, SessionAssumption DEF Session
  <2>2. CASE RetrievalNode(w, written)
    <3>1. /\ [EmitTrajectory(context[w], NoSession, "none") EXCEPT !.session = NoSession] \in Record
          /\ [EmitTrajectory(context[w], NoSession, "none") EXCEPT !.session = NoSession].parents \subseteq 1..n
      BY <1>1, <2>1, EmittedIsRecord
    <3>. QED  BY <1>1, <1>3, <2>2, <3>1 DEF RetrievalNode
  <2>3. CASE CustomNode(w, written)
    <3>1. /\ [EmitTrajectory(context[w], NoSession, "none") EXCEPT !.tid = cursor.tid] \in Record
          /\ [EmitTrajectory(context[w], NoSession, "none") EXCEPT !.tid = cursor.tid].parents \subseteq 1..n
      BY <1>1, <2>1, EmittedIsRecord
    <3>. QED  BY <1>1, <1>3, <2>3, <3>1 DEF CustomNode
  <2>4. ASSUME NEW s \in Requested, NEW d \in {"allow", "deny"}, AdmissionNode(w, s, d, written)
        PROVE  Cursors'
    <3>1. /\ EmitTrajectory(context[w], s, d) \in Record
          /\ EmitTrajectory(context[w], s, d).parents \subseteq 1..n
      BY <1>1, <2>1, EmittedIsRecord
    <3>. QED  BY <1>1, <1>3, <2>1, <2>4, <3>1 DEF AdmissionNode
  <2>. QED  BY <1>4, <2>2, <2>3, <2>4
<1>5. ASSUME SuperstepEnds, cursor' \in ContextOf(n) PROVE Cursors'
  <2>1. at' \in [Worker -> Phase(runtime)]
    BY <1>5 DEF SuperstepEnds, Phase
  <2>. QED  BY <1>1, <1>5, <2>1 DEF SuperstepEnds, Cursors, ParentsPrecede, n
<1>6. ASSUME NEW w \in Worker, Join(w) PROVE Cursors'
  <2>1. mine[w] \in 1..n /\ context[w] \in ContextOf(n) /\ request[w] \in Session
    BY <1>1, <1>6 DEF Join, Listing, Holding
  <2>2. cursor' \in ContextOf(n)
    BY <1>1, <1>6, <2>1, NextStepIsContext DEF Join
  <2>. QED  BY <1>5, <1>6, <2>2 DEF Join
<1>7. CASE FailSuperstep
  BY <1>1, <1>5, <1>7 DEF FailSuperstep
<1>. QED  BY <1>2, <1>4, <1>6, <1>7 DEF GraphStep

(* The wrapped tools. *)
LEMMA ToolKeepsCursors ==
  ASSUME Cursors, ToolStep, runtime' = runtime
  PROVE  Cursors'
<1>. DEFINE n == Len(issued)
<1>1. /\ issued \in Seq(Record) /\ n \in Nat
      /\ cursor \in ContextOf(n) /\ context \in [Worker -> ContextOf(n)]
      /\ request \in [Worker -> Session] /\ at \in [Worker -> Phase(runtime)]
      /\ StartTrajectory \in ContextOf(n) /\ NoSession \in Session
  BY StartIsContext DEF Cursors
<1>. HIDE DEF n
<1>2. ASSUME NEW w \in Worker, NEW s \in Requested, CallWrapped(w, s) PROVE Cursors'
  <2>1. "admission" \in Phase(runtime) /\ s \in Session
    BY <1>2, SessionAssumption DEF CallWrapped, Phase, Session
  <2>2. request' \in [Worker -> Session]
    BY <1>1, <1>2, <2>1 DEF CallWrapped
  <2>. QED  BY <1>1, <1>2, <2>1, <2>2, MoveKeepsCursors DEF CallWrapped, n
<1>3. ASSUME NEW w \in Worker, RecordWrapped(w) PROVE Cursors'
  <2>1. runtime = "tools" /\ UNCHANGED <<cursor, issued>>
    BY <1>3 DEF RecordWrapped
  <2>2. CASE Become(w, "execute")
    <3>1. "execute" \in Phase(runtime)
      BY <2>1 DEF Phase
    <3>2. context' = [context EXCEPT ![w] = context[w]]
      BY <1>1, <2>2 DEF Become
    <3>. QED  BY <1>1, <2>1, <2>2, <3>1, <3>2, MoveKeepsCursors DEF Become, n
  <2>3. CASE Return(w)
    <3>1. "idle" \in Phase(runtime)
      BY DEF Phase
    <3>2. request' \in [Worker -> Session]
      BY <1>1, <2>3 DEF Return
    <3>. QED  BY <1>1, <2>1, <2>3, <3>1, <3>2, MoveKeepsCursors DEF Return, n
  <2>. QED  BY <1>3, <2>2, <2>3 DEF RecordWrapped
<1>. QED  BY <1>2, <1>3 DEF ToolStep

LEMMA CursorsStep ==
  ASSUME RuntimeInv, [RuntimeNext]_agentVars
  PROVE  Cursors'
<1>. USE DEF RuntimeInv
<1>1. ASSUME UNCHANGED <<runtime, sessionVars>> PROVE Cursors'
  BY <1>1 DEF sessionVars, Cursors, ParentsPrecede
<1>2. CASE AuditSession /\ runtime' = runtime
  <2>1. /\ UNCHANGED <<at, context, request>> /\ issued' = <<>> /\ cursor' = StartTrajectory
        /\ \A w \in Worker : at[w] = "idle"
    BY <1>2 DEF AuditSession
  <2>2. Len(issued') = 0 /\ issued' \in Seq(Record) /\ DOMAIN issued' = {} /\ 0 \in Nat
    BY <2>1
  <2>3. StartTrajectory \in ContextOf(0)
    BY StartIsContext
  <2>4. context' \in [Worker -> ContextOf(0)]
    BY <2>1, <2>3 DEF Cursors
  <2>. QED  BY <1>2, <2>1, <2>2, <2>3, <2>4 DEF Cursors, ParentsPrecede
<1>3. CASE UNCHANGED agentVars
  BY <1>1, <1>3 DEF agentVars
<1>4. ASSUME NEW w \in Worker, AgentStep(w), runtime' = runtime PROVE Cursors'
  BY <1>4, CrewKeepsCursors
<1>5. CASE GraphStep /\ runtime' = runtime
  BY <1>5, GraphKeepsCursors
<1>6. CASE ToolStep /\ runtime' = runtime
  BY <1>6, ToolKeepsCursors
<1>7. CASE (AuditOther \/ Audited) /\ runtime' = runtime
  BY <1>1, <1>7 DEF AuditOther, Audited
<1>. QED  BY <1>2, <1>3, <1>4, <1>5, <1>6, <1>7 DEF RuntimeNext, AgentNext, Audits

-----------------------------------------------------------------------------
(* What a step does to the receipts: one worker moves, issues, lists or     *)
(* executes; a superstep begins or ends; or the crew is done.               *)

Pending == {w \in Worker : at[w] \in Issuing}

OthersStay(w) == \A v \in Worker \ {w} : at'[v] = at[v] /\ mine'[v] = mine[v]

Moves(w) ==
    /\ OthersStay(w)
    /\ \/ /\ at[w] \notin Holding /\ at'[w] \notin Holding
          /\ \/ at'[w] \notin Issuing
             \/ at[w] \notin Issuing /\ Len(issued) + Cardinality(Pending) < MaxReceipts
       \/ at[w] = "issued" /\ at'[w] = "stored" /\ mine'[w] = mine[w]
    /\ UNCHANGED <<receipts, issued, published, ran>>

Issues(w) ==
    /\ OthersStay(w)
    /\ at[w] \in Issuing /\ at'[w] = "issued" /\ mine'[w] = Len(issued) + 1
    /\ Len(issued') = Len(issued) + 1 /\ \A i \in 1..Len(issued) : issued'[i] = issued[i]
    /\ published' \in {published, Append(published, Len(issued) + 1)}
    /\ UNCHANGED <<receipts, ran>>

Lists(w) ==
    /\ OthersStay(w)
    /\ runtime \notin Graph /\ at[w] \in {"issued", "stored"}
    /\ receipts' = Append(receipts, mine[w])
    /\ \/ at'[w] = "execute" /\ mine'[w] = mine[w] /\ issued[mine[w]].decision = "allow"
       \/ at'[w] = "idle"
    /\ UNCHANGED <<issued, published, ran>>

Runs(w) ==
    /\ OthersStay(w)
    /\ at[w] = "execute" /\ at'[w] = "idle"
    /\ ran' = ran \cup {mine[w]}
    /\ UNCHANGED <<receipts, issued, published>>

Turns ==
    /\ runtime \in Graph
    /\ \A w \in Worker : at'[w] \in {"idle", "node"}
    /\ Len(issued) + Cardinality(Pending') <= MaxReceipts
    /\ UNCHANGED <<issued, published, ran>>

Ends ==
    /\ \A w \in Worker : at[w] = "idle" /\ at'[w] = "idle"
    /\ receipts' = <<>> /\ issued' = <<>> /\ published' = <<>> /\ ran' = {}

Rests == UNCHANGED <<at, mine, receipts, issued, published, ran>>

Effect ==
    /\ mine' \in [Worker -> Nat]
    /\ \/ \E w \in Worker : Moves(w) \/ Issues(w) \/ Lists(w) \/ Runs(w)
       \/ Turns \/ Ends \/ Rests

LEMMA PendingIsFinite ==
  ASSUME NEW P \in SUBSET Worker
  PROVE  IsFiniteSet(P) /\ Cardinality(P) \in Nat
BY SessionAssumption, FS_Subset, FS_CardinalityType

LEMMA CrewEffect ==
  ASSUME Cursors, Room, Listing, NEW w \in Worker, AgentStep(w), runtime' = runtime
  PROVE  Effect
<1>1. /\ mine \in [Worker -> Nat] /\ issued \in Seq(Record) /\ Len(issued) \in Nat
      /\ at \in [Worker -> Phase(runtime)]
  BY DEF Cursors, Listing
<1>2. ASSUME NEW step \in {"verify", "admission", "advance", "merge"}, NEW s, MayIssue,
             ReadCursor(w, step, s)
      PROVE  Effect
  <2>1. OthersStay(w) /\ at[w] = "idle" /\ at'[w] = step
    BY <1>1, <1>2 DEF ReadCursor, OthersStay
  <2>2. UNCHANGED <<mine, receipts, issued, published, ran>> /\ runtime = "crew"
    BY <1>2 DEF ReadCursor
  <2>3. Pending = {v \in Worker : at[v] \in {"verify", "admission"}}
    BY <1>1, <2>2 DEF Pending, Issuing, Phase
  <2>4. Len(issued) + Cardinality(Pending) < MaxReceipts
    BY <1>2, <2>3 DEF MayIssue
  <2>5. Moves(w)
    BY <2>1, <2>2, <2>4 DEF Moves, Holding, Issuing
  <2>. QED  BY <1>1, <2>2, <2>5 DEF Effect
<1>3. CASE CallVerify(w) \/ CallAdvance(w) \/ CallMerge(w) \/ \E s \in Requested : CallAdmission(w, s)
  BY <1>2, <1>3 DEF CallVerify, CallAdvance, CallMerge, CallAdmission, MayAdvance
<1>4. ASSUME NEW step \in {"verify", "admission"}, NEW d \in {"none", "allow", "deny"},
             NEW written \in BOOLEAN, Issue(w, step, d, written)
      PROVE  Effect
  <2>1. issued' = Append(issued, EmitTrajectory(context[w], request[w], d))
    BY <1>4 DEF Issue
  <2>2. EmitTrajectory(context[w], request[w], d) \in Record
    BY <1>1, EmittedIsRecord DEF Cursors
  <2>3. Len(issued') = Len(issued) + 1 /\ \A i \in 1..Len(issued) : issued'[i] = issued[i]
    BY <1>1, <2>1, <2>2, AppendProperties
  <2>4. Issues(w)
    BY <1>1, <1>4, <2>3 DEF Issue, Issues, OthersStay, Issuing
  <2>. QED  BY <1>1, <1>4, <2>4 DEF Effect, Issue
<1>5. CASE \/ \E written \in BOOLEAN : IssueVerify(w, written)
           \/ \E d \in {"allow", "deny"}, written \in BOOLEAN : IssueAdmission(w, d, written)
  BY <1>4, <1>5 DEF IssueVerify, IssueAdmission
<1>6. ASSUME Return(w), at[w] \notin Holding, UNCHANGED <<receipts, issued, published, ran>>
      PROVE  Effect
  BY <1>1, <1>6 DEF Return, Effect, Moves, OthersStay, Holding, Issuing
<1>7. CASE CallRaises(w)
  BY <1>6, <1>7 DEF CallRaises, Holding
<1>8. CASE StoreCursor(w)
  BY <1>1, <1>8 DEF StoreCursor, Become, Effect, Moves, OthersStay
<1>9. CASE AppendReceipt(w)
  <2>1. runtime = "crew" /\ at[w] = "stored" /\ receipts' = Append(receipts, mine[w])
        /\ UNCHANGED <<issued, published, ran>>
    BY <1>1, <1>9 DEF AppendReceipt, Phase, Cursors
  <2>2. CASE issued[mine[w]].decision = "allow" /\ Become(w, "execute")
    BY <1>1, <2>1, <2>2 DEF Become, Effect, Lists, OthersStay, Graph
  <2>3. CASE Return(w)
    BY <1>1, <2>1, <2>3 DEF Return, Effect, Lists, OthersStay, Graph
  <2>. QED  BY <1>9, <2>2, <2>3 DEF AppendReceipt
<1>10. CASE RunTool(w)
  BY <1>1, <1>10 DEF RunTool, Return, Effect, Runs, OthersStay
<1>11. CASE ReadParents(w)
  BY <1>1, <1>11 DEF ReadParents, Effect, Moves, OthersStay, Holding, Issuing
<1>12. CASE Advance(w)
  BY <1>6, <1>12 DEF Advance, StoreAdvanced, Holding
<1>13. CASE \E ps \in SUBSET Id : Merge(w, ps)
  BY <1>6, <1>13 DEF Merge, StoreAdvanced, Holding
<1>. QED  BY <1>3, <1>5, <1>7, <1>8, <1>9, <1>10, <1>11, <1>12, <1>13 DEF AgentStep

LEMMA GraphEffect ==
  ASSUME Cursors, Room, Listing, GraphStep, runtime' = runtime
  PROVE  Effect
<1>1. /\ mine \in [Worker -> Nat] /\ issued \in Seq(Record) /\ Len(issued) \in Nat
      /\ at \in [Worker -> Phase(runtime)]
  BY DEF Cursors, Listing
<1>2. CASE \E bs \in SUBSET Worker : BeginSuperstep(bs)
  <2>1. PICK bs \in SUBSET Worker : BeginSuperstep(bs)
    BY <1>2
  <2>2. /\ runtime \in Graph /\ Len(issued) + Cardinality(bs) <= MaxReceipts
        /\ at' = [w \in Worker |-> IF w \in bs THEN "node" ELSE "idle"]
        /\ UNCHANGED <<issued, published, ran, mine>>
    BY <2>1 DEF BeginSuperstep, Graph
  <2>3. Pending' = bs
    BY <2>2 DEF Pending, Issuing
  <2>. QED  BY <1>1, <2>2, <2>3 DEF Effect, Turns
<1>3. ASSUME NEW w \in Worker, NEW r \in Record, NEW s, NEW written \in BOOLEAN,
             NodeIssues(w, r, s, written)
      PROVE  Effect
  <2>1. Len(issued') = Len(issued) + 1 /\ \A i \in 1..Len(issued) : issued'[i] = issued[i]
    BY <1>1, <1>3, AppendProperties DEF NodeIssues
  <2>2. Issues(w)
    BY <1>1, <1>3, <2>1 DEF NodeIssues, Issues, OthersStay, Issuing
  <2>. QED  BY <1>1, <1>3, <2>2 DEF Effect, NodeIssues
<1>4. ASSUME NEW w \in Worker, NEW written \in BOOLEAN,
             \/ RetrievalNode(w, written)
             \/ CustomNode(w, written)
             \/ \E s \in Requested, d \in {"allow", "deny"} : AdmissionNode(w, s, d, written)
      PROVE  Effect
  <2>1. /\ context[w] \in ContextOf(Len(issued)) /\ cursor \in ContextOf(Len(issued))
        /\ Requested \subseteq Session /\ NoSession \in Session
    BY SessionAssumption DEF Session, Cursors
  <2>2. /\ [EmitTrajectory(context[w], NoSession, "none") EXCEPT !.session = NoSession] \in Record
        /\ [EmitTrajectory(context[w], NoSession, "none") EXCEPT !.tid = cursor.tid] \in Record
        /\ \A s \in Requested, d \in {"allow", "deny"} : EmitTrajectory(context[w], s, d) \in Record
    BY <1>1, <2>1, EmittedIsRecord
  <2>. QED  BY <1>3, <1>4, <2>2 DEF RetrievalNode, CustomNode, AdmissionNode
<1>5. ASSUME SuperstepEnds, runtime \in Graph PROVE Effect
  <2>1. Pending' = {} /\ mine' \in [Worker -> Nat] /\ \A w \in Worker : at'[w] = "idle"
    BY <1>5 DEF SuperstepEnds, Pending, Issuing
  <2>2. Len(issued) <= MaxReceipts
    <3>1. Pending \in SUBSET Worker
      BY DEF Pending
    <3>2. Cardinality(Pending) \in Nat
      BY <3>1, PendingIsFinite
    <3>. QED  BY <1>1, <3>2, SessionAssumption DEF Room, Pending
  <2>3. Len(issued) + Cardinality(Pending') <= MaxReceipts
    BY <1>1, <2>1, <2>2, FS_EmptySet
  <2>. QED  BY <1>5, <2>1, <2>3 DEF SuperstepEnds, Effect, Turns
<1>6. CASE \E w \in Worker : Join(w)
  BY <1>5, <1>6 DEF Join, Graph
<1>7. CASE FailSuperstep
  <2>1. runtime \in Graph
    BY <1>1, <1>7 DEF FailSuperstep, Phase, Graph, Cursors
  <2>. QED  BY <1>5, <1>7, <2>1 DEF FailSuperstep
<1>. QED  BY <1>2, <1>4, <1>6, <1>7 DEF GraphStep

LEMMA ToolEffect ==
  ASSUME Cursors, Listing, ToolStep, runtime' = runtime
  PROVE  Effect
<1>1. /\ mine \in [Worker -> Nat] /\ at \in [Worker -> Phase(runtime)]
  BY DEF Cursors, Listing
<1>2. ASSUME NEW w \in Worker, NEW s \in Requested, CallWrapped(w, s) PROVE Effect
  <2>1. Pending = {v \in Worker : at[v] \in {"verify", "admission"}}
    BY <1>1, <1>2 DEF Pending, Issuing, Phase, CallWrapped
  <2>2. Len(issued) + Cardinality(Pending) < MaxReceipts
    BY <1>2, <2>1 DEF MayIssue, CallWrapped
  <2>3. Moves(w)
    BY <1>1, <1>2, <2>2 DEF CallWrapped, Moves, OthersStay, Holding, Issuing
  <2>. QED  BY <1>1, <1>2, <2>3 DEF CallWrapped, Effect
<1>3. ASSUME NEW w \in Worker, RecordWrapped(w) PROVE Effect
  <2>1. runtime \notin Graph /\ at[w] = "issued" /\ receipts' = Append(receipts, mine[w])
        /\ UNCHANGED <<issued, published, ran>>
    BY <1>3 DEF RecordWrapped, Graph
  <2>2. CASE issued[mine[w]].decision = "allow" /\ Become(w, "execute")
    BY <1>1, <2>1, <2>2 DEF Become, Effect, Lists, OthersStay
  <2>3. CASE Return(w)
    BY <1>1, <2>1, <2>3 DEF Return, Effect, Lists, OthersStay
  <2>. QED  BY <1>3, <2>2, <2>3 DEF RecordWrapped
<1>. QED  BY <1>2, <1>3 DEF ToolStep

LEMMA EveryEffect ==
  ASSUME RuntimeInv, [RuntimeNext]_agentVars
  PROVE  Effect /\ runtime' = runtime
<1>. USE DEF RuntimeInv
<1>1. ASSUME UNCHANGED <<runtime, sessionVars>> PROVE Effect /\ runtime' = runtime
  BY <1>1 DEF sessionVars, Effect, Rests, Listing
<1>2. CASE AuditSession /\ runtime' = runtime
  BY <1>2 DEF AuditSession, Effect, Ends, Listing
<1>3. CASE UNCHANGED agentVars
  BY <1>1, <1>3 DEF agentVars
<1>4. ASSUME NEW w \in Worker, AgentStep(w), runtime' = runtime PROVE Effect
  BY <1>4, CrewEffect
<1>5. CASE GraphStep /\ runtime' = runtime
  BY <1>5, GraphEffect
<1>6. CASE ToolStep /\ runtime' = runtime
  BY <1>6, ToolEffect
<1>7. CASE (AuditOther \/ Audited) /\ runtime' = runtime
  BY <1>1, <1>7 DEF AuditOther, Audited
<1>. QED  BY <1>2, <1>3, <1>4, <1>5, <1>6, <1>7 DEF RuntimeNext, AgentNext, Audits

-----------------------------------------------------------------------------
(* The bound, what was published, and the places of a receipt.              *)

LEMMA RoomStep ==
  ASSUME RuntimeInv, [RuntimeNext]_agentVars
  PROVE  Room'
<1>1. /\ Effect
      /\ issued \in Seq(Record) /\ Len(issued) \in Nat /\ MaxReceipts \in Nat
      /\ Len(issued) + Cardinality(Pending) <= MaxReceipts
  BY EveryEffect, SessionAssumption DEF RuntimeInv, Cursors, Room, Pending
<1>2. /\ Pending \in SUBSET Worker /\ Pending' \in SUBSET Worker
      /\ IsFiniteSet(Pending) /\ Cardinality(Pending) \in Nat
      /\ IsFiniteSet(Pending') /\ Cardinality(Pending') \in Nat
  <2>1. Pending \in SUBSET Worker /\ Pending' \in SUBSET Worker
    BY DEF Pending
  <2>. QED  BY <2>1, PendingIsFinite
<1>3. Room' <=> Len(issued') + Cardinality(Pending') <= MaxReceipts
  BY DEF Room, Pending
<1>4. ASSUME Pending' \subseteq Pending, Len(issued') \in Nat, Len(issued') <= Len(issued) PROVE Room'
  <2>1. Cardinality(Pending') <= Cardinality(Pending)
    BY <1>2, <1>4, FS_Subset
  <2>. HIDE DEF Pending
  <2>2. Len(issued') + Cardinality(Pending') <= MaxReceipts
    BY <1>1, <1>2, <1>4, <2>1
  <2>. QED  BY <1>3, <2>2
<1>5. ASSUME NEW w \in Worker, Moves(w) PROVE Room'
  <2>1. CASE at'[w] \notin Issuing
    <3>1. Pending' \subseteq Pending
      BY <1>5, <2>1 DEF Moves, OthersStay, Pending
    <3>2. issued' = issued
      BY <1>5 DEF Moves
    <3>. QED  BY <1>1, <1>4, <3>1, <3>2
  <2>2. CASE at'[w] \in Issuing
    <3>1. /\ at[w] \notin Issuing /\ Len(issued) + Cardinality(Pending) < MaxReceipts
          /\ issued' = issued
      BY <1>5, <2>2 DEF Moves, Issuing, Holding
    <3>2. Pending' = Pending \cup {w} /\ w \notin Pending
      BY <1>5, <2>2, <3>1 DEF Moves, OthersStay, Pending
    <3>3. Cardinality(Pending') = Cardinality(Pending) + 1
      BY <1>2, <3>2, FS_AddElement
    <3>4. Len(issued') + Cardinality(Pending') <= MaxReceipts
      BY <1>1, <1>2, <3>1, <3>3
    <3>. QED  BY <1>3, <3>4
  <2>. QED  BY <2>1, <2>2
<1>6. ASSUME NEW w \in Worker, Issues(w) PROVE Room'
  <2>1. Pending' = Pending \ {w} /\ w \in Pending /\ Len(issued') = Len(issued) + 1
    BY <1>6 DEF Issues, OthersStay, Pending, Issuing
  <2>2. Cardinality(Pending') = Cardinality(Pending) - 1
    BY <1>2, <2>1, FS_RemoveElement
  <2>3. Len(issued') + Cardinality(Pending') <= MaxReceipts
    BY <1>1, <1>2, <2>1, <2>2
  <2>. QED  BY <1>3, <2>3
<1>7. ASSUME NEW w \in Worker, Lists(w) \/ Runs(w) PROVE Room'
  <2>1. Pending' \subseteq Pending /\ issued' = issued
    BY <1>7 DEF Lists, Runs, OthersStay, Pending, Issuing
  <2>. QED  BY <1>1, <1>4, <2>1
<1>8. CASE Turns
  BY <1>3, <1>8 DEF Turns
<1>9. CASE Ends
  <2>1. Pending' \subseteq Pending /\ Len(issued') = 0
    BY <1>9 DEF Ends, Pending, Issuing
  <2>. QED  BY <1>1, <1>4, <2>1
<1>10. CASE Rests
  <2>1. Pending' \subseteq Pending /\ issued' = issued
    BY <1>10 DEF Rests, Pending
  <2>. QED  BY <1>1, <1>4, <2>1
<1>. QED  BY <1>1, <1>5, <1>6, <1>7, <1>8, <1>9, <1>10 DEF Effect

LEMMA PublicationsStep ==
  ASSUME RuntimeInv, [RuntimeNext]_agentVars
  PROVE  Publications'
<1>1. /\ Effect
      /\ issued \in Seq(Record) /\ Len(issued) \in Nat
      /\ published \in Seq(Nat) /\ Len(published) \in Nat /\ Len(published) <= Len(issued)
      /\ DOMAIN published = 1..Len(published)
      /\ \A i \in 1..Len(published) : published[i] \in 1..Len(issued)
      /\ Len(published) = Len(issued) => \A i \in 1..Len(published) : published[i] = i
  BY EveryEffect DEF RuntimeInv, Cursors, Publications
<1>2. ASSUME UNCHANGED <<issued, published>> PROVE Publications'
  BY <1>2 DEF RuntimeInv, Publications
<1>3. ASSUME NEW w \in Worker, Issues(w) PROVE Publications'
  <2>1. Len(issued') = Len(issued) + 1
    BY <1>3 DEF Issues
  <2>2. CASE published' = published
    <3>0. Len(published') = Len(published)
      BY <2>2
    <3>1. Len(published') <= Len(issued') /\ Len(published') # Len(issued')
      <4>1. \A a, b \in Nat : a <= b => a <= b + 1 /\ a # b + 1
        OBVIOUS
      <4>2. Len(published) <= Len(issued) + 1 /\ Len(published) # Len(issued) + 1
        BY <1>1, <4>1
      <4>. QED  BY <2>1, <3>0, <4>2
    <3>2. \A i \in DOMAIN published' : published'[i] \in 1..Len(issued')
      BY <1>1, <2>1, <2>2
    <3>. QED  BY <1>1, <2>2, <3>1, <3>2 DEF Publications
  <2>3. CASE published' = Append(published, Len(issued) + 1)
    <3>1. /\ published' \in Seq(Nat) /\ Len(published') = Len(published) + 1
          /\ \A i \in 1..Len(published) : published'[i] = published[i]
          /\ published'[Len(published) + 1] = Len(issued) + 1
          /\ DOMAIN published' = 1..(Len(published) + 1)
      BY <1>1, <2>3, AppendProperties
    <3>2. \A i \in 1..(Len(published) + 1) : i \in 1..Len(published) \/ i = Len(published) + 1
      BY <1>1
    <3>3. Len(published') <= Len(issued')
      BY <1>1, <2>1, <3>1
    <3>4. \A i \in 1..(Len(published) + 1) : published'[i] \in 1..Len(issued')
      BY <1>1, <2>1, <3>1, <3>2
    <3>5. ASSUME Len(published') = Len(issued'), NEW i \in 1..(Len(published) + 1)
          PROVE  published'[i] = i
      <4>1. Len(published) = Len(issued)
        BY <1>1, <2>1, <3>1, <3>5
      <4>. QED  BY <1>1, <3>1, <3>2, <4>1
    <3>. QED  BY <3>1, <3>3, <3>4, <3>5 DEF Publications
  <2>. QED  BY <1>3, <2>2, <2>3 DEF Issues
<1>4. CASE Ends
  BY <1>4 DEF Ends, Publications
<1>. QED  BY <1>1, <1>2, <1>3, <1>4 DEF Effect, Moves, Lists, Runs, Turns, Rests

(* No worker takes, lists or drops a receipt. *)
LEMMA SameHolders ==
  ASSUME Listing, mine' \in [Worker -> Nat], UNCHANGED <<runtime, receipts, issued, ran>>,
         \A v \in Worker :
            /\ at'[v] \in {"issued", "stored"} <=> at[v] \in {"issued", "stored"}
            /\ at'[v] = "execute" <=> at[v] = "execute"
            /\ at'[v] \in Holding => mine'[v] = mine[v]
  PROVE  Listing'
<1>1. Recorded' = Recorded /\ DOMAIN issued' = DOMAIN issued
  BY DEF Recorded
<1>2. \A v \in Worker : at'[v] \in Holding => at[v] \in Holding /\ mine'[v] = mine[v]
  BY DEF Holding
<1>3. {mine'[v] : v \in {u \in Worker : at'[u] \in {"issued", "stored"}}}
        = {mine[v] : v \in {u \in Worker : at[u] \in {"issued", "stored"}}}
  <2>1. \A v \in {u \in Worker : at[u] \in {"issued", "stored"}} : mine'[v] = mine[v]
    BY DEF Holding
  <2>2. {u \in Worker : at'[u] \in {"issued", "stored"}} = {u \in Worker : at[u] \in {"issued", "stored"}}
    OBVIOUS
  <2>. QED  BY <2>1, <2>2
<1>4. NoReceiptForgotten'
  BY <1>1, <1>3 DEF Listing, NoReceiptForgotten
<1>5. ExecutedWasAllowed'
  <2>1. \A v \in Worker : at'[v] = "execute" => at[v] = "execute" /\ mine'[v] = mine[v]
    BY <1>2 DEF Holding
  <2>. QED  BY <1>1, <2>1 DEF Listing, ExecutedWasAllowed
<1>6. \A v \in Worker : at'[v] \in {"issued", "stored"} => mine'[v] = mine[v]
  BY <1>2 DEF Holding
<1>. QED  BY <1>1, <1>2, <1>4, <1>5, <1>6 DEF Listing

LEMMA IssuesKeepsListing ==
  ASSUME Cursors, Listing, mine' \in [Worker -> Nat], issued' \in Seq(Record),
         NEW w \in Worker, Issues(w), runtime' = runtime
  PROVE  Listing'
<1>. DEFINE k == Len(issued) + 1
            Held == {mine[v] : v \in {u \in Worker : at[u] \in {"issued", "stored"}}}
<1>1. /\ Len(issued) \in Nat /\ DOMAIN issued = 1..Len(issued) /\ DOMAIN issued' = 1..k
      /\ k \notin 1..Len(issued) /\ 1..k = 1..Len(issued) \cup {k}
      /\ \A i \in 1..Len(issued) : issued'[i] = issued[i]
      /\ receipts' = receipts /\ ran' = ran /\ Recorded' = Recorded
  BY DEF Cursors, Issues, Recorded
<1>2. /\ \A v \in Worker : v # w => at'[v] = at[v] /\ mine'[v] = mine[v]
      /\ at'[w] = "issued" /\ mine'[w] = k /\ at[w] \notin Holding
  BY DEF Issues, OthersStay, Issuing, Holding
<1>3. \A v \in Worker : at[v] \in Holding => v # w /\ mine[v] \in 1..Len(issued)
  BY <1>1, <1>2 DEF Listing
<1>. HIDE DEF k
<1>4. \A v \in Worker : at'[v] \in Holding => v = w \/ at[v] \in Holding
  BY <1>2
<1>5. \A v \in Worker : at'[v] \in Holding => mine'[v] \in DOMAIN issued'
  BY <1>1, <1>2, <1>3, <1>4
<1>6. \A u, v \in Worker : (at'[u] \in Holding /\ at'[v] \in Holding /\ mine'[u] = mine'[v]) => u = v
  BY <1>1, <1>2, <1>3, <1>4 DEF Listing
<1>7. {mine'[v] : v \in {u \in Worker : at'[u] \in {"issued", "stored"}}} = Held \cup {k}
  <2>1. {u \in Worker : at'[u] \in {"issued", "stored"}} = {u \in Worker : at[u] \in {"issued", "stored"}} \cup {w}
    BY <1>2
  <2>2. \A v \in {u \in Worker : at[u] \in {"issued", "stored"}} : mine'[v] = mine[v]
    BY <1>2 DEF Holding
  <2>. QED  BY <1>2, <2>1, <2>2
<1>8. NoReceiptForgotten'
  <2>1. CASE runtime \in {"crew", "tools"}
    <3>1. DOMAIN issued = Recorded \cup Held
      BY <2>1 DEF Listing, NoReceiptForgotten
    <3>2. \A i, j \in DOMAIN receipts : receipts[i] = receipts[j] => i = j
      BY <2>1 DEF Listing, NoReceiptForgotten
    <3>. QED  BY <1>1, <1>7, <3>1, <3>2 DEF NoReceiptForgotten
  <2>2. CASE runtime \notin {"crew", "tools"}
    BY <2>2 DEF NoReceiptForgotten
  <2>. QED  BY <2>1, <2>2
<1>9. runtime \notin Graph => Recorded \subseteq 1..Len(issued)
  BY <1>1 DEF Listing, NoReceiptForgotten, Cursors
<1>10. ExecutedWasAllowed'
  <2>1. \A i \in ran' : i \in 1..Len(issued)
    BY <1>1, <1>9 DEF Listing, ExecutedWasAllowed
  <2>2. \A v \in Worker : at'[v] = "execute" =>
            at[v] = "execute" /\ mine'[v] = mine[v] /\ mine[v] \in 1..Len(issued)
    BY <1>2, <1>3 DEF Holding
  <2>. QED  BY <1>1, <2>1, <2>2 DEF Listing, ExecutedWasAllowed
<1>11. \A v \in Worker : at'[v] \in {"issued", "stored"} =>
           v = w \/ (at[v] \in {"issued", "stored"} /\ mine'[v] = mine[v])
  BY <1>2
<1>12. runtime' \notin Graph =>
          \A v \in Worker : at'[v] \in {"issued", "stored"} => mine'[v] \notin Recorded'
  BY <1>1, <1>2, <1>9, <1>11 DEF Listing
<1>13. (runtime' \in Graph => ran' = {}) /\ (runtime' \notin Graph => receipts' \in Seq(Nat))
  BY <1>1 DEF Listing
<1>. QED  BY <1>5, <1>6, <1>8, <1>10, <1>12, <1>13 DEF Listing

LEMMA ListsKeepsListing ==
  ASSUME Cursors, Listing, mine' \in [Worker -> Nat],
         NEW w \in Worker, Lists(w), runtime' = runtime
  PROVE  Listing'
<1>. DEFINE k == mine[w]
<1>1. /\ issued' = issued /\ published' = published /\ ran' = ran
      /\ runtime \in {"crew", "tools"} /\ runtime \notin Graph
      /\ \A v \in Worker : v # w => at'[v] = at[v] /\ mine'[v] = mine[v]
      /\ at[w] \in {"issued", "stored"}
      /\ \/ at'[w] = "execute" /\ mine'[w] = k /\ issued[k].decision = "allow"
         \/ at'[w] = "idle"
  BY DEF Lists, OthersStay, Cursors, Graph
<1>2. receipts \in Seq(Nat) /\ k \in Nat /\ k \in DOMAIN issued /\ k \notin Recorded
  BY <1>1 DEF Listing, Holding
<1>3. \A v \in Worker : (at[v] \in Holding /\ v # w) => mine[v] # k
  BY <1>1 DEF Listing, Holding
<1>. HIDE DEF k
<1>4. /\ receipts' = Append(receipts, k) /\ receipts' \in Seq(Nat)
      /\ Len(receipts) \in Nat /\ DOMAIN receipts = 1..Len(receipts)
      /\ DOMAIN receipts' = 1..(Len(receipts) + 1)
      /\ \A i \in 1..Len(receipts) : receipts'[i] = receipts[i]
      /\ receipts'[Len(receipts) + 1] = k
  BY <1>2, AppendProperties DEF Lists, k
<1>5. \A i \in DOMAIN receipts' : i \in DOMAIN receipts \/ i = Len(receipts) + 1
  BY <1>4
<1>6. Recorded' = Recorded \cup {k}
  <2>1. \A i \in DOMAIN receipts : i \in DOMAIN receipts' /\ receipts'[i] = receipts[i]
    BY <1>4
  <2>2. Len(receipts) + 1 \in DOMAIN receipts'
    BY <1>4
  <2>. QED  BY <1>4, <1>5, <2>1, <2>2 DEF Recorded
<1>7. \A i, j \in DOMAIN receipts' : receipts'[i] = receipts'[j] => i = j
  <2>1. \A i \in DOMAIN receipts : receipts[i] # k
    BY <1>2 DEF Recorded
  <2>2. \A i, j \in DOMAIN receipts : receipts[i] = receipts[j] => i = j
    BY <1>1 DEF Listing, NoReceiptForgotten
  <2>. QED  BY <1>4, <1>5, <2>1, <2>2
<1>8. \A v \in Worker : at'[v] \in {"issued", "stored"} =>
          v # w /\ at[v] = at'[v] /\ mine'[v] = mine[v] /\ mine[v] # k
  BY <1>1, <1>3 DEF Holding
<1>9. \A v \in Worker : (at[v] \in {"issued", "stored"} /\ mine[v] # k) =>
          at'[v] \in {"issued", "stored"} /\ mine'[v] = mine[v]
  BY <1>1 DEF k
<1>10. NoReceiptForgotten'
  <2>1. DOMAIN issued = Recorded \cup {mine[v] : v \in {u \in Worker : at[u] \in {"issued", "stored"}}}
    BY <1>1 DEF Listing, NoReceiptForgotten
  <2>2. DOMAIN issued' \subseteq Recorded' \cup {mine'[v] : v \in {u \in Worker : at'[u] \in {"issued", "stored"}}}
    BY <1>1, <1>6, <1>9, <2>1
  <2>3. Recorded' \cup {mine'[v] : v \in {u \in Worker : at'[u] \in {"issued", "stored"}}} \subseteq DOMAIN issued'
    BY <1>1, <1>2, <1>6, <1>8, <2>1
  <2>. QED  BY <1>7, <2>2, <2>3 DEF NoReceiptForgotten
<1>11. \A v \in Worker : at'[v] = "execute" =>
           \/ v = w /\ mine'[v] = k /\ issued[k].decision = "allow"
           \/ v # w /\ at[v] = "execute" /\ mine'[v] = mine[v] /\ mine[v] # k
  BY <1>1, <1>3 DEF Holding
<1>12. ExecutedWasAllowed'
  <2>1. ran \subseteq Recorded
    BY DEF Listing, ExecutedWasAllowed
  <2>2. \A i \in ran' : issued'[i].decision = "allow" /\ i \in Recorded'
    BY <1>1, <1>6 DEF Listing, ExecutedWasAllowed
  <2>3. ASSUME NEW v \in Worker, NEW u \in Worker, at'[v] = "execute"
        PROVE  /\ issued'[mine'[v]].decision = "allow"
               /\ mine'[v] \in Recorded' \ ran'
               /\ (at'[u] = "execute" /\ mine'[u] = mine'[v]) => v = u
    BY <1>1, <1>2, <1>6, <1>11, <2>1, <2>3 DEF Listing, ExecutedWasAllowed
  <2>. QED  BY <2>2, <2>3 DEF ExecutedWasAllowed
<1>13. \A v \in Worker : at'[v] \in Holding =>
           \/ v = w /\ mine'[v] = k
           \/ v # w /\ at[v] \in Holding /\ mine'[v] = mine[v] /\ mine[v] # k
  BY <1>1, <1>3 DEF Holding
<1>14. /\ \A v \in Worker : at'[v] \in Holding => mine'[v] \in DOMAIN issued'
       /\ \A u, v \in Worker : (at'[u] \in Holding /\ at'[v] \in Holding /\ mine'[u] = mine'[v]) => u = v
  BY <1>1, <1>2, <1>13 DEF Listing
<1>15. \A v \in Worker : at'[v] \in {"issued", "stored"} => mine'[v] \notin Recorded'
  BY <1>1, <1>6, <1>8 DEF Listing
<1>. QED  BY <1>1, <1>4, <1>10, <1>12, <1>14, <1>15 DEF Listing

LEMMA ListingStep ==
  ASSUME RuntimeInv, [RuntimeNext]_agentVars
  PROVE  Listing'
<1>1. /\ Effect /\ runtime' = runtime /\ mine' \in [Worker -> Nat]
      /\ Cursors /\ Listing /\ Cursors' /\ issued' \in Seq(Record)
  BY EveryEffect, CursorsStep DEF RuntimeInv, Effect, Cursors
<1>2. ASSUME NEW w \in Worker, Moves(w) PROVE Listing'
  <2>1. \A v \in Worker : v # w => at'[v] = at[v] /\ mine'[v] = mine[v]
    BY <1>2 DEF Moves, OthersStay
  <2>2. CASE at[w] \notin Holding /\ at'[w] \notin Holding
    <3>1. \A v \in Worker :
            /\ at'[v] \in {"issued", "stored"} <=> at[v] \in {"issued", "stored"}
            /\ at'[v] = "execute" <=> at[v] = "execute"
            /\ at'[v] \in Holding => mine'[v] = mine[v]
      BY <2>1, <2>2 DEF Holding
    <3>. QED  BY <1>1, <1>2, <3>1, SameHolders DEF Moves
  <2>3. CASE at[w] = "issued" /\ at'[w] = "stored" /\ mine'[w] = mine[w]
    <3>1. \A v \in Worker :
            /\ at'[v] \in {"issued", "stored"} <=> at[v] \in {"issued", "stored"}
            /\ at'[v] = "execute" <=> at[v] = "execute"
            /\ at'[v] \in Holding => mine'[v] = mine[v]
      BY <2>1, <2>3 DEF Holding
    <3>. QED  BY <1>1, <1>2, <3>1, SameHolders DEF Moves
  <2>. QED  BY <1>2, <2>2, <2>3 DEF Moves
<1>3. ASSUME NEW w \in Worker, Issues(w) PROVE Listing'
  BY <1>1, <1>3, IssuesKeepsListing
<1>4. ASSUME NEW w \in Worker, Lists(w) PROVE Listing'
  BY <1>1, <1>4, ListsKeepsListing
<1>5. ASSUME NEW w \in Worker, Runs(w) PROVE Listing'
  <2>1. /\ \A v \in Worker : v # w => at'[v] = at[v] /\ mine'[v] = mine[v]
        /\ at[w] = "execute" /\ at'[w] = "idle" /\ ran' = ran \cup {mine[w]}
        /\ receipts' = receipts /\ issued' = issued /\ Recorded' = Recorded
    BY <1>5 DEF Runs, OthersStay, Recorded
  <2>2. runtime \notin Graph
    BY <1>1, <2>1 DEF Cursors, Phase, Graph
  <2>3. \A v \in Worker : at'[v] \in Holding => v # w /\ at[v] = at'[v] /\ mine'[v] = mine[v]
    BY <2>1 DEF Holding
  <2>4. {mine'[v] : v \in {u \in Worker : at'[u] \in {"issued", "stored"}}}
          = {mine[v] : v \in {u \in Worker : at[u] \in {"issued", "stored"}}}
    <3>1. {u \in Worker : at'[u] \in {"issued", "stored"}} = {u \in Worker : at[u] \in {"issued", "stored"}}
      BY <2>1
    <3>2. \A v \in {u \in Worker : at[u] \in {"issued", "stored"}} : mine'[v] = mine[v]
      BY <2>1
    <3>. QED  BY <3>1, <3>2
  <2>5. NoReceiptForgotten'
    BY <1>1, <2>1, <2>4 DEF Listing, NoReceiptForgotten
  <2>6. ExecutedWasAllowed'
    <3>1. issued[mine[w]].decision = "allow" /\ mine[w] \in Recorded
      BY <1>1, <2>1 DEF Listing, ExecutedWasAllowed
    <3>2. \A v \in Worker : at'[v] = "execute" =>
              at[v] = "execute" /\ mine'[v] = mine[v] /\ mine[v] # mine[w]
      BY <1>1, <2>1, <2>3 DEF Listing, ExecutedWasAllowed, Holding
    <3>. QED  BY <1>1, <2>1, <3>1, <3>2 DEF Listing, ExecutedWasAllowed
  <2>7. \A v \in Worker : at'[v] \in {"issued", "stored"} => at[v] = at'[v] /\ mine'[v] = mine[v]
    BY <2>3 DEF Holding
  <2>. QED  BY <1>1, <2>1, <2>2, <2>3, <2>5, <2>6, <2>7 DEF Listing
<1>6. CASE Turns
  <2>1. /\ runtime \in Graph /\ runtime \notin {"crew", "tools"} /\ issued' = issued /\ ran' = ran
        /\ \A v \in Worker : at'[v] \notin Holding /\ at'[v] # "execute"
    BY <1>6 DEF Turns, Graph, Holding
  <2>2. ran' = {}
    BY <1>1, <2>1 DEF Listing
  <2>3. NoReceiptForgotten' /\ ExecutedWasAllowed'
    BY <1>1, <2>1, <2>2 DEF NoReceiptForgotten, ExecutedWasAllowed
  <2>. QED  BY <1>1, <2>1, <2>2, <2>3 DEF Listing
<1>7. CASE Ends
  <2>1. /\ receipts' = <<>> /\ issued' = <<>> /\ ran' = {}
        /\ \A v \in Worker : at'[v] = "idle"
    BY <1>7 DEF Ends
  <2>2. Recorded' = {} /\ DOMAIN issued' = {} /\ DOMAIN receipts' = {}
    BY <2>1 DEF Recorded
  <2>3. {mine'[v] : v \in {u \in Worker : at'[u] \in {"issued", "stored"}}} = {}
    BY <2>1
  <2>4. NoReceiptForgotten' /\ ExecutedWasAllowed'
    BY <2>1, <2>2, <2>3 DEF NoReceiptForgotten, ExecutedWasAllowed
  <2>. QED  BY <1>1, <2>1, <2>2, <2>4 DEF Listing, Holding
<1>8. CASE Rests
  BY <1>1, <1>8, SameHolders DEF Rests
<1>. QED  BY <1>1, <1>2, <1>3, <1>4, <1>5, <1>6, <1>7, <1>8 DEF Effect

-----------------------------------------------------------------------------
(* The archive.                                                            *)

(* Ids count up from 1 and parents precede, so each receipt has one file,   *)
(* the first is a root, and a cyclic set would have no least element.       *)
LEMMA WholeSessionIsSound ==
  ASSUME files \in Seq(File), WholeSession
  PROVE  /\ EveryReceiptOk /\ HasTrajectoryBlock /\ SharedTrajectoryId
         /\ NoDanglingParents /\ Acyclic /\ HasRootStep
<1>. DEFINE n == Len(files)
<1>1. /\ n \in Nat /\ n >= 1 /\ DOMAIN files = 1..n
      /\ \A i \in 1..n : files[i].id = i /\ files[i].parents \subseteq 1..(i - 1)
  BY DEF WholeSession
<1>. HIDE DEF n
<1>2. EveryReceiptOk
  BY DEF EveryReceiptOk, SignatureOk, VerifyReceiptSignature, ProofsOk, WholeSession
<1>3. HasTrajectoryBlock /\ SharedTrajectoryId
  BY DEF HasTrajectoryBlock, SharedTrajectoryId, WholeSession
<1>4. Node = 1..n
  BY <1>1 DEF Node
<1>5. \A i \in 1..n : Parents(i) \subseteq 1..(i - 1)
  <2>. SUFFICES ASSUME NEW i \in 1..n PROVE Parents(i) \subseteq 1..(i - 1)
    OBVIOUS
  <2>1. LastFile(i) \in 1..n /\ files[LastFile(i)].id = i
    BY <1>1, <1>4, LastFileExists
  <2>2. LastFile(i) = i
    BY <1>1, <2>1
  <2>. QED  BY <1>1, <2>2 DEF Parents
<1>6. NoDanglingParents
  <2>1. \A i \in 1..n : 1..(i - 1) \subseteq 1..n
    BY <1>1
  <2>. QED  BY <1>1, <1>4, <2>1 DEF NoDanglingParents
<1>7. HasRootStep
  <2>1. 1 \in 1..n /\ 1..(1 - 1) = {}
    BY <1>1
  <2>. QED  BY <1>1, <2>1 DEF HasRootStep
<1>8. Acyclic
  <2>. SUFFICES ASSUME NEW S \in SUBSET Node, CyclicSet(S) PROVE FALSE
    BY DEF Acyclic
  <2>1. S # {} /\ S \in SUBSET Nat
    BY <1>1, <1>4 DEF CyclicSet
  <2>2. PICK x \in S : \A y \in S : x <= y
    BY <2>1, LeastElement
  <2>3. PICK p \in S : p \in Parents(x)
    BY DEF CyclicSet
  <2>4. p \in 1..(x - 1) /\ x \in Nat
    BY <1>4, <1>5, <2>1, <2>3
  <2>5. p < x
    BY <2>4
  <2>. QED  BY <2>1, <2>2, <2>4, <2>5
<1>. QED  BY <1>2, <1>3, <1>6, <1>7, <1>8

(* The files of a session are well formed. *)
LEMMA SessionFiles ==
  ASSUME Cursors, Room, Publications
  PROVE  [i \in DOMAIN published |-> FileOf(published[i])] \in Seq(File)
<1>1. /\ issued \in Seq(Record) /\ Len(issued) \in Nat
      /\ published \in Seq(Nat) /\ DOMAIN published = 1..Len(published) /\ Len(published) \in Nat
      /\ \A i \in 1..Len(published) : published[i] \in 1..Len(issued)
  BY DEF Cursors, Publications
<1>2. Len(issued) <= MaxReceipts /\ MaxReceipts \in Nat
  <2>1. Pending \in SUBSET Worker
    BY DEF Pending
  <2>2. Cardinality(Pending) \in Nat /\ Len(issued) + Cardinality(Pending) <= MaxReceipts
    BY <2>1, PendingIsFinite DEF Room, Pending
  <2>. QED  BY <1>1, <2>2, SessionAssumption
<1>3. 1..Len(issued) \subseteq Id
  BY <1>1, <1>2, SessionAssumption
<1>4. ASSUME NEW i \in 1..Len(issued) PROVE FileOf(i) \in File
  <2>1. issued[i] \in Record
    BY <1>1, <1>4
  <2>2. 1..(i - 1) \subseteq 1..Len(issued)
    BY <1>1
  <2>3. issued[i].parents \in SUBSET Id
    BY <1>1, <1>3, <2>2 DEF Cursors, ParentsPrecede
  <2>. QED  BY <1>3, <2>1, <2>3 DEF FileOf, File, Record
<1>5. \A i \in 1..Len(published) : FileOf(published[i]) \in File
  BY <1>1, <1>4
<1>. QED  BY <1>1, <1>5

LEMMA ArchiveStep ==
  ASSUME RuntimeInv, [RuntimeNext]_agentVars
  PROVE  Archive'
<1>1. ASSUME UNCHANGED <<args, files, origin>>, audit' = audit \/ audit # "idle" PROVE Archive'
  <2>1. /\ WholeSession' = WholeSession
        /\ HasTrajectoryBlock' = HasTrajectoryBlock /\ SharedTrajectoryId' = SharedTrajectoryId
    BY <1>1 DEF WholeSession, HasTrajectoryBlock, SharedTrajectoryId
  <2>. QED  BY <1>1, <2>1 DEF RuntimeInv, Archive
<1>2. CASE AuditSession
  <2>. DEFINE fs == [i \in DOMAIN published |-> FileOf(published[i])]
              mixed == \E i, j \in DOMAIN published :
                          \/ issued[published[i]].tid # issued[published[j]].tid
                          \/ issued[published[i]].tid = NoTrajectory
  <2>1. /\ files' = fs /\ fs # <<>>
        /\ args' = [key |-> "none", secret |-> TRUE, unsigned |-> FALSE]
        /\ origin' = "several" => mixed
        /\ origin' = "whole session" => ~ mixed /\ Len(published) = Len(issued)
    BY <1>2 DEF AuditSession, Collect
  <2>2. /\ DOMAIN fs = DOMAIN published
        /\ \A i \in DOMAIN published :
              /\ fs[i].id = published[i] /\ fs[i].tid = issued[published[i]].tid
              /\ fs[i].parents = issued[published[i]].parents
              /\ fs[i].alg = "hmac-sha256" /\ fs[i].intact /\ fs[i].proofs = {"none"}
    BY DEF FileOf
  <2>. HIDE DEF fs
  <2>3. ASSUME origin' = "whole session" PROVE WholeSession'
    <3>1. ~ mixed /\ Len(published) = Len(issued)
      BY <2>1, <2>3
    <3>2. \A i \in DOMAIN published : published[i] = i /\ i \in DOMAIN issued
      <4>1. issued \in Seq(Record) /\ DOMAIN issued = 1..Len(issued)
        BY DEF RuntimeInv, Cursors
      <4>2. \A i \in DOMAIN published : published[i] = i /\ published[i] \in 1..Len(issued)
        BY <3>1 DEF RuntimeInv, Publications
      <4>. QED  BY <4>1, <4>2
    <3>3. \A i \in DOMAIN published : fs[i].id = i /\ fs[i].parents \subseteq 1..(i - 1)
      BY <2>2, <3>2 DEF RuntimeInv, Cursors, ParentsPrecede
    <3>4. /\ \A i \in DOMAIN published : fs[i].tid # NoTrajectory
          /\ \A i, j \in DOMAIN published : fs[i].tid = fs[j].tid
      BY <2>2, <3>1
    <3>. HIDE DEF mixed
    <3>5. /\ args'.key = "none" /\ args'.secret /\ ~ args'.unsigned
      BY <2>1
    <3>6. \A i \in DOMAIN fs :
              /\ fs[i].id = i /\ fs[i].parents \subseteq 1..(i - 1)
              /\ fs[i].tid # NoTrajectory
              /\ fs[i].alg = "hmac-sha256" /\ fs[i].intact /\ fs[i].proofs = {"none"}
      BY <2>2, <3>3, <3>4
    <3>7. \A i, j \in DOMAIN fs : fs[i].tid = fs[j].tid
      BY <2>2, <3>4
    <3>. QED  BY <2>1, <3>5, <3>6, <3>7 DEF WholeSession
  <2>4. ASSUME origin' = "several" PROVE ~ (HasTrajectoryBlock' /\ SharedTrajectoryId')
    BY <2>1, <2>2, <2>4 DEF HasTrajectoryBlock, SharedTrajectoryId
  <2>. QED  BY <2>3, <2>4 DEF Archive
<1>3. CASE AuditOther
  BY <1>3 DEF AuditOther, Archive
<1>4. CASE Audited
  <2>1. UNCHANGED <<args, files, origin>> /\ audit # "idle"
    BY <1>4 DEF Audited, AuditStep, ReportOne, RefuseArchive, BeginSearch, StartAt, Follow,
       Backtrack, Report, ReportAcyclic, Searching
  <2>. QED  BY <1>1, <2>1
<1>5. CASE \E w \in Worker : AgentStep(w) /\ UNCHANGED origin
  <2>1. UNCHANGED auditVars
    BY <1>5 DEF AgentStep, CallVerify, CallAdmission, CallAdvance, CallMerge, ReadCursor,
       IssueVerify, IssueAdmission, Issue, CallRaises, StoreCursor, AppendReceipt, RunTool,
       ReadParents, Advance, Merge, StoreAdvanced
  <2>. QED  BY <1>1, <1>5, <2>1 DEF auditVars
<1>6. CASE UNCHANGED <<origin, auditVars>>
  BY <1>1, <1>6 DEF auditVars
<1>7. CASE UNCHANGED agentVars
  BY <1>6, <1>7 DEF agentVars
<1>. QED  BY <1>2, <1>3, <1>4, <1>5, <1>6, <1>7 DEF RuntimeNext, AgentNext, Audits

(* The audit's own invariant. *)
LEMMA AuditInvStep ==
  ASSUME RuntimeInv, [RuntimeNext]_agentVars
  PROVE  AuditInv'
<1>1. CASE UNCHANGED auditVars
  BY <1>1, UnchangedPreserves DEF RuntimeInv
<1>2. CASE AuditSession
  <2>. DEFINE fs == [i \in DOMAIN published |-> FileOf(published[i])]
              as == [key |-> "none", secret |-> TRUE, unsigned |-> FALSE]
  <2>1. fs \in Seq(File) /\ as \in Arguments
    BY SessionFiles DEF RuntimeInv, Arguments
  <2>2. Collect(fs, as)
    BY <1>2 DEF AuditSession
  <2>. HIDE DEF fs, as
  <2>3. Collected(fs, as)
    BY <2>2 DEF Collect, Collected
  <2>. QED  BY <2>1, <2>3, CollectPreserves DEF RuntimeInv
<1>3. CASE AuditOther
  <2>1. PICK a \in OtherArchive :
           \/ Collect(a.files, a.args)
           \/ Len(a.files) = 1 /\ CollectOne(a.files[1], a.args)
    BY <1>3 DEF AuditOther
  <2>2. a.files \in Seq(File) /\ a.args \in Arguments
    BY SessionAssumption
  <2>3. CASE Collect(a.files, a.args)
    <3>1. Collected(a.files, a.args)
      BY <2>3 DEF Collect, Collected
    <3>. QED  BY <2>2, <3>1, CollectPreserves DEF RuntimeInv
  <2>4. CASE Len(a.files) = 1 /\ CollectOne(a.files[1], a.args)
    <3>1. a.files[1] \in File
      BY <2>2, <2>4
    <3>2. <<a.files[1]>> \in Seq(File) /\ Collected(<<a.files[1]>>, a.args)
      BY <2>2, <2>4, <3>1, CollectOneCollects
    <3>. QED  BY <2>2, <3>2, CollectPreserves DEF RuntimeInv
  <2>. QED  BY <2>1, <2>3, <2>4
<1>4. CASE Audited
  BY <1>4, AuditStepPreserves DEF RuntimeInv, Audited
<1>5. CASE \E w \in Worker : AgentStep(w)
  <2>1. UNCHANGED auditVars
    BY <1>5 DEF AgentStep, CallVerify, CallAdmission, CallAdvance, CallMerge, ReadCursor,
       IssueVerify, IssueAdmission, Issue, CallRaises, StoreCursor, AppendReceipt, RunTool,
       ReadParents, Advance, Merge, StoreAdvanced
  <2>. QED  BY <1>1, <2>1
<1>6. CASE UNCHANGED agentVars
  BY <1>1, <1>6 DEF agentVars
<1>. QED  BY <1>1, <1>2, <1>3, <1>4, <1>5, <1>6 DEF RuntimeNext, AgentNext, Audits

-----------------------------------------------------------------------------
(* The theorems.                                                           *)

LEMMA InitRuntime == RuntimeInit => RuntimeInv
<1>. SUFFICES ASSUME RuntimeInit PROVE RuntimeInv
  OBVIOUS
<1>1. /\ issued = <<>> /\ receipts = <<>> /\ published = <<>> /\ ran = {}
      /\ Len(issued) = 0 /\ DOMAIN issued = {} /\ DOMAIN receipts = {} /\ Recorded = {}
      /\ at = [w \in Worker |-> "idle"] /\ mine = [w \in Worker |-> 0]
  <2>1. /\ issued = <<>> /\ receipts = <<>> /\ published = <<>> /\ ran = {}
        /\ at = [w \in Worker |-> "idle"] /\ mine = [w \in Worker |-> 0]
    BY DEF RuntimeInit, SessionStart
  <2>2. Len(issued) = 0 /\ DOMAIN issued = {} /\ DOMAIN receipts = {}
    BY <2>1
  <2>. QED  BY <2>1, <2>2 DEF Recorded
<1>2. Cursors
  <2>1. StartTrajectory \in ContextOf(0) /\ NoContext \in ContextOf(0) /\ NoSession \in Session
    BY StartIsContext
  <2>2. cursor \in ContextOf(0)
    BY <2>1 DEF RuntimeInit
  <2>3. context = [w \in Worker |-> StartTrajectory] /\ request = [w \in Worker |-> NoSession]
    BY DEF RuntimeInit, SessionStart
  <2>4. at \in [Worker -> Phase(runtime)]
    BY <1>1 DEF Phase
  <2>5. /\ issued \in Seq(Record) /\ ParentsPrecede
        /\ runtime \in {"crew", "tools"} \cup Graph
    <3>1. runtime \in {"crew", "tools"} \cup Graph
      BY DEF RuntimeInit, Graph
    <3>2. issued \in Seq(Record)
      BY <1>1
    <3>. QED  BY <1>1, <3>1, <3>2 DEF ParentsPrecede
  <2>6. /\ context \in [Worker -> ContextOf(0)] /\ request \in [Worker -> Session]
        /\ \A w \in Worker : context[w] = StartTrajectory
    BY <2>1, <2>3
  <2>. QED  BY <1>1, <2>2, <2>4, <2>5, <2>6 DEF Cursors
<1>3. Room
  <2>1. {w \in Worker : at[w] \in Issuing} = {}
    BY <1>1 DEF Issuing
  <2>2. Cardinality({w \in Worker : at[w] \in Issuing}) = 0
    BY <2>1, FS_EmptySet
  <2>3. MaxReceipts \in Nat
    BY SessionAssumption
  <2>. HIDE DEF Issuing
  <2>. QED  BY <1>1, <2>2, <2>3 DEF Room
<1>4. Publications
  BY <1>1 DEF Publications
<1>5. Listing
  <2>1. {mine[w] : w \in {v \in Worker : at[v] \in {"issued", "stored"}}} = {}
    BY <1>1
  <2>2. NoReceiptForgotten /\ ExecutedWasAllowed
    BY <1>1, <2>1 DEF NoReceiptForgotten, ExecutedWasAllowed
  <2>. QED  BY <1>1, <2>2 DEF Listing, Holding
<1>6. Archive /\ AuditInv
  BY InitAudit DEF RuntimeInit, Archive, AuditIdle
<1>. QED  BY <1>2, <1>3, <1>4, <1>5, <1>6 DEF RuntimeInv

LEMMA RuntimeInvariant == RuntimeSpec => []RuntimeInv
<1>1. RuntimeInv /\ [RuntimeNext]_agentVars => RuntimeInv'
  BY CursorsStep, RoomStep, PublicationsStep, ListingStep, ArchiveStep, AuditInvStep DEF RuntimeInv
<1>. QED  BY <1>1, InitRuntime, PTL DEF RuntimeSpec

(* No schedule of threads, branches, failures and failing sinks makes a      *)
(* receipt name a parent that was not issued before it, although the cursor  *)
(* is read, used and stored without a lock (ProvenexCrewSession,             *)
(* TrajectoryContext.next_step()): the parents never form a cycle.           *)
THEOREM ParentsAreOlder == RuntimeSpec => []ParentsPrecede
<1>1. RuntimeInv => ParentsPrecede
  BY DEF RuntimeInv, Cursors
<1>. QED  BY <1>1, RuntimeInvariant, PTL

(* A session and a tool wrapper list every receipt they issued exactly once, *)
(* however their calls interleave: lists are only appended to, and a call    *)
(* appends the receipt it was returned, not what it finds in the session.    *)
THEOREM EveryReceiptIsListed == RuntimeSpec => []NoReceiptForgotten
<1>1. RuntimeInv => NoReceiptForgotten
  BY DEF RuntimeInv, Listing
<1>. QED  BY <1>1, RuntimeInvariant, PTL

(* A tool runs at most once per admission receipt, and only under a receipt  *)
(* that allows it and is already listed (wrap_tool_admission(),              *)
(* ProvenexToolWrapper, the MCP decorator).                                  *)
THEOREM OnlyAdmittedToolsRun == RuntimeSpec => []ExecutedWasAllowed
<1>1. RuntimeInv => ExecutedWasAllowed
  BY DEF RuntimeInv, Listing
<1>. QED  BY <1>1, RuntimeInvariant, PTL

(* The producer and the auditor agree: an audit (_cmd_audit_trajectory()) of *)
(* everything issued along one trajectory passes, whatever the threads or    *)
(* the branches did, and one of several trajectories fails.                  *)
THEOREM HonestArchivesPass == RuntimeSpec => []SessionArchivePasses
<1>1. RuntimeInv => SessionArchivePasses
  <2>. SUFFICES ASSUME RuntimeInv, audit = "done"
                PROVE  (origin = "whole session" => passed) /\ (origin = "several" => ~ passed)
    BY DEF SessionArchivePasses
  <2>1. /\ files \in Seq(File)
        /\ passed <=> /\ EveryReceiptOk /\ HasTrajectoryBlock /\ SharedTrajectoryId
                      /\ NoDanglingParents /\ Acyclic /\ HasRootStep
    BY DEF RuntimeInv, AuditInv, AuditTypeOK, VerdictIsExact
  <2>2. /\ origin = "whole session" => WholeSession
        /\ origin = "several" => ~ (HasTrajectoryBlock /\ SharedTrajectoryId)
    BY DEF RuntimeInv, Archive
  <2>. QED  BY <2>1, <2>2, WholeSessionIsSound
<1>. QED  BY <1>1, RuntimeInvariant, PTL

(* In the composition with the runtimes that fill the directory, the audit's *)
(* report is as exact as by itself (AuditIsExact).                           *)
THEOREM RuntimeAuditIsExact == RuntimeSpec => []VerdictIsExact
<1>1. RuntimeInv => VerdictIsExact
  BY DEF RuntimeInv, AuditInv
<1>. QED  BY <1>1, RuntimeInvariant, PTL

-----------------------------------------------------------------------------
(* The story of a calm session.                                            *)

(* One call at a time; until it stores the next cursor the call works with  *)
(* the cursor as it is; the receipts have growing steps, below that of the  *)
(* cursor but for the one whose call has yet to store; the cursor, or what  *)
(* such a call will make of it, carries the session asked for last; and it  *)
(* hangs on the last receipt as long as it is one step after it.            *)
OneCall == \A v, w \in Worker : at[v] # "idle" /\ at[w] # "idle" => v = w

AboutToStore == {"verify", "admission", "node", "advance", "parents", "merge", "issued"}

AsCursor(c) ==
    c.step = cursor.step /\ c.session = cursor.session /\ c.parents = cursor.parents

NoneIssued == \A w \in Worker : at[w] # "issued"

StepsGrow ==
    /\ \A i, j \in 1..Len(issued) : i < j => issued[i].step < issued[j].step
    /\ \A i \in 1..Len(issued) :
          i # Len(issued) \/ NoneIssued => issued[i].step < cursor.step

SessionKept ==
    /\ \A w \in Worker : at[w] = "issued" =>
          /\ issued[Len(issued)].step = cursor.step
          /\ asked = Override(request[w], cursor.session)
    /\ NoneIssued => asked = cursor.session

Following ==
    /\ \A i \in 1..Len(issued) :
          (i > 1 /\ issued[i].step = issued[i - 1].step + 1) => issued[i].parents = {i - 1}
    /\ \A w \in Worker : at[w] = "issued" => mine[w] = Len(issued)
    /\ (NoneIssued /\ Len(issued) > 0 /\ cursor.step = issued[Len(issued)].step + 1) =>
          cursor.parents = {Len(issued)}

Story ==
    /\ OneCall
    /\ \A w \in Worker : at[w] \in AboutToStore => AsCursor(context[w])
    /\ StepsGrow
    /\ SessionKept
    /\ Following

Calm == ~ overlapped /\ runtime # "tools"

StoryInv == Calm => Story

(* Nothing is issued, and the cursor stays. *)
LEMMA QuietStory ==
  ASSUME Story, NoneIssued, NoneIssued', OneCall', UNCHANGED <<cursor, issued, asked>>,
         \A w \in Worker : at'[w] \in AboutToStore => AsCursor(context[w])'
  PROVE  Story'
<1>1. StepsGrow'
  <2>1. StepsGrow
    BY DEF Story
  <2>. QED  BY <2>1 DEF StepsGrow
<1>2. SessionKept'
  <2>1. asked = cursor.session
    BY DEF Story, SessionKept
  <2>2. NoneIssued'
    OBVIOUS
  <2>. QED  BY <2>1, <2>2 DEF SessionKept, NoneIssued
<1>3. Following'
  <2>1. Following
    BY DEF Story
  <2>2. \A w \in Worker : at'[w] # "issued"
    BY DEF NoneIssued
  <2>. QED  BY <2>1, <2>2 DEF Following
<1>. QED  BY <1>1, <1>2, <1>3 DEF Story

(* The one call under way issues a receipt with the step it has read. *)
LEMMA IssueStory ==
  ASSUME Cursors, Story, NEW w \in Worker, at[w] \in AboutToStore, at[w] # "issued",
         NEW r \in Record, r.step = context[w].step, r.parents = context[w].parents,
         mine'[w] = Len(issued) + 1, issued' = Append(issued, r), at' = [at EXCEPT ![w] = "issued"],
         asked' = Override(request'[w], asked),
         UNCHANGED <<cursor, context>>
  PROVE  Story'
<1>. DEFINE n == Len(issued)
<1>1. issued \in Seq(Record) /\ n \in Nat /\ cursor.step \in Nat
  BY DEF Cursors, ContextOf
<1>2. /\ Len(issued') = n + 1 /\ issued'[n + 1] = r
      /\ \A i \in 1..n : issued'[i] = issued[i]
  BY <1>1, AppendProperties
<1>3. at \in [Worker -> Phase(runtime)]
  BY DEF Cursors
<1>4. \A v \in Worker : at'[v] = IF v = w THEN "issued" ELSE at[v]
  BY <1>3
<1>5. at[w] # "idle"
  BY DEF AboutToStore
<1>6. \A v \in Worker \ {w} : at[v] = "idle"
  BY <1>5 DEF Story, OneCall
<1>7. NoneIssued /\ ~ NoneIssued' /\ OneCall'
  BY <1>4, <1>6 DEF NoneIssued, OneCall
<1>8. AsCursor(context[w]) /\ asked = cursor.session
  BY <1>7 DEF Story, SessionKept
<1>9. \A v \in Worker : at'[v] \in AboutToStore => AsCursor(context[v])'
  BY <1>4, <1>6, <1>8 DEF AboutToStore, AsCursor
<1>10. r.step = cursor.step
  BY <1>8 DEF AsCursor
<1>11. \A i \in 1..n : issued[i].step < cursor.step
  BY <1>7 DEF Story, StepsGrow
<1>12. \A i, j \in 1..n : i < j => issued[i].step < issued[j].step
  BY DEF Story, StepsGrow
<1>. HIDE DEF n
<1>13. StepsGrow'
  <2>1. \A i \in 1..(n + 1) : i \in 1..n \/ i = n + 1
    BY <1>1
  <2>2. ASSUME NEW i \in 1..(n + 1), NEW j \in 1..(n + 1), i < j
        PROVE  issued'[i].step < issued'[j].step
    <3>1. i \in 1..n
      BY <1>1, <2>2
    <3>2. CASE j \in 1..n
      BY <1>2, <1>12, <2>2, <3>1, <3>2
    <3>3. CASE j = n + 1
      BY <1>2, <1>10, <1>11, <3>1, <3>3
    <3>. QED  BY <2>1, <3>2, <3>3
  <2>3. ASSUME NEW i \in 1..(n + 1), i # n + 1 PROVE issued'[i].step < cursor'.step
    BY <1>2, <1>11, <2>1, <2>3
  <2>. QED  BY <1>2, <1>7, <2>2, <2>3 DEF StepsGrow
<1>14. SessionKept'
  <2>1. issued'[Len(issued')].step = cursor'.step
    BY <1>2, <1>10
  <2>2. asked' = Override(request'[w], cursor'.session)
    BY <1>8
  <2>3. \A v \in Worker : at'[v] = "issued" => v = w
    BY <1>4, <1>6
  <2>. QED  BY <1>7, <2>1, <2>2, <2>3 DEF SessionKept
<1>15. Following'
  <2>1. r.parents = cursor.parents
    BY <1>8 DEF AsCursor
  <2>2. /\ \A i \in 1..n : (i > 1 /\ issued[i].step = issued[i - 1].step + 1) =>
                                 issued[i].parents = {i - 1}
        /\ (n > 0 /\ cursor.step = issued[n].step + 1) => cursor.parents = {n}
    BY <1>7 DEF Story, Following, n
  <2>3. ASSUME NEW i \in 1..(n + 1), i > 1, issued'[i].step = issued'[i - 1].step + 1
        PROVE  issued'[i].parents = {i - 1}
    <3>1. i - 1 \in 1..n /\ issued'[i - 1] = issued[i - 1]
      BY <1>1, <1>2, <2>3
    <3>2. CASE i \in 1..n
      BY <1>2, <2>2, <2>3, <3>1, <3>2
    <3>3. CASE i = n + 1
      <4>1. i - 1 = n /\ n > 0
        BY <1>1, <3>1, <3>3
      <4>2. issued'[i] = r /\ issued'[i - 1] = issued[n]
        BY <1>2, <3>1, <3>3, <4>1
      <4>. QED  BY <1>10, <2>1, <2>2, <2>3, <4>1, <4>2
    <3>4. i \in 1..n \/ i = n + 1
      BY <1>1, <2>3
    <3>. QED  BY <3>2, <3>3, <3>4
  <2>4. \A v \in Worker : at'[v] = "issued" => mine'[v] = n + 1
    BY <1>4, <1>6 DEF n
  <2>. QED  BY <1>2, <1>7, <2>3, <2>4 DEF Following
<1>. QED  BY <1>7, <1>9, <1>13, <1>14, <1>15 DEF Story

(* The cursor goes one step on, with nothing left issued under the old one,  *)
(* which hangs on the last receipt or is already more than a step after it.  *)
LEMMA CursorStory ==
  ASSUME Cursors, Story, NoneIssued \/ cursor'.parents = {Len(issued)},
         cursor'.step = cursor.step + 1, asked' = cursor'.session, UNCHANGED issued,
         OneCall', \A w \in Worker : at'[w] \notin AboutToStore
  PROVE  Story'
<1>1. NoneIssued'
  BY DEF NoneIssued, AboutToStore
<1>2. cursor.step \in Nat /\ issued \in Seq(Record) /\ \A i \in 1..Len(issued) : issued[i].step \in Nat
  <2>1. cursor.step \in Nat /\ issued \in Seq(Record)
    BY DEF Cursors, ContextOf
  <2>2. \A i \in 1..Len(issued) : issued[i] \in Record
    BY <2>1, ElementOfSeq
  <2>. QED  BY <2>1, <2>2 DEF Record
<1>3. \A i \in 1..Len(issued) : issued[i].step <= cursor.step
  <2>1. \A i \in 1..Len(issued) :
          issued[i].step < cursor.step \/ (i = Len(issued) /\ \E w \in Worker : at[w] = "issued")
    BY DEF Story, StepsGrow, NoneIssued
  <2>2. (\E w \in Worker : at[w] = "issued") => issued[Len(issued)].step = cursor.step
    BY DEF Story, SessionKept
  <2>. QED  BY <1>2, <2>1, <2>2
<1>4. StepsGrow'
  <2>1. \A i \in 1..Len(issued) : issued[i].step < cursor'.step
    BY <1>2, <1>3
  <2>. QED  BY <2>1 DEF Story, StepsGrow
<1>5. SessionKept'
  BY <1>1 DEF SessionKept, NoneIssued
<1>6. Following'
  <2>1. ASSUME Len(issued) > 0, cursor'.step = issued[Len(issued)].step + 1
        PROVE  cursor'.parents = {Len(issued)}
    <3>1. Len(issued) \in 1..Len(issued) /\ issued[Len(issued)].step \in Nat
      BY <1>2, <2>1
    <3>2. issued[Len(issued)].step = cursor.step
      BY <1>2, <2>1, <3>1
    <3>3. ~ NoneIssued
      BY <1>2, <3>1, <3>2 DEF Story, StepsGrow
    <3>. QED  BY <3>3
  <2>2. Following
    BY DEF Story
  <2>3. \A w \in Worker : at'[w] # "issued"
    BY <1>1 DEF NoneIssued
  <2>. QED  BY <2>1, <2>2, <2>3 DEF Following
<1>. QED  BY <1>4, <1>5, <1>6 DEF Story

(* What is known of a call under way in a calm session. *)
LEMMA CallIsAlone ==
  ASSUME Cursors, Story, NEW w \in Worker, at[w] # "idle"
  PROVE  /\ \A v \in Worker \ {w} : at[v] = "idle"
         /\ at[w] # "issued" => NoneIssued /\ asked = cursor.session
         /\ at[w] \in AboutToStore =>
                /\ context[w].step = cursor.step /\ context[w].session = cursor.session
                /\ context[w].parents = cursor.parents
         /\ at[w] = "issued" => mine[w] = Len(issued)
<1>1. \A v \in Worker \ {w} : at[v] = "idle"
  BY DEF Story, OneCall
<1>2. at[w] # "issued" => NoneIssued
  BY <1>1 DEF NoneIssued
<1>. QED  BY <1>1, <1>2 DEF Story, SessionKept, AsCursor, Following

(* The call goes on, or returns, without storing a cursor. *)
LEMMA MovedStory ==
  ASSUME Cursors, Story, NEW w \in Worker, at[w] # "idle", at[w] # "issued", NEW step, step # "issued",
         at' = [at EXCEPT ![w] = step], UNCHANGED <<cursor, issued, asked>>,
         step \in AboutToStore => AsCursor(context'[w])
  PROVE  Story'
<1>1. at \in [Worker -> Phase(runtime)]
  BY DEF Cursors
<1>2. \A v \in Worker : at'[v] = IF v = w THEN step ELSE at[v]
  BY <1>1
<1>3. (\A v \in Worker \ {w} : at[v] = "idle") /\ NoneIssued
  BY CallIsAlone
<1>4. NoneIssued' /\ OneCall'
  BY <1>2, <1>3 DEF NoneIssued, OneCall
<1>5. \A v \in Worker : at'[v] \in AboutToStore => v = w
  BY <1>2, <1>3 DEF AboutToStore
<1>6. \A v \in Worker : at'[v] \in AboutToStore => AsCursor(context[v])'
  BY <1>2, <1>5 DEF AsCursor
<1>. QED  BY <1>3, <1>4, <1>6, QuietStory

LEMMA CrewStory ==
  ASSUME Cursors, Listing, StoryInv, NEW w \in Worker, AgentStep(w), runtime' = runtime, Calm'
  PROVE  Story'
<1>1. /\ issued \in Seq(Record) /\ Len(issued) \in Nat /\ cursor \in ContextOf(Len(issued))
      /\ context \in [Worker -> ContextOf(Len(issued))] /\ request \in [Worker -> Session]
      /\ at \in [Worker -> Phase(runtime)] /\ runtime' # "tools"
      /\ cursor.step \in Nat /\ context[w] \in ContextOf(Len(issued))
  BY DEF Cursors, Calm, ContextOf
<1>2. ASSUME NEW step \in {"verify", "admission", "advance", "merge"}, NEW s, ReadCursor(w, step, s)
      PROVE  Story'
  <2>1. Story /\ \A v \in Worker : at[v] = "idle"
    BY <1>2 DEF ReadCursor, StoryInv, Calm
  <2>2. /\ \A v \in Worker : at'[v] = IF v = w THEN step ELSE "idle"
        /\ context'[w] = cursor /\ UNCHANGED <<cursor, issued, asked>>
    BY <1>1, <1>2, <2>1 DEF ReadCursor
  <2>3. NoneIssued /\ NoneIssued' /\ OneCall'
    BY <2>1, <2>2 DEF NoneIssued, OneCall
  <2>4. \A v \in Worker : at'[v] \in AboutToStore => AsCursor(context[v])'
    BY <2>2 DEF AboutToStore, AsCursor
  <2>. QED  BY <2>1, <2>2, <2>3, <2>4, QuietStory
<1>3. CASE CallVerify(w) \/ CallAdvance(w) \/ CallMerge(w) \/ \E s \in Requested : CallAdmission(w, s)
  BY <1>2, <1>3 DEF CallVerify, CallAdvance, CallMerge, CallAdmission
<1>4. ASSUME UNCHANGED overlapped PROVE Story
  BY <1>4 DEF StoryInv, Calm
<1>5. ASSUME NEW step \in {"verify", "admission"}, NEW d \in {"none", "allow", "deny"},
             NEW written \in BOOLEAN, Issue(w, step, d, written)
      PROVE  Story'
  <2>. DEFINE r == EmitTrajectory(context[w], request[w], d)
  <2>1. r \in Record
    BY <1>1, EmittedIsRecord
  <2>2. r.step = context[w].step /\ r.parents = context[w].parents
    BY DEF EmitTrajectory
  <2>. HIDE DEF r
  <2>3. /\ at[w] \in AboutToStore /\ at[w] # "issued" /\ issued' = Append(issued, r)
        /\ mine'[w] = Len(issued) + 1
        /\ at' = [at EXCEPT ![w] = "issued"] /\ asked' = Override(request'[w], asked)
        /\ UNCHANGED <<cursor, context, overlapped>>
    <3>1. mine \in [Worker -> Nat]
      BY DEF Listing
    <3>. QED  BY <1>5, <3>1 DEF Issue, AboutToStore, r
  <2>. QED  BY <1>4, <2>1, <2>2, <2>3, IssueStory
<1>6. CASE \/ \E written \in BOOLEAN : IssueVerify(w, written)
           \/ \E d \in {"allow", "deny"}, written \in BOOLEAN : IssueAdmission(w, d, written)
  BY <1>5, <1>6 DEF IssueVerify, IssueAdmission
<1>7. ASSUME Return(w) \/ Become(w, "execute"), at[w] # "idle", at[w] # "issued",
             UNCHANGED <<cursor, issued, asked, overlapped>>
      PROVE  Story'
  <2>1. PICK step \in {"idle", "execute"} : at' = [at EXCEPT ![w] = step]
    BY <1>7 DEF Return, Become
  <2>. QED  BY <1>4, <1>7, <2>1, MovedStory DEF AboutToStore
<1>8. CASE CallRaises(w)
  BY <1>7, <1>8 DEF CallRaises
<1>9. CASE AppendReceipt(w)
  BY <1>7, <1>9 DEF AppendReceipt
<1>10. CASE RunTool(w)
  BY <1>7, <1>10 DEF RunTool
<1>11. CASE StoreCursor(w)
  <2>1. /\ at[w] = "issued" /\ cursor' = NextStep(context[w], {mine[w]}, request[w])
        /\ at' = [at EXCEPT ![w] = "stored"] /\ UNCHANGED <<issued, asked, overlapped>>
    BY <1>11 DEF StoreCursor, Become
  <2>2. Story
    BY <1>4, <2>1
  <2>3. /\ \A v \in Worker \ {w} : at[v] = "idle"
        /\ context[w].step = cursor.step /\ context[w].session = cursor.session
        /\ mine[w] = Len(issued)
    BY <2>1, <2>2, CallIsAlone DEF AboutToStore
  <2>4. /\ cursor'.step = cursor.step + 1 /\ cursor'.session = Override(request[w], cursor.session)
        /\ cursor'.parents = {Len(issued)}
    BY <2>1, <2>3 DEF NextStep
  <2>5. asked' = cursor'.session
    BY <2>1, <2>2, <2>4 DEF Story, SessionKept
  <2>6. \A v \in Worker : at'[v] = IF v = w THEN "stored" ELSE "idle"
    BY <1>1, <2>1, <2>3
  <2>7. OneCall' /\ \A v \in Worker : at'[v] \notin AboutToStore
    BY <2>6 DEF OneCall, AboutToStore
  <2>. QED  BY <2>1, <2>2, <2>4, <2>5, <2>7, CursorStory
<1>12. CASE ReadParents(w)
  <2>1. /\ at[w] = "advance" /\ at' = [at EXCEPT ![w] = "parents"]
        /\ context' = [context EXCEPT ![w].parents = cursor.parents]
        /\ UNCHANGED <<cursor, issued, asked, overlapped>>
    BY <1>12 DEF ReadParents
  <2>2. Story
    BY <1>4, <2>1
  <2>3. context[w].step = cursor.step /\ context[w].session = cursor.session
    BY <2>1, <2>2, CallIsAlone DEF AboutToStore
  <2>4. /\ context'[w].step = context[w].step /\ context'[w].session = context[w].session
        /\ context'[w].parents = cursor.parents
    BY <1>1, <2>1 DEF ContextOf
  <2>. QED  BY <2>1, <2>2, <2>3, <2>4, MovedStory DEF AsCursor
<1>13. ASSUME NEW step \in {"parents", "merge"}, NEW ps, StoreAdvanced(w, step, ps) PROVE Story'
  <2>1. /\ at[w] = step /\ cursor' = NextStep(context[w], ps, NoSession)
        /\ at' = [at EXCEPT ![w] = "idle"] /\ UNCHANGED <<issued, asked, overlapped>>
    BY <1>13 DEF StoreAdvanced, Return
  <2>2. Story
    BY <1>4, <2>1
  <2>3. /\ \A v \in Worker \ {w} : at[v] = "idle"
        /\ context[w].step = cursor.step /\ context[w].session = cursor.session
        /\ asked = cursor.session /\ NoneIssued
    BY <2>1, <2>2, CallIsAlone DEF AboutToStore
  <2>4. cursor'.step = cursor.step + 1 /\ cursor'.session = cursor.session
    BY <2>1, <2>3 DEF NextStep, Override
  <2>5. \A v \in Worker : at'[v] = "idle"
    BY <1>1, <2>1, <2>3
  <2>6. OneCall' /\ \A v \in Worker : at'[v] \notin AboutToStore
    BY <2>5 DEF OneCall, AboutToStore
  <2>. QED  BY <2>1, <2>2, <2>3, <2>4, <2>6, CursorStory
<1>14. CASE Advance(w) \/ \E ps \in SUBSET Id : Merge(w, ps)
  BY <1>13, <1>14 DEF Advance, Merge
<1>. QED  BY <1>3, <1>6, <1>8, <1>9, <1>10, <1>11, <1>12, <1>14 DEF AgentStep

(* Without branches a superstep fails before its node issues a receipt. *)
LEMMA FailureIsEarly ==
  ASSUME Cursors, Story, FailSuperstep
  PROVE  NoneIssued
<1>1. CASE \E w \in Worker : at[w] = "node"
  BY <1>1, CallIsAlone
<1>2. CASE Cardinality(Returned) > 1
  <2>1. SUFFICES ASSUME NEW w \in Worker, at[w] = "issued" PROVE FALSE
    BY DEF NoneIssued
  <2>2. Returned = {mine[w]}
    BY <2>1, CallIsAlone DEF Returned
  <2>3. Cardinality(Returned) = 1
    BY <2>2, FS_Singleton
  <2>. QED  BY <1>2, <2>3
<1>. QED  BY <1>1, <1>2 DEF FailSuperstep

LEMMA GraphStory ==
  ASSUME Cursors, Listing, StoryInv, GraphStep, runtime' = runtime, Calm'
  PROVE  Story'
<1>1. /\ issued \in Seq(Record) /\ Len(issued) \in Nat /\ cursor \in ContextOf(Len(issued))
      /\ context \in [Worker -> ContextOf(Len(issued))] /\ request \in [Worker -> Session]
      /\ at \in [Worker -> Phase(runtime)]
  BY DEF Cursors
<1>2. ASSUME UNCHANGED overlapped PROVE Story
  BY <1>2 DEF StoryInv, Calm
<1>3. CASE \E bs \in SUBSET Worker : BeginSuperstep(bs)
  <2>1. PICK bs \in SUBSET Worker : BeginSuperstep(bs)
    BY <1>3
  <2>2. PICK fresh \in [Worker -> Trajectory] :
            context' = [w \in Worker |->
                 IF w \notin bs THEN StartTrajectory
                 ELSE IF cursor # NoContext THEN cursor
                 ELSE [StartTrajectory EXCEPT !.tid = fresh[w]]]
    BY <2>1 DEF BeginSuperstep
  <2>3. /\ \A w \in Worker : at[w] = "idle"
        /\ at' = [w \in Worker |-> IF w \in bs THEN "node" ELSE "idle"]
        /\ ~ overlapped /\ ~ Cardinality(bs) > 1
        /\ UNCHANGED <<cursor, issued, asked>>
    BY <2>1 DEF BeginSuperstep, Calm
  <2>4. Story
    BY <2>3 DEF StoryInv, Calm
  <2>5. \A v, w \in bs : v = w
    <3>1. IsFiniteSet(bs)
      BY SessionAssumption, FS_Subset
    <3>2. Cardinality(bs) \in Nat
      BY <3>1, FS_CardinalityType
    <3>3. bs = {} \/ Cardinality(bs) = 1
      BY <2>3, <3>1, <3>2, FS_EmptySet
    <3>. QED  BY <3>1, <3>3, FS_Singleton
  <2>6. NoneIssued /\ NoneIssued' /\ OneCall'
    BY <2>3, <2>5 DEF NoneIssued, OneCall
  <2>7. \A t : /\ [StartTrajectory EXCEPT !.tid = t].step = NoContext.step
               /\ [StartTrajectory EXCEPT !.tid = t].session = NoContext.session
               /\ [StartTrajectory EXCEPT !.tid = t].parents = NoContext.parents
    BY DEF NoContext, StartTrajectory
  <2>8. ASSUME NEW w \in Worker, at'[w] \in AboutToStore PROVE AsCursor(context[w])'
    <3>1. w \in bs
      BY <2>3, <2>8 DEF AboutToStore
    <3>2. CASE cursor # NoContext
      BY <2>2, <2>3, <3>1, <3>2 DEF AsCursor
    <3>3. CASE cursor = NoContext
      BY <2>2, <2>3, <2>7, <3>1, <3>3 DEF AsCursor
    <3>. QED  BY <3>2, <3>3
  <2>. QED  BY <2>3, <2>4, <2>6, <2>8, QuietStory
<1>4. ASSUME NEW w \in Worker, NEW r \in Record, r.step = context[w].step,
             r.parents = context[w].parents, NEW s \in Session, NEW written \in BOOLEAN, NodeIssues(w, r, s, written)
      PROVE  Story'
  <2>1. /\ at[w] \in AboutToStore /\ at[w] # "issued" /\ issued' = Append(issued, r)
        /\ at' = [at EXCEPT ![w] = "issued"] /\ asked' = Override(request'[w], asked)
        /\ mine'[w] = Len(issued) + 1 /\ UNCHANGED <<cursor, context, overlapped>>
    <3>1. mine \in [Worker -> Nat]
      BY DEF Listing
    <3>. QED  BY <1>1, <1>4, <3>1 DEF NodeIssues, AboutToStore
  <2>. QED  BY <1>2, <1>4, <2>1, IssueStory
<1>5. ASSUME NEW w \in Worker, NEW written \in BOOLEAN,
             \/ RetrievalNode(w, written)
             \/ CustomNode(w, written)
             \/ \E s \in Requested, d \in {"allow", "deny"} : AdmissionNode(w, s, d, written)
      PROVE  Story'
  <2>1. context[w] \in ContextOf(Len(issued)) /\ Requested \subseteq Session /\ NoSession \in Session
    BY <1>1, SessionAssumption DEF Session
  <2>2. \A s, d : /\ EmitTrajectory(context[w], s, d).step = context[w].step
                   /\ EmitTrajectory(context[w], s, d).parents = context[w].parents
    BY DEF EmitTrajectory
  <2>3. \A r \in Record : \A x : /\ [r EXCEPT !.session = x].step = r.step
                             /\ [r EXCEPT !.tid = x].step = r.step
                             /\ [r EXCEPT !.session = x].parents = r.parents
                             /\ [r EXCEPT !.tid = x].parents = r.parents
    BY DEF Record
  <2>4. CASE RetrievalNode(w, written)
    <3>1. /\ EmitTrajectory(context[w], NoSession, "none") \in Record
          /\ [EmitTrajectory(context[w], NoSession, "none") EXCEPT !.session = NoSession] \in Record
      BY <1>1, <2>1, EmittedIsRecord
    <3>2. /\ [EmitTrajectory(context[w], NoSession, "none") EXCEPT !.session = NoSession].step
                  = context[w].step
          /\ [EmitTrajectory(context[w], NoSession, "none") EXCEPT !.session = NoSession].parents
                  = context[w].parents
      BY <2>2, <2>3, <3>1
    <3>. QED  BY <1>4, <2>1, <2>4, <3>1, <3>2 DEF RetrievalNode
  <2>5. CASE CustomNode(w, written)
    <3>1. /\ EmitTrajectory(context[w], NoSession, "none") \in Record
          /\ [EmitTrajectory(context[w], NoSession, "none") EXCEPT !.tid = cursor.tid] \in Record
      BY <1>1, <2>1, EmittedIsRecord
    <3>2. /\ [EmitTrajectory(context[w], NoSession, "none") EXCEPT !.tid = cursor.tid].step
                  = context[w].step
          /\ [EmitTrajectory(context[w], NoSession, "none") EXCEPT !.tid = cursor.tid].parents
                  = context[w].parents
      BY <2>2, <2>3, <3>1
    <3>. QED  BY <1>4, <2>1, <2>5, <3>1, <3>2 DEF CustomNode
  <2>6. ASSUME NEW s \in Requested, NEW d \in {"allow", "deny"}, AdmissionNode(w, s, d, written)
        PROVE  Story'
    <3>1. EmitTrajectory(context[w], s, d) \in Record
      BY <1>1, <2>1, EmittedIsRecord
    <3>. QED  BY <1>4, <2>1, <2>2, <2>6, <3>1 DEF AdmissionNode
  <2>. QED  BY <1>5, <2>4, <2>5, <2>6
<1>6. ASSUME SuperstepEnds PROVE OneCall' /\ NoneIssued' /\ \A w \in Worker : at'[w] = "idle"
  BY <1>6 DEF SuperstepEnds, OneCall, NoneIssued
<1>7. ASSUME NEW w \in Worker, Join(w) PROVE Story'
  <2>1. /\ at[w] = "issued" /\ cursor' = NextStep(context[w], {mine[w]}, request[w])
        /\ SuperstepEnds /\ UNCHANGED <<issued, asked, overlapped>>
    BY <1>7 DEF Join, SuperstepEnds
  <2>2. Story
    BY <1>2, <2>1
  <2>3. /\ context[w].step = cursor.step /\ context[w].session = cursor.session
        /\ mine[w] = Len(issued)
    BY <2>1, <2>2, CallIsAlone DEF AboutToStore
  <2>4. /\ cursor'.step = cursor.step + 1 /\ cursor'.session = Override(request[w], cursor.session)
        /\ cursor'.parents = {Len(issued)}
    BY <2>1, <2>3 DEF NextStep
  <2>5. asked' = cursor'.session
    BY <2>1, <2>2, <2>4 DEF Story, SessionKept
  <2>6. OneCall' /\ \A v \in Worker : at'[v] \notin AboutToStore
    BY <1>6, <2>1 DEF AboutToStore
  <2>. QED  BY <2>1, <2>2, <2>4, <2>5, <2>6, CursorStory
<1>8. CASE FailSuperstep
  <2>1. SuperstepEnds /\ UNCHANGED <<cursor, issued, asked, overlapped>>
    BY <1>8 DEF FailSuperstep, SuperstepEnds
  <2>2. Story
    BY <1>2, <2>1
  <2>3. NoneIssued
    BY <1>8, <2>2, FailureIsEarly
  <2>. QED  BY <1>6, <2>1, <2>2, <2>3, QuietStory DEF AboutToStore
<1>. QED  BY <1>3, <1>5, <1>7, <1>8 DEF GraphStep

LEMMA StoryStep == RuntimeInv /\ StoryInv /\ [RuntimeNext]_agentVars => StoryInv'
<1>. SUFFICES ASSUME RuntimeInv, StoryInv, [RuntimeNext]_agentVars, Calm' PROVE Story'
  BY DEF StoryInv
<1>1. Cursors /\ Listing
  BY DEF RuntimeInv
<1>2. ASSUME UNCHANGED <<runtime, sessionVars>> PROVE Story'
  <2>1. Story
    BY <1>2 DEF sessionVars, StoryInv, Calm
  <2>. QED  BY <1>2, <2>1 DEF sessionVars, Story, OneCall, StepsGrow, SessionKept, Following, NoneIssued, AsCursor
<1>3. CASE AuditSession /\ runtime' = runtime
  <2>1. /\ \A w \in Worker : at[w] = "idle"
        /\ cursor' = StartTrajectory /\ issued' = <<>> /\ asked' = NoSession /\ at' = at
    BY <1>3 DEF AuditSession
  <2>2. Len(issued') = 0 /\ NoneIssued' /\ OneCall'
    BY <2>1 DEF NoneIssued, OneCall
  <2>3. cursor'.session = NoSession
    BY <2>1 DEF StartTrajectory
  <2>4. StepsGrow' /\ SessionKept'
    BY <2>1, <2>2, <2>3 DEF StepsGrow, SessionKept, NoneIssued
  <2>5. Following'
    BY <2>2 DEF Following, NoneIssued
  <2>. QED  BY <2>1, <2>2, <2>4, <2>5 DEF Story, AboutToStore
<1>4. CASE UNCHANGED agentVars
  BY <1>2, <1>4 DEF agentVars
<1>5. ASSUME NEW w \in Worker, AgentStep(w), runtime' = runtime PROVE Story'
  BY <1>1, <1>5, CrewStory
<1>6. CASE GraphStep /\ runtime' = runtime
  BY <1>1, <1>6, GraphStory
<1>7. CASE ToolStep /\ runtime' = runtime
  BY <1>7 DEF ToolStep, CallWrapped, RecordWrapped, Calm
<1>8. CASE (AuditOther \/ Audited) /\ runtime' = runtime
  BY <1>2, <1>8 DEF AuditOther, Audited
<1>. QED  BY <1>3, <1>4, <1>5, <1>6, <1>7, <1>8 DEF RuntimeNext, AgentNext, Audits

LEMMA StoryInit == RuntimeInit => StoryInv
<1>. SUFFICES ASSUME RuntimeInit PROVE Story
  BY DEF StoryInv
<1>1. /\ cursor \in {StartTrajectory, NoContext} /\ issued = <<>> /\ asked = NoSession
      /\ at = [w \in Worker |-> "idle"]
  BY DEF RuntimeInit, SessionStart
<1>2. cursor.session = NoSession
  BY <1>1 DEF StartTrajectory, NoContext
<1>3. Len(issued) = 0 /\ NoneIssued /\ OneCall
  BY <1>1 DEF NoneIssued, OneCall
<1>4. StepsGrow /\ SessionKept
  BY <1>1, <1>2, <1>3 DEF StepsGrow, SessionKept, NoneIssued
<1>5. Following
  BY <1>3 DEF Following, NoneIssued
<1>. QED  BY <1>1, <1>3, <1>4, <1>5 DEF Story, AboutToStore

LEMMA StoryInvariant == RuntimeSpec => []StoryInv
BY RuntimeInvariant, StoryInit, StoryStep, PTL DEF RuntimeSpec

(* As long as no two calls overlap, the steps of a session or of a graph    *)
(* grow with every receipt and along every parent, a receipt one step after *)
(* the one before it hangs on that one alone, and the cursor carries        *)
(* the session_id that was asked for last (ProvenexCrewSession, the nodes   *)
(* of provenex/integrations/langgraph): whatever calls fail in between, and *)
(* however often advance() moves the cursor or merges.                      *)
THEOREM CalmSessionsAreStories == RuntimeSpec => []CalmSessionIsAStory
<1>1. RuntimeInv /\ StoryInv => CalmSessionIsAStory
  <2>. SUFFICES ASSUME RuntimeInv, Story PROVE CalmSessionIsAStory
    BY DEF CalmSessionIsAStory, StoryInv, Calm
  <2>1. DOMAIN issued = 1..Len(issued) /\ Len(issued) \in Nat
    BY DEF RuntimeInv, Cursors
  <2>2. \A i, j \in DOMAIN issued : i < j => issued[i].step < issued[j].step
    BY <2>1 DEF Story, StepsGrow
  <2>3. ASSUME NEW i \in DOMAIN issued, NEW p \in issued[i].parents
        PROVE  issued[p].step < issued[i].step
    <3>1. p \in 1..(i - 1)
      BY DEF RuntimeInv, Cursors, ParentsPrecede
    <3>2. p \in DOMAIN issued /\ p < i
      BY <2>1, <3>1
    <3>. QED  BY <2>2, <3>2
  <2>4. (\A w \in Worker : at[w] = "idle") => cursor.session = asked
    BY DEF Story, SessionKept, NoneIssued
  <2>5. \A i \in DOMAIN issued :
          (i > 1 /\ issued[i].step = issued[i - 1].step + 1) => issued[i].parents = {i - 1}
    BY <2>1 DEF Story, Following
  <2>. QED  BY <2>2, <2>3, <2>4, <2>5 DEF CalmSessionIsAStory
<1>. QED  BY <1>1, RuntimeInvariant, StoryInvariant, PTL

-----------------------------------------------------------------------------
(* The state of a graph without parallel branches.                         *)

(* Between supersteps the state is the record; while a node has issued its  *)
(* receipt and the state does not know of it, it is the record but for that.*)
StateIsRecord ==
    /\ receipts = [i \in 1..Len(issued) |-> i]
    /\ issued # <<>> =>
          /\ cursor.parents = {Len(issued)}
          /\ cursor.step = issued[Len(issued)].step + 1
          /\ issued[Len(issued)].tid \in {cursor.tid, NoTrajectory}

Linear ==
    /\ NoneIssued => StateIsRecord
    /\ \A w \in Worker : at[w] = "issued" =>
          /\ mine[w] = Len(issued) /\ issued # <<>>
          /\ receipts = [i \in 1..(Len(issued) - 1) |-> i]
          /\ issued[Len(issued)].tid \in {context[w].tid, NoTrajectory}
    /\ \A w \in Worker : at[w] = "node" => context[w] = cursor \/ cursor = NoContext

LinearInv == (runtime = "graph" /\ ~ overlapped) => Linear

LEMMA LongerCount ==
  ASSUME NEW n \in Nat
  PROVE  Append([i \in 1..n |-> i], n + 1) = [i \in 1..(n + 1) |-> i]
<1>. DEFINE q == [i \in 1..n |-> i]
            r == [i \in 1..(n + 1) |-> i]
<1>1. q \in Seq(Nat) /\ Len(q) = n /\ r \in Seq(Nat) /\ Len(r) = n + 1
  OBVIOUS
<1>2. /\ Append(q, n + 1) \in Seq(Nat) /\ Len(Append(q, n + 1)) = n + 1
      /\ Append(q, n + 1)[n + 1] = n + 1 /\ \A i \in 1..n : Append(q, n + 1)[i] = i
  BY <1>1, AppendProperties
<1>3. \A i \in 1..(n + 1) : r[i] = i /\ (i \in 1..n \/ i = n + 1)
  OBVIOUS
<1>. HIDE DEF q, r
<1>4. \A i \in 1..Len(r) : Append(q, n + 1)[i] = r[i]
  BY <1>1, <1>2, <1>3
<1>5. Append(q, n + 1) = r
  BY <1>1, <1>2, <1>4, SeqEqual
<1>. QED  BY <1>5 DEF q, r

LEMMA NodeIssuesLinear ==
  ASSUME Cursors, Listing, Story, Linear, NEW w \in Worker, at[w] = "node",
         NEW r \in Record, r.tid \in {context[w].tid, NoTrajectory},
         issued' = Append(issued, r), at' = [at EXCEPT ![w] = "issued"],
         mine' = [mine EXCEPT ![w] = Len(issued) + 1],
         UNCHANGED <<cursor, receipts, context>>
  PROVE  Linear'
<1>. DEFINE n == Len(issued)
<1>1. /\ issued \in Seq(Record) /\ n \in Nat /\ at \in [Worker -> Phase(runtime)]
      /\ mine \in [Worker -> Nat]
  BY DEF Cursors, Listing
<1>2. Len(issued') = n + 1 /\ issued'[n + 1] = r /\ issued' # <<>>
  BY <1>1, AppendProperties
<1>3. \A v \in Worker : at'[v] = IF v = w THEN "issued" ELSE "idle"
  BY <1>1, CallIsAlone
<1>4. NoneIssued /\ mine'[w] = n + 1
  BY <1>1, CallIsAlone
<1>5. receipts' = [i \in 1..n |-> i]
  BY <1>4 DEF Linear, StateIsRecord
<1>. HIDE DEF n
<1>6. receipts' = [i \in 1..(Len(issued') - 1) |-> i]
  <2>1. Len(issued') - 1 = n
    BY <1>1, <1>2
  <2>. QED  BY <1>5, <2>1
<1>7. ~ NoneIssued'
  BY <1>3 DEF NoneIssued
<1>. QED  BY <1>2, <1>3, <1>4, <1>6, <1>7 DEF Linear

LEMMA GraphLinear ==
  ASSUME Cursors, Listing, StoryInv, StoryInv', LinearInv, GraphStep, runtime' = runtime,
         runtime = "graph", ~ overlapped'
  PROVE  Linear'
<1>1. /\ issued \in Seq(Record) /\ Len(issued) \in Nat /\ cursor \in ContextOf(Len(issued))
      /\ context \in [Worker -> ContextOf(Len(issued))]
      /\ at \in [Worker -> Phase(runtime)] /\ mine \in [Worker -> Nat]
  BY DEF Cursors, Listing
<1>2. ASSUME UNCHANGED overlapped PROVE Story /\ Linear
  BY <1>2 DEF StoryInv, Calm, LinearInv
<1>3. CASE \E bs \in SUBSET Worker : BeginSuperstep(bs)
  <2>1. PICK bs \in SUBSET Worker : BeginSuperstep(bs)
    BY <1>3
  <2>2. PICK fresh \in [Worker -> Trajectory] :
            context' = [w \in Worker |->
                 IF w \notin bs THEN StartTrajectory
                 ELSE IF cursor # NoContext THEN cursor
                 ELSE [StartTrajectory EXCEPT !.tid = fresh[w]]]
    BY <2>1 DEF BeginSuperstep
  <2>3. /\ \A w \in Worker : at[w] = "idle"
        /\ at' = [w \in Worker |-> IF w \in bs THEN "node" ELSE "idle"]
        /\ ~ overlapped /\ UNCHANGED <<cursor, receipts, issued>>
    BY <2>1 DEF BeginSuperstep
  <2>4. NoneIssued /\ NoneIssued' /\ Linear
    BY <2>3 DEF NoneIssued, LinearInv
  <2>5. StateIsRecord'
    BY <2>3, <2>4 DEF Linear, StateIsRecord
  <2>6. \A w \in Worker : at'[w] = "node" => context'[w] = cursor' \/ cursor' = NoContext
    BY <2>2, <2>3
  <2>7. NoContext' = NoContext
    BY DEF NoContext, StartTrajectory
  <2>. QED  BY <2>4, <2>5, <2>6, <2>7 DEF Linear, NoneIssued
<1>4. ASSUME NEW w \in Worker, NEW r \in Record, r.tid \in {context[w].tid, NoTrajectory},
             NEW s, NEW written, NodeIssues(w, r, s, written)
      PROVE  Linear'
  BY <1>2, <1>4, NodeIssuesLinear DEF NodeIssues
<1>5. ASSUME NEW w \in Worker, NEW written \in BOOLEAN,
             \/ RetrievalNode(w, written)
             \/ CustomNode(w, written)
             \/ \E s \in Requested, d \in {"allow", "deny"} : AdmissionNode(w, s, d, written)
      PROVE  Linear'
  <2>1. context[w] \in ContextOf(Len(issued)) /\ Requested \subseteq Session /\ NoSession \in Session
    BY <1>1, SessionAssumption DEF Session
  <2>2. \A s, d : EmitTrajectory(context[w], s, d).tid = context[w].tid
    BY DEF EmitTrajectory
  <2>3. \A r \in Record : \A x : /\ [r EXCEPT !.session = x].tid = r.tid
                             /\ [r EXCEPT !.tid = x].tid = x
    BY DEF Record
  <2>4. CASE RetrievalNode(w, written)
    <3>1. /\ EmitTrajectory(context[w], NoSession, "none") \in Record
          /\ [EmitTrajectory(context[w], NoSession, "none") EXCEPT !.session = NoSession] \in Record
      BY <1>1, <2>1, EmittedIsRecord
    <3>2. [EmitTrajectory(context[w], NoSession, "none") EXCEPT !.session = NoSession].tid
              = context[w].tid
      BY <2>2, <2>3, <3>1
    <3>. QED  BY <1>4, <2>4, <3>1, <3>2 DEF RetrievalNode
  <2>5. CASE CustomNode(w, written)
    <3>1. /\ EmitTrajectory(context[w], NoSession, "none") \in Record
          /\ [EmitTrajectory(context[w], NoSession, "none") EXCEPT !.tid = cursor.tid] \in Record
      BY <1>1, <2>1, EmittedIsRecord
    <3>2. [EmitTrajectory(context[w], NoSession, "none") EXCEPT !.tid = cursor.tid].tid = cursor.tid
      BY <2>3, <3>1
    <3>3. at[w] = "node" /\ UNCHANGED overlapped
      BY <2>5 DEF CustomNode, NodeIssues
    <3>4. context[w] = cursor \/ cursor = NoContext
      BY <1>2, <3>3 DEF Linear
    <3>5. NoContext.tid = NoTrajectory
      BY DEF NoContext, StartTrajectory
    <3>6. cursor.tid \in {context[w].tid, NoTrajectory}
      BY <3>4, <3>5
    <3>. QED  BY <1>4, <2>5, <3>1, <3>2, <3>6 DEF CustomNode
  <2>6. ASSUME NEW s \in Requested, NEW d \in {"allow", "deny"}, AdmissionNode(w, s, d, written)
        PROVE  Linear'
    <3>1. EmitTrajectory(context[w], s, d) \in Record
      BY <1>1, <2>1, EmittedIsRecord
    <3>. QED  BY <1>4, <2>2, <2>6, <3>1 DEF AdmissionNode
  <2>. QED  BY <1>5, <2>4, <2>5, <2>6
<1>6. ASSUME SuperstepEnds PROVE NoneIssued' /\ \A w \in Worker : at'[w] = "idle"
  BY <1>6 DEF SuperstepEnds, NoneIssued
<1>7. ASSUME NEW w \in Worker, Join(w) PROVE Linear'
  <2>1. /\ at[w] = "issued" /\ cursor' = NextStep(context[w], {mine[w]}, request[w])
        /\ receipts' = Append(receipts, mine[w])
        /\ SuperstepEnds /\ UNCHANGED <<issued, overlapped>>
    BY <1>7 DEF Join, SuperstepEnds
  <2>2. Story /\ Linear
    BY <1>2, <2>1
  <2>3. /\ mine[w] = Len(issued) /\ issued # <<>>
        /\ receipts = [i \in 1..(Len(issued) - 1) |-> i]
        /\ issued[Len(issued)].tid \in {context[w].tid, NoTrajectory}
        /\ issued[Len(issued)].step = cursor.step /\ context[w].step = cursor.step
    BY <2>1, <2>2, CallIsAlone DEF Linear, Story, SessionKept, AboutToStore
  <2>4. Len(issued) - 1 \in Nat /\ Len(issued) - 1 + 1 = Len(issued)
    BY <1>1, <2>3
  <2>5. receipts' = [i \in 1..Len(issued) |-> i]
    <3>1. Append([i \in 1..(Len(issued) - 1) |-> i], Len(issued) - 1 + 1)
              = [i \in 1..(Len(issued) - 1 + 1) |-> i]
      BY <2>4, LongerCount
    <3>. QED  BY <2>1, <2>3, <2>4, <3>1
  <2>6. cursor'.parents = {Len(issued)} /\ cursor'.step = issued[Len(issued)].step + 1
        /\ cursor'.tid = context[w].tid
    BY <2>1, <2>3 DEF NextStep
  <2>7. StateIsRecord'
    BY <2>1, <2>3, <2>5, <2>6 DEF StateIsRecord
  <2>. QED  BY <1>6, <2>1, <2>7 DEF Linear
<1>8. CASE FailSuperstep
  <2>1. SuperstepEnds /\ UNCHANGED <<cursor, receipts, issued, overlapped>>
    BY <1>8 DEF FailSuperstep, SuperstepEnds
  <2>2. Story /\ Linear
    BY <1>2, <2>1
  <2>3. NoneIssued
    BY <1>8, <2>2, FailureIsEarly
  <2>4. StateIsRecord'
    BY <2>1, <2>2, <2>3 DEF Linear, StateIsRecord
  <2>. QED  BY <1>6, <2>1, <2>4 DEF Linear
<1>. QED  BY <1>3, <1>5, <1>7, <1>8 DEF GraphStep

LEMMA LinearStep == RuntimeInv /\ StoryInv /\ StoryInv' /\ LinearInv /\ [RuntimeNext]_agentVars => LinearInv'
<1>. SUFFICES ASSUME RuntimeInv, StoryInv, StoryInv', LinearInv, [RuntimeNext]_agentVars,
                     runtime' = "graph", ~ overlapped'
              PROVE  Linear'
  BY DEF LinearInv
<1>1. Cursors /\ Listing
  BY DEF RuntimeInv
<1>2. ASSUME UNCHANGED <<runtime, sessionVars>> PROVE Linear'
  <2>1. Linear
    BY <1>2 DEF sessionVars, LinearInv
  <2>. QED  BY <1>2, <2>1 DEF sessionVars, Linear, StateIsRecord, NoneIssued, NoContext, StartTrajectory
<1>3. CASE AuditSession /\ runtime' = runtime
  <2>1. /\ \A w \in Worker : at[w] = "idle"
        /\ receipts' = <<>> /\ issued' = <<>> /\ at' = at
    BY <1>3 DEF AuditSession
  <2>2. Len(issued') = 0 /\ 1..0 = {}
    BY <2>1
  <2>3. receipts' = [i \in 1..Len(issued') |-> i]
    BY <2>1, <2>2
  <2>. QED  BY <2>1, <2>3 DEF Linear, StateIsRecord, NoneIssued
<1>4. CASE UNCHANGED agentVars
  BY <1>2, <1>4 DEF agentVars
<1>5. ASSUME NEW w \in Worker, AgentStep(w), runtime' = runtime PROVE FALSE
  <2>1. at[w] \in {"idle", "node", "issued"} /\ runtime = "graph"
    BY <1>1, <1>5 DEF Cursors, Phase
  <2>. QED  BY <1>5, <2>1 DEF AgentStep, CallVerify, CallAdmission, CallAdvance, CallMerge, ReadCursor,
              IssueVerify, IssueAdmission, Issue, CallRaises, StoreCursor, AppendReceipt, RunTool,
              ReadParents, Advance, Merge, StoreAdvanced
<1>6. CASE GraphStep /\ runtime' = runtime
  BY <1>1, <1>6, GraphLinear
<1>7. CASE ToolStep /\ runtime' = runtime
  BY <1>7 DEF ToolStep, CallWrapped, RecordWrapped
<1>8. CASE (AuditOther \/ Audited) /\ runtime' = runtime
  BY <1>2, <1>8 DEF AuditOther, Audited
<1>. QED  BY <1>3, <1>4, <1>5, <1>6, <1>7, <1>8 DEF RuntimeNext, AgentNext, Audits

LEMMA LinearInit == RuntimeInit => LinearInv
<1>. SUFFICES ASSUME RuntimeInit PROVE Linear
  BY DEF LinearInv
<1>1. issued = <<>> /\ receipts = <<>> /\ at = [w \in Worker |-> "idle"]
  BY DEF RuntimeInit, SessionStart
<1>2. Len(issued) = 0 /\ 1..0 = {}
  BY <1>1
<1>3. receipts = [i \in 1..Len(issued) |-> i]
  BY <1>1, <1>2
<1>. QED  BY <1>1, <1>3 DEF Linear, StateIsRecord

LEMMA LinearInvariant == RuntimeSpec => []LinearInv
BY RuntimeInvariant, StoryInvariant, LinearInit, LinearStep, PTL DEF RuntimeSpec

(* In a graph without parallel branches and without a reducer the state     *)
(* lists every receipt in the order of issue and the cursor continues from  *)
(* the last one, whatever nodes issued it and whatever supersteps failed    *)
(* (provenex/integrations/langgraph/node.py).                               *)
THEOREM GraphStateIsTheRecord == RuntimeSpec => []LinearGraphStateIsTheRecord
<1>1. RuntimeInv /\ LinearInv => LinearGraphStateIsTheRecord
  <2>. SUFFICES ASSUME RuntimeInv, LinearInv, runtime = "graph", ~ overlapped,
                       \A w \in Worker : at[w] = "idle"
                PROVE  /\ receipts = [i \in DOMAIN issued |-> i]
                       /\ issued # <<>> =>
                             LET last == issued[Len(issued)]
                             IN  /\ cursor.parents = {Len(issued)}
                                 /\ cursor.step = last.step + 1
                                 /\ last.tid \in {cursor.tid, NoTrajectory}
    BY DEF LinearGraphStateIsTheRecord
  <2>1. DOMAIN issued = 1..Len(issued)
    BY DEF RuntimeInv, Cursors
  <2>2. StateIsRecord
    BY DEF LinearInv, Linear, NoneIssued
  <2>. QED  BY <2>1, <2>2 DEF StateIsRecord
<1>. QED  BY <1>1, RuntimeInvariant, LinearInvariant, PTL

-----------------------------------------------------------------------------
(* The types.                                                              *)

LEMMA FlattenIsSeq ==
  ASSUME NEW S, NEW ss \in Seq(Seq(S))
  PROVE  FlattenSeq(ss) \in Seq(S)
<1>. DEFINE n == Len(ss)
            Next(f, i) == IF i = 1 THEN ss[i] ELSE f[i - 1] \o ss[i]
            IsTable(m, t) == t \in [1..m -> Seq(S)] /\ \A i \in 1..m : t[i] = Next(t, i)
            flatten[i \in 1..Len(ss)] == IF i = 1 THEN ss[i] ELSE flatten[i - 1] \o ss[i]
<1>1. n \in Nat /\ \A i \in 1..n : ss[i] \in Seq(S)
  OBVIOUS
<1>2. CASE n = 0
  <2>1. FlattenSeq(ss) = ss
    BY <1>2 DEF FlattenSeq
  <2>2. ss = <<>>
    BY <1>2, EmptySeq
  <2>. QED  BY <2>1, <2>2, EmptySeq
<1>3. CASE n # 0
  <2>1. \A m \in 0..n : \E t : IsTable(m, t)
    <3>. SUFFICES ASSUME {m \in 0..n : ~ \E t : IsTable(m, t)} # {} PROVE FALSE
      OBVIOUS
    <3>1. {m \in 0..n : ~ \E t : IsTable(m, t)} \in SUBSET Nat
      BY <1>1
    <3>2. PICK m \in {j \in 0..n : ~ \E t : IsTable(j, t)} :
                \A j \in {j \in 0..n : ~ \E t : IsTable(j, t)} : m <= j
      <4>. HIDE DEF IsTable
      <4>. QED  BY <3>1, LeastElement
    <3>3. IsTable(0, <<>>)
      OBVIOUS
    <3>4. m \in 1..n /\ m - 1 \in 0..n /\ ~ (m <= m - 1) /\ m \in Nat
      <4>. HIDE DEF IsTable
      <4>. QED  BY <1>1, <3>2, <3>3
    <3>5. PICK t : IsTable(m - 1, t)
      <4>. HIDE DEF IsTable
      <4>. QED  BY <3>2, <3>4
    <3>. DEFINE u == [i \in 1..m |-> IF i = m THEN Next(t, m) ELSE t[i]]
    <3>6. \A i \in 1..m : i # m => i \in 1..(m - 1)
      BY <3>4
    <3>7. \A i \in 1..m : i # 1 => i - 1 \in 1..(m - 1) /\ i - 1 \in 1..m /\ i - 1 # m
      BY <3>4
    <3>8. Next(t, m) \in Seq(S)
      <4>1. CASE m = 1
        BY <1>1, <3>4, <4>1
      <4>2. CASE m # 1
        <5>1. m \in 1..m
          BY <3>4
        <5>2. m - 1 \in 1..(m - 1)
          BY <3>7, <4>2, <5>1
        <5>3. t[m - 1] \in Seq(S) /\ ss[m] \in Seq(S)
          BY <1>1, <3>4, <3>5, <5>2
        <5>. QED  BY <4>2, <5>3, ConcatProperties
      <4>. QED  BY <4>1, <4>2
    <3>9. u \in [1..m -> Seq(S)]
      BY <3>5, <3>6, <3>8
    <3>10. \A i \in 1..m : i # 1 => u[i - 1] = t[i - 1]
      BY <3>7
    <3>11. ASSUME NEW i \in 1..m PROVE u[i] = Next(u, i)
      BY <3>5, <3>6, <3>10, <3>11
    <3>12. IsTable(m, u)
      BY <3>9, <3>11
    <3>. QED
      <4>. HIDE DEF IsTable, u
      <4>. QED  BY <3>2, <3>12
  <2>2. PICK t : IsTable(n, t)
    <3>. HIDE DEF IsTable
    <3>. QED  BY <1>1, <2>1
  <2>3. t = [i \in 1..n |-> IF i = 1 THEN ss[i] ELSE t[i - 1] \o ss[i]]
    BY <2>2
  <2>4. flatten = [i \in 1..n |-> IF i = 1 THEN ss[i] ELSE flatten[i - 1] \o ss[i]]
    BY <2>3
  <2>. HIDE DEF flatten
  <2>5. \A i \in 1..n : flatten[i] = IF i = 1 THEN ss[i] ELSE flatten[i - 1] \o ss[i]
    BY <2>4
  <2>6. \A i \in 1..n : flatten[i] \in Seq(S)
    <3>. DEFINE Wrong == {j \in 1..n : flatten[j] \notin Seq(S)}
    <3>1. Wrong \in SUBSET Nat
      BY <1>1
    <3>. SUFFICES ASSUME Wrong # {} PROVE FALSE
      OBVIOUS
    <3>2. PICK m \in Wrong : \A j \in Wrong : m <= j
      <4>. HIDE DEF Wrong
      <4>. QED  BY <3>1, LeastElement
    <3>3. m \in Nat /\ m \in 1..n /\ ss[m] \in Seq(S)
      BY <1>1, <3>2
    <3>4. m # 1
      BY <2>5, <3>2, <3>3
    <3>5. m - 1 \in 1..n /\ ~ (m <= m - 1)
      BY <1>1, <3>3, <3>4
    <3>6. flatten[m - 1] \in Seq(S)
      BY <3>2, <3>5
    <3>7. flatten[m] = flatten[m - 1] \o ss[m]
      BY <2>5, <3>3, <3>4
    <3>8. flatten[m - 1] \o ss[m] \in Seq(S)
      BY <3>3, <3>6, ConcatProperties
    <3>. QED  BY <3>2, <3>7, <3>8
  <2>7. FlattenSeq(ss) = flatten[n]
    BY <1>3 DEF FlattenSeq, flatten
  <2>8. n \in 1..n
    BY <1>1, <1>3
  <2>. QED  BY <2>6, <2>7, <2>8
<1>. QED  BY <1>2, <1>3

(* A call about to move the cursor has read one that is still short of the  *)
(* bound: it issued its receipt since, or checked the bound before.         *)
Ahead == {"issued", "advance", "parents", "merge"}

Steps ==
    /\ cursor.step <= Len(issued) + MaxAdvances
    /\ \A w \in Worker :
          /\ context[w].step <= Len(issued) + MaxAdvances
          /\ at[w] \in Ahead => context[w].step < Len(issued) + MaxAdvances
    /\ \A i \in DOMAIN issued : issued[i].step <= Len(issued) + MaxAdvances

(* Whatever refers to a receipt refers to one that was issued. *)
Slots ==
    /\ \A w \in Worker : at[w] \notin Holding => mine[w] = 0
    /\ receipts \in Seq(1..Len(issued))
    /\ ran \subseteq 1..Len(issued)
    /\ asked \in Session
    /\ origin \in {"none", "whole session", "part of a session", "several", "elsewhere"}

LEMMA LaterBound ==
  ASSUME NEW a \in Nat, NEW n \in Nat, NEW m \in Nat, a <= n + m
  PROVE  a <= n + 1 + m /\ a < n + 1 + m
OBVIOUS

LEMMA AdvancedBound ==
  ASSUME NEW a \in Nat, NEW n \in Nat, NEW m \in Nat, a < n + m
  PROVE  a + 1 <= n + m /\ a <= n + m
OBVIOUS

LEMMA LongerSeq ==
  ASSUME NEW n \in Nat, NEW m \in Nat, n <= m, NEW s \in Seq(1..n)
  PROVE  s \in Seq(1..m)
<1>1. \A i \in 1..Len(s) : s[i] \in 1..m
  BY ElementOfSeq
<1>2. s = [i \in 1..Len(s) |-> s[i]] /\ Len(s) \in Nat
  OBVIOUS
<1>. QED  BY <1>1, <1>2

LEMMA IssueKeepsSteps ==
  ASSUME Cursors, Steps, NEW w \in Worker, NEW r \in Record, r.step = context[w].step,
         issued' = Append(issued, r), at' = [at EXCEPT ![w] = "issued"],
         UNCHANGED <<cursor, context>>
  PROVE  Steps'
<1>. DEFINE n == Len(issued)
<1>1. /\ issued \in Seq(Record) /\ n \in Nat /\ MaxAdvances \in Nat
      /\ cursor.step \in Nat /\ \A v \in Worker : context[v].step \in Nat
      /\ \A i \in 1..n : issued[i].step \in Nat
      /\ DOMAIN issued = 1..n
  <2>1. \A i \in 1..n : issued[i] \in Record
    BY ElementOfSeq DEF Cursors
  <2>. QED  BY <2>1, SessionAssumption DEF Cursors, ContextOf, Record
<1>2. /\ Len(issued') = n + 1 /\ DOMAIN issued' = 1..(n + 1)
      /\ issued'[n + 1] = r /\ \A i \in 1..n : issued'[i] = issued[i]
  BY <1>1, AppendProperties
<1>3. \A i \in 1..(n + 1) : i \in 1..n \/ i = n + 1
  BY <1>1
<1>4. /\ cursor.step <= n + MaxAdvances
      /\ \A v \in Worker : context[v].step <= n + MaxAdvances
      /\ \A i \in 1..n : issued[i].step <= n + MaxAdvances
  BY <1>1 DEF Steps
<1>. HIDE DEF n
<1>5. /\ cursor.step <= n + 1 + MaxAdvances
      /\ \A v \in Worker : context[v].step <= n + 1 + MaxAdvances /\ context[v].step < n + 1 + MaxAdvances
      /\ \A i \in 1..n : issued[i].step <= n + 1 + MaxAdvances
  BY <1>1, <1>4, LaterBound
<1>6. \A i \in DOMAIN issued' : issued'[i].step <= n + 1 + MaxAdvances
  BY <1>2, <1>3, <1>5
<1>. QED  BY <1>2, <1>5, <1>6 DEF Steps

LEMMA MoveKeepsSteps ==
  ASSUME Cursors, Steps, NEW w \in Worker, NEW step, at' = [at EXCEPT ![w] = step],
         NEW c, context' = [context EXCEPT ![w] = c],
         c.step <= Len(issued) + MaxAdvances,
         step \in Ahead => c.step < Len(issued) + MaxAdvances,
         cursor'.step <= Len(issued) + MaxAdvances, UNCHANGED issued
  PROVE  Steps'
<1>1. \A v \in Worker : /\ context'[v] = IF v = w THEN c ELSE context[v]
                        /\ at'[v] = IF v = w THEN step ELSE at[v]
  BY DEF Cursors
<1>. QED  BY <1>1 DEF Steps

LEMMA IssueKeepsSlots ==
  ASSUME Cursors, Listing, Slots, NEW w \in Worker, NEW r \in Record,
         issued' = Append(issued, r), at' = [at EXCEPT ![w] = "issued"],
         mine' = [mine EXCEPT ![w] = Len(issued) + 1],
         NEW s \in Session, asked' = Override(s, asked),
         UNCHANGED <<receipts, ran, origin>>
  PROVE  Slots'
<1>. DEFINE n == Len(issued)
<1>1. issued \in Seq(Record) /\ n \in Nat /\ at \in [Worker -> Phase(runtime)] /\ mine \in [Worker -> Nat]
  BY DEF Cursors, Listing
<1>2. Len(issued') = n + 1
  BY <1>1, AppendProperties
<1>. HIDE DEF n
<1>3. n + 1 \in Nat /\ n <= n + 1 /\ 1..n \subseteq 1..(n + 1)
  BY <1>1
<1>4. receipts \in Seq(1..n) /\ ran \subseteq 1..n /\ asked \in Session
  BY DEF Slots, n
<1>5. receipts' \in Seq(1..Len(issued'))
  BY <1>1, <1>2, <1>3, <1>4, LongerSeq
<1>6. ran' \subseteq 1..Len(issued')
  BY <1>2, <1>3, <1>4
<1>7. asked' \in Session
  BY <1>4 DEF Override
<1>8. \A v \in Worker : at'[v] \notin Holding => mine'[v] = 0
  BY <1>1 DEF Slots, Holding
<1>. QED  BY <1>5, <1>6, <1>7, <1>8 DEF Slots

LEMMA MoveKeepsSlots ==
  ASSUME Cursors, Listing, Slots, NEW w \in Worker, NEW step, at' = [at EXCEPT ![w] = step],
         mine' = [mine EXCEPT ![w] = 0] \/ (mine' = mine /\ (step \in Holding \/ at[w] \notin Holding)),
         receipts' \in {receipts, Append(receipts, mine[w])},
         ran' \in {ran, ran \cup {mine[w]}},
         (receipts' = receipts /\ ran' = ran) \/ at[w] \in Holding,
         UNCHANGED <<issued, asked, origin>>
  PROVE  Slots'
<1>1. at \in [Worker -> Phase(runtime)] /\ mine \in [Worker -> Nat] /\ DOMAIN issued = 1..Len(issued)
  BY DEF Cursors, Listing
<1>2. \A v \in Worker : at'[v] \notin Holding => mine'[v] = 0
  BY <1>1 DEF Slots
<1>3. at[w] \in Holding => mine[w] \in 1..Len(issued)
  BY <1>1 DEF Listing
<1>4. receipts' \in Seq(1..Len(issued)) /\ ran' \subseteq 1..Len(issued)
  <2>1. receipts \in Seq(1..Len(issued)) /\ ran \subseteq 1..Len(issued)
    BY DEF Slots
  <2>2. mine[w] \in 1..Len(issued) => Append(receipts, mine[w]) \in Seq(1..Len(issued))
    BY <2>1, AppendProperties
  <2>. QED  BY <1>3, <2>1, <2>2
<1>. QED  BY <1>2, <1>4 DEF Slots

LEMMA CrewKeepsSteps ==
  ASSUME Cursors, Listing, Steps, NEW w \in Worker, AgentStep(w), runtime' = runtime
  PROVE  Steps'
<1>. DEFINE m == Len(issued) + MaxAdvances
<1>1. /\ Len(issued) \in Nat /\ MaxAdvances \in Nat /\ m \in Nat
      /\ cursor.step \in Nat /\ context[w].step \in Nat
      /\ context[w] \in ContextOf(Len(issued)) /\ request[w] \in Session
      /\ context \in [Worker -> ContextOf(Len(issued))]
      /\ NoSession \in Session
  BY SessionAssumption DEF Cursors, ContextOf, Session
<1>2. /\ cursor.step <= m /\ context[w].step <= m
      /\ at[w] \in Ahead => context[w].step < m
  BY DEF Steps
<1>3. StartTrajectory.step <= m
  BY <1>1 DEF StartTrajectory
<1>. HIDE DEF m
<1>4. ASSUME NEW step \in {"verify", "admission", "advance", "merge"}, NEW s,
             ReadCursor(w, step, s), step \in Ahead => cursor.step < m
      PROVE  Steps'
  BY <1>2, <1>4, MoveKeepsSteps DEF ReadCursor, m
<1>5. CASE CallVerify(w) \/ \E s \in Requested : CallAdmission(w, s)
  BY <1>4, <1>5 DEF CallVerify, CallAdmission, Ahead
<1>6. CASE CallAdvance(w) \/ CallMerge(w)
  BY <1>4, <1>6 DEF CallAdvance, CallMerge, MayAdvance, m
<1>7. ASSUME NEW step, NEW d \in {"none", "allow", "deny"}, NEW written, Issue(w, step, d, written)
      PROVE  Steps'
  <2>1. /\ EmitTrajectory(context[w], request[w], d) \in Record
        /\ EmitTrajectory(context[w], request[w], d).step = context[w].step
    BY <1>1, EmittedIsRecord DEF EmitTrajectory
  <2>. QED  BY <1>7, <2>1, IssueKeepsSteps DEF Issue
<1>8. CASE \/ \E written \in BOOLEAN : IssueVerify(w, written)
           \/ \E d \in {"allow", "deny"}, written \in BOOLEAN : IssueAdmission(w, d, written)
  BY <1>7, <1>8 DEF IssueVerify, IssueAdmission
<1>9. ASSUME Return(w), cursor'.step <= m, UNCHANGED issued PROVE Steps'
  <2>1. "idle" \notin Ahead
    BY DEF Ahead
  <2>2. at' = [at EXCEPT ![w] = "idle"] /\ context' = [context EXCEPT ![w] = StartTrajectory]
    BY <1>9 DEF Return
  <2>. QED  BY <1>3, <1>9, <2>1, <2>2, MoveKeepsSteps DEF m
<1>10. ASSUME NEW step, step \notin Ahead, Become(w, step), cursor'.step <= m, UNCHANGED issued
       PROVE  Steps'
  <2>1. context' = [context EXCEPT ![w] = context[w]]
    BY <1>1, <1>10 DEF Become
  <2>. QED  BY <1>2, <1>10, <2>1, MoveKeepsSteps DEF Become, m
<1>11. CASE CallRaises(w) \/ RunTool(w)
  BY <1>2, <1>9, <1>11 DEF CallRaises, RunTool
<1>12. ASSUME NEW ps, NEW s, at[w] \in Ahead PROVE NextStep(context[w], ps, s).step <= m
  <2>1. NextStep(context[w], ps, s).step = context[w].step + 1
    BY DEF NextStep
  <2>2. context[w].step + 1 <= m
    BY <1>1, <1>2, <1>12, AdvancedBound DEF m
  <2>. QED  BY <2>1, <2>2
<1>13. CASE StoreCursor(w)
  <2>1. cursor'.step <= m
    BY <1>12, <1>13 DEF StoreCursor, Ahead
  <2>. QED  BY <1>10, <1>13, <2>1 DEF StoreCursor, Ahead
<1>14. CASE AppendReceipt(w)
  <2>1. cursor'.step <= m /\ UNCHANGED issued
    BY <1>2, <1>14 DEF AppendReceipt
  <2>. QED  BY <1>9, <1>10, <1>14, <2>1 DEF AppendReceipt, Ahead
<1>15. CASE ReadParents(w)
  <2>1. context' = [context EXCEPT ![w] = [context[w] EXCEPT !.parents = cursor.parents]]
        /\ at' = [at EXCEPT ![w] = "parents"] /\ at[w] = "advance" /\ UNCHANGED <<cursor, issued>>
    BY <1>1, <1>15 DEF ReadParents
  <2>2. [context[w] EXCEPT !.parents = cursor.parents].step = context[w].step
    BY <1>1 DEF ContextOf
  <2>3. context[w].step < m
    BY <1>2, <2>1 DEF Ahead
  <2>. QED  BY <1>2, <2>1, <2>2, <2>3, MoveKeepsSteps DEF m
<1>16. ASSUME NEW step \in Ahead, NEW ps, StoreAdvanced(w, step, ps) PROVE Steps'
  <2>1. cursor'.step <= m
    BY <1>12, <1>16 DEF StoreAdvanced
  <2>. QED  BY <1>9, <1>16, <2>1 DEF StoreAdvanced
<1>17. CASE Advance(w) \/ \E ps \in SUBSET Id : Merge(w, ps)
  BY <1>16, <1>17 DEF Advance, Merge, Ahead
<1>. QED  BY <1>5, <1>6, <1>8, <1>11, <1>13, <1>14, <1>15, <1>17 DEF AgentStep

LEMMA CrewKeepsSlots ==
  ASSUME Cursors, Listing, Slots, NEW w \in Worker, AgentStep(w), runtime' = runtime, origin' = origin
  PROVE  Slots'
<1>1. /\ issued \in Seq(Record) /\ Len(issued) \in Nat /\ mine \in [Worker -> Nat]
      /\ at \in [Worker -> Phase(runtime)]
      /\ context[w] \in ContextOf(Len(issued)) /\ request[w] \in Session
  BY DEF Cursors, Listing
<1>2. ASSUME NEW step, NEW s, ReadCursor(w, step, s) PROVE Slots'
  BY <1>2, MoveKeepsSlots DEF ReadCursor, Holding
<1>3. CASE CallVerify(w) \/ CallAdvance(w) \/ CallMerge(w) \/ \E s \in Requested : CallAdmission(w, s)
  BY <1>2, <1>3 DEF CallVerify, CallAdvance, CallMerge, CallAdmission
<1>4. ASSUME NEW step, NEW d \in {"none", "allow", "deny"}, NEW written, Issue(w, step, d, written)
      PROVE  Slots'
  <2>1. EmitTrajectory(context[w], request[w], d) \in Record
    BY <1>1, EmittedIsRecord
  <2>. QED  BY <1>1, <1>4, <2>1, IssueKeepsSlots DEF Issue
<1>5. CASE \/ \E written \in BOOLEAN : IssueVerify(w, written)
           \/ \E d \in {"allow", "deny"}, written \in BOOLEAN : IssueAdmission(w, d, written)
  BY <1>4, <1>5 DEF IssueVerify, IssueAdmission
<1>6. CASE CallRaises(w)
  BY <1>6, MoveKeepsSlots DEF CallRaises, Return
<1>7. CASE StoreCursor(w)
  BY <1>7, MoveKeepsSlots DEF StoreCursor, Become, Holding
<1>8. CASE AppendReceipt(w)
  BY <1>8, MoveKeepsSlots DEF AppendReceipt, Become, Return, Holding
<1>9. CASE RunTool(w)
  BY <1>9, MoveKeepsSlots DEF RunTool, Return, Holding
<1>10. CASE ReadParents(w)
  BY <1>10, MoveKeepsSlots DEF ReadParents, Holding
<1>11. ASSUME NEW step, NEW ps, StoreAdvanced(w, step, ps) PROVE Slots'
  BY <1>11, MoveKeepsSlots DEF StoreAdvanced, Return
<1>12. CASE Advance(w) \/ \E ps \in SUBSET Id : Merge(w, ps)
  BY <1>11, <1>12 DEF Advance, Merge
<1>. QED  BY <1>3, <1>5, <1>6, <1>7, <1>8, <1>9, <1>10, <1>12 DEF AgentStep

LEMMA ToolKeepsTypes ==
  ASSUME Cursors, Listing, Steps, Slots, ToolStep, runtime' = runtime, origin' = origin
  PROVE  Steps' /\ Slots'
<1>1. ASSUME NEW w \in Worker, NEW s, CallWrapped(w, s) PROVE Steps' /\ Slots'
  <2>1. cursor.step <= Len(issued) + MaxAdvances
    BY DEF Steps
  <2>2. Steps'
    <3>1. "admission" \notin Ahead
      BY DEF Ahead
    <3>2. /\ at' = [at EXCEPT ![w] = "admission"] /\ context' = [context EXCEPT ![w] = cursor]
          /\ UNCHANGED <<cursor, issued>>
      BY <1>1 DEF CallWrapped
    <3>. QED  BY <2>1, <3>1, <3>2, MoveKeepsSteps
  <2>3. Slots'
    BY <1>1, MoveKeepsSlots DEF CallWrapped, Holding
  <2>. QED  BY <2>2, <2>3
<1>2. ASSUME NEW w \in Worker, RecordWrapped(w) PROVE Steps' /\ Slots'
  <2>1. /\ cursor.step <= Len(issued) + MaxAdvances
        /\ context[w].step <= Len(issued) + MaxAdvances
        /\ StartTrajectory.step <= Len(issued) + MaxAdvances
    BY SessionAssumption DEF Steps, Cursors, StartTrajectory
  <2>2. Slots'
    BY <1>2, MoveKeepsSlots DEF RecordWrapped, Become, Return, Holding
  <2>3. CASE Become(w, "execute")
    <3>1. context' = [context EXCEPT ![w] = context[w]]
      BY <2>3 DEF Become, Cursors
    <3>2. at' = [at EXCEPT ![w] = "execute"] /\ UNCHANGED <<cursor, issued>>
      BY <1>2, <2>3 DEF RecordWrapped, Become
    <3>3. "execute" \notin Ahead
      BY DEF Ahead
    <3>4. Steps'
      BY <2>1, <3>1, <3>2, <3>3, MoveKeepsSteps
    <3>. QED  BY <2>2, <3>4
  <2>4. CASE Return(w)
    <3>1. /\ at' = [at EXCEPT ![w] = "idle"] /\ context' = [context EXCEPT ![w] = StartTrajectory]
          /\ UNCHANGED <<cursor, issued>>
      BY <1>2, <2>4 DEF RecordWrapped, Return
    <3>2. "idle" \notin Ahead
      BY DEF Ahead
    <3>3. Steps'
      BY <2>1, <3>1, <3>2, MoveKeepsSteps
    <3>. QED  BY <2>2, <3>3
  <2>. QED  BY <1>2, <2>3, <2>4 DEF RecordWrapped
<1>. QED  BY <1>1, <1>2 DEF ToolStep

(* What the branches of a superstep return lists receipts that were issued, *)
(* first of all those the state had.                                        *)
LEMMA MergedIsSeq ==
  ASSUME Cursors, Listing, Slots, NEW w \in Worker, Join(w)
  PROVE  /\ receipts' \in Seq(1..Len(issued))
         /\ \A i \in DOMAIN receipts : i \in DOMAIN receipts' /\ receipts'[i] = receipts[i]
<1>. DEFINE Merged == /\ receipts' \in Seq(1..Len(issued))
                      /\ \A i \in DOMAIN receipts : i \in DOMAIN receipts' /\ receipts'[i] = receipts[i]
<1>. SUFFICES Merged
  OBVIOUS
<1>1. /\ receipts \in Seq(1..Len(issued)) /\ DOMAIN issued = 1..Len(issued)
      /\ Returned \subseteq 1..Len(issued) /\ mine[w] \in Returned
  <2>1. DOMAIN issued = 1..Len(issued)
    BY DEF Cursors
  <2>2. at[w] = "issued"
    BY DEF Join
  <2>. QED  BY <2>1, <2>2 DEF Slots, Returned, Listing, Holding
<1>2. CASE receipts' = Append(receipts, mine[w])
  <2>. DEFINE e == mine[w]
              more == Append(receipts, e)
  <2>. HIDE DEF e
  <2>1. e \in 1..Len(issued)
    BY <1>1 DEF e
  <2>2. more \in Seq(1..Len(issued)) /\ \A i \in DOMAIN receipts : i \in DOMAIN more /\ more[i] = receipts[i]
    BY <1>1, <2>1
  <2>. HIDE DEF more
  <2>. QED  BY <1>2, <2>2 DEF e, more
<1>3. ASSUME NEW own \in [1..Cardinality(Returned) -> Returned],
             receipts' = receipts \o
                     FlattenSeq([i \in 1..Cardinality(Returned) |-> Append(receipts, own[i])])
      PROVE  Merged
  <2>. DEFINE k == Cardinality(Returned)
              ss == [i \in 1..k |-> Append(receipts, own[i])]
  <2>1. k \in Nat
    <3>1. Len(issued) \in Nat /\ IsFiniteSet(1..Len(issued))
      BY FS_Interval DEF Cursors
    <3>2. IsFiniteSet(Returned)
      BY <1>1, <3>1, FS_Subset
    <3>. QED  BY <3>2, FS_CardinalityType
  <2>. HIDE DEF k
  <2>2. \A i \in 1..k : Append(receipts, own[i]) \in Seq(1..Len(issued))
    BY <1>1, <1>3, AppendProperties DEF k
  <2>3. ss \in Seq(Seq(1..Len(issued)))
    BY <2>1, <2>2
  <2>4. FlattenSeq(ss) \in Seq(1..Len(issued))
    BY <2>3, FlattenIsSeq
  <2>. HIDE DEF ss
  <2>. DEFINE more == FlattenSeq(ss)
  <2>. HIDE DEF more
  <2>5. /\ receipts \o more \in Seq(1..Len(issued))
        /\ \A i \in DOMAIN receipts : i \in DOMAIN (receipts \o more) /\ (receipts \o more)[i] = receipts[i]
    <3>1. more \in Seq(1..Len(issued))
      BY <2>4 DEF more
    <3>. QED  BY <1>1, <3>1
  <2>. QED  BY <1>3, <2>5 DEF ss, k, more
<1>. QED  BY <1>2, <1>3 DEF Join

LEMMA GraphKeepsSteps ==
  ASSUME Cursors, Listing, Steps, GraphStep, runtime' = runtime
  PROVE  Steps'
<1>. DEFINE m == Len(issued) + MaxAdvances
<1>1. /\ Len(issued) \in Nat /\ MaxAdvances \in Nat /\ m \in Nat
      /\ cursor \in ContextOf(Len(issued)) /\ context \in [Worker -> ContextOf(Len(issued))]
      /\ \A w \in Worker : context[w].step \in Nat
      /\ NoSession \in Session /\ Requested \subseteq Session
      /\ at \in [Worker -> Phase(runtime)]
  BY SessionAssumption DEF Cursors, ContextOf, Session
<1>2. /\ cursor.step <= m
      /\ \A w \in Worker : context[w].step <= m /\ (at[w] \in Ahead => context[w].step < m)
      /\ \A i \in DOMAIN issued : issued[i].step <= m
  BY DEF Steps
<1>3. /\ StartTrajectory.step <= m
      /\ \A t : [StartTrajectory EXCEPT !.tid = t].step = StartTrajectory.step
  BY <1>1 DEF StartTrajectory
<1>. HIDE DEF m
<1>4. ASSUME UNCHANGED issued, cursor'.step <= m,
             \A w \in Worker : at'[w] \notin Ahead /\ context'[w].step <= m
      PROVE  Steps'
  BY <1>2, <1>4 DEF Steps, m
<1>5. CASE \E bs \in SUBSET Worker : BeginSuperstep(bs)
  <2>1. PICK bs \in SUBSET Worker : BeginSuperstep(bs)
    BY <1>5
  <2>2. PICK fresh \in [Worker -> Trajectory] :
            context' = [w \in Worker |->
                 IF w \notin bs THEN StartTrajectory
                 ELSE IF cursor # NoContext THEN cursor
                 ELSE [StartTrajectory EXCEPT !.tid = fresh[w]]]
    BY <2>1 DEF BeginSuperstep
  <2>3. /\ at' = [w \in Worker |-> IF w \in bs THEN "node" ELSE "idle"]
        /\ UNCHANGED <<cursor, issued>>
    BY <2>1 DEF BeginSuperstep
  <2>4. \A w \in Worker : context'[w].step <= m
    BY <1>2, <1>3, <2>2
  <2>5. \A w \in Worker : at'[w] \notin Ahead
    BY <2>3 DEF Ahead
  <2>. QED  BY <1>2, <1>4, <2>3, <2>4, <2>5
<1>6. ASSUME NEW w \in Worker, NEW r \in Record, r.step = context[w].step,
             NEW s, NEW written, NodeIssues(w, r, s, written)
      PROVE  Steps'
  BY <1>6, IssueKeepsSteps DEF NodeIssues
<1>7. ASSUME NEW w \in Worker, NEW written \in BOOLEAN,
             \/ RetrievalNode(w, written)
             \/ CustomNode(w, written)
             \/ \E s \in Requested, d \in {"allow", "deny"} : AdmissionNode(w, s, d, written)
      PROVE  Steps'
  <2>1. context[w] \in ContextOf(Len(issued))
    BY <1>1
  <2>2. \A s, d : EmitTrajectory(context[w], s, d).step = context[w].step
    BY DEF EmitTrajectory
  <2>3. \A r \in Record : \A x : /\ [r EXCEPT !.session = x].step = r.step
                             /\ [r EXCEPT !.tid = x].step = r.step
    BY DEF Record
  <2>4. CASE RetrievalNode(w, written)
    <3>1. /\ EmitTrajectory(context[w], NoSession, "none") \in Record
          /\ [EmitTrajectory(context[w], NoSession, "none") EXCEPT !.session = NoSession] \in Record
      BY <1>1, <2>1, EmittedIsRecord
    <3>2. [EmitTrajectory(context[w], NoSession, "none") EXCEPT !.session = NoSession].step
              = context[w].step
      BY <2>2, <2>3, <3>1
    <3>. QED  BY <1>6, <2>4, <3>1, <3>2 DEF RetrievalNode
  <2>5. CASE CustomNode(w, written)
    <3>1. /\ EmitTrajectory(context[w], NoSession, "none") \in Record
          /\ [EmitTrajectory(context[w], NoSession, "none") EXCEPT !.tid = cursor.tid] \in Record
      BY <1>1, <2>1, EmittedIsRecord
    <3>2. [EmitTrajectory(context[w], NoSession, "none") EXCEPT !.tid = cursor.tid].step
              = context[w].step
      BY <2>2, <2>3, <3>1
    <3>. QED  BY <1>6, <2>5, <3>1, <3>2 DEF CustomNode
  <2>6. ASSUME NEW s \in Requested, NEW d \in {"allow", "deny"}, AdmissionNode(w, s, d, written)
        PROVE  Steps'
    <3>1. EmitTrajectory(context[w], s, d) \in Record
      BY <1>1, <2>1, EmittedIsRecord
    <3>. QED  BY <1>6, <2>2, <2>6, <3>1 DEF AdmissionNode
  <2>. QED  BY <1>7, <2>4, <2>5, <2>6
<1>8. ASSUME SuperstepEnds, cursor'.step <= m PROVE Steps'
  <2>1. \A w \in Worker : at'[w] \notin Ahead /\ context'[w].step <= m
    BY <1>3, <1>8 DEF SuperstepEnds, Ahead
  <2>. QED  BY <1>4, <1>8, <2>1 DEF SuperstepEnds
<1>9. ASSUME NEW w \in Worker, Join(w) PROVE Steps'
  <2>1. at[w] \in Ahead /\ cursor'.step = context[w].step + 1
    BY <1>9 DEF Join, Ahead, NextStep
  <2>2. context[w].step + 1 <= m
    BY <1>1, <1>2, <2>1, AdvancedBound DEF m
  <2>. QED  BY <1>8, <1>9, <2>1, <2>2 DEF Join
<1>10. CASE FailSuperstep
  BY <1>2, <1>8, <1>10 DEF FailSuperstep
<1>. QED  BY <1>5, <1>7, <1>9, <1>10 DEF GraphStep

LEMMA GraphKeepsSlots ==
  ASSUME Cursors, Listing, Slots, GraphStep, runtime' = runtime, origin' = origin
  PROVE  Slots'
<1>1. /\ issued \in Seq(Record) /\ Len(issued) \in Nat /\ mine \in [Worker -> Nat]
      /\ at \in [Worker -> Phase(runtime)] /\ context \in [Worker -> ContextOf(Len(issued))]
      /\ cursor \in ContextOf(Len(issued))
      /\ NoSession \in Session /\ Requested \subseteq Session
  BY SessionAssumption DEF Cursors, Listing, Session
<1>2. CASE \E bs \in SUBSET Worker : BeginSuperstep(bs)
  <2>1. /\ \A w \in Worker : at[w] = "idle"
        /\ UNCHANGED <<mine, receipts, issued, ran, asked>>
    BY <1>2 DEF BeginSuperstep
  <2>2. \A w \in Worker : mine'[w] = 0
    BY <2>1 DEF Slots, Holding
  <2>. QED  BY <2>1, <2>2 DEF Slots
<1>3. ASSUME NEW w \in Worker, NEW r \in Record, NEW s \in Session, NEW written,
             NodeIssues(w, r, s, written)
      PROVE  Slots'
  BY <1>3, IssueKeepsSlots DEF NodeIssues
<1>4. ASSUME NEW w \in Worker, NEW written \in BOOLEAN,
             \/ RetrievalNode(w, written)
             \/ CustomNode(w, written)
             \/ \E s \in Requested, d \in {"allow", "deny"} : AdmissionNode(w, s, d, written)
      PROVE  Slots'
  <2>1. context[w] \in ContextOf(Len(issued))
    BY <1>1
  <2>2. CASE RetrievalNode(w, written)
    <3>1. [EmitTrajectory(context[w], NoSession, "none") EXCEPT !.session = NoSession] \in Record
      BY <1>1, <2>1, EmittedIsRecord
    <3>. QED  BY <1>1, <1>3, <2>2, <3>1 DEF RetrievalNode
  <2>3. CASE CustomNode(w, written)
    <3>1. [EmitTrajectory(context[w], NoSession, "none") EXCEPT !.tid = cursor.tid] \in Record
      BY <1>1, <2>1, EmittedIsRecord
    <3>. QED  BY <1>1, <1>3, <2>3, <3>1 DEF CustomNode
  <2>4. ASSUME NEW s \in Requested, NEW d \in {"allow", "deny"}, AdmissionNode(w, s, d, written)
        PROVE  Slots'
    <3>1. EmitTrajectory(context[w], s, d) \in Record
      BY <1>1, <2>1, EmittedIsRecord
    <3>. QED  BY <1>1, <1>3, <2>4, <3>1 DEF AdmissionNode
  <2>. QED  BY <1>4, <2>2, <2>3, <2>4
<1>5. ASSUME SuperstepEnds, receipts' \in Seq(1..Len(issued)) PROVE Slots'
  <2>1. \A w \in Worker : mine'[w] = 0
    BY <1>5 DEF SuperstepEnds
  <2>. QED  BY <1>5, <2>1 DEF SuperstepEnds, Slots
<1>6. ASSUME NEW w \in Worker, Join(w) PROVE Slots'
  BY <1>5, <1>6, MergedIsSeq DEF Join
<1>7. CASE FailSuperstep
  BY <1>5, <1>7 DEF FailSuperstep, Slots
<1>. QED  BY <1>2, <1>4, <1>6, <1>7 DEF GraphStep

Typed == Steps /\ Slots /\ overlapped \in BOOLEAN

LEMMA OverlapIsBoolean ==
  ASSUME overlapped \in BOOLEAN, [RuntimeNext]_agentVars
  PROVE  overlapped' \in BOOLEAN
<1>1. CASE overlapped' = overlapped
  BY <1>1
<1>2. ASSUME NEW p, overlapped' = (overlapped \/ p) PROVE overlapped' \in BOOLEAN
  BY <1>2, Zenon
<1>3. ASSUME NEW w, NEW step, NEW s, ReadCursor(w, step, s) PROVE overlapped' \in BOOLEAN
  BY <1>2, <1>3, Zenon DEF ReadCursor
<1>4. ASSUME NEW w \in Worker, AgentStep(w) PROVE overlapped' \in BOOLEAN
  BY <1>1, <1>3, <1>4, Zenon DEF AgentStep, CallVerify, CallAdmission, CallAdvance, CallMerge,
        IssueVerify, IssueAdmission, Issue, CallRaises, StoreCursor, AppendReceipt, RunTool,
        ReadParents, Advance, Merge, StoreAdvanced
<1>5. CASE GraphStep
  <2>1. ASSUME NEW bs, BeginSuperstep(bs) PROVE overlapped' \in BOOLEAN
    BY <1>2, <2>1, Zenon DEF BeginSuperstep
  <2>. QED  BY <1>1, <1>5, <2>1, Zenon DEF GraphStep, RetrievalNode, CustomNode, AdmissionNode,
        NodeIssues, Join, FailSuperstep, SuperstepEnds
<1>6. CASE ToolStep
  <2>1. ASSUME NEW w, NEW s, CallWrapped(w, s) PROVE overlapped' \in BOOLEAN
    BY <1>2, <2>1, Zenon DEF CallWrapped
  <2>. QED  BY <1>1, <1>6, <2>1, Zenon DEF ToolStep, RecordWrapped
<1>7. CASE Audits \/ UNCHANGED agentVars
  BY <1>1, <1>7, Zenon DEF Audits, AuditSession, AuditOther, Audited, agentVars, sessionVars
<1>. QED  BY <1>4, <1>5, <1>6, <1>7 DEF RuntimeNext, AgentNext

LEMMA TypedStep == RuntimeInv /\ Typed /\ [RuntimeNext]_agentVars => Typed'
<1>. SUFFICES ASSUME RuntimeInv, Typed, [RuntimeNext]_agentVars PROVE Steps' /\ Slots'
  BY OverlapIsBoolean DEF Typed
<1>1. Cursors /\ Listing /\ Steps /\ Slots
  BY DEF RuntimeInv, Typed
<1>2. ASSUME UNCHANGED sessionVars,
             origin' \in {"none", "whole session", "part of a session", "several", "elsewhere"}
      PROVE  Steps' /\ Slots'
  BY <1>1, <1>2 DEF sessionVars, Steps, Slots
<1>3. CASE AuditSession /\ runtime' = runtime
  <2>1. /\ \A w \in Worker : at'[w] = "idle" /\ at[w] = "idle"
        /\ cursor' = StartTrajectory /\ receipts' = <<>> /\ issued' = <<>> /\ ran' = {}
        /\ asked' = NoSession /\ UNCHANGED <<at, context, mine>>
        /\ origin' \in {"several", "whole session", "part of a session"}
    BY <1>3 DEF AuditSession
  <2>2. Len(issued') = 0 /\ DOMAIN issued' = {}
    <3>1. issued' = <<>>
      BY <2>1
    <3>. QED  BY <3>1, EmptySeq
  <2>3. \A w \in Worker : context'[w] = StartTrajectory /\ at'[w] \notin Ahead
    BY <1>1, <2>1 DEF Cursors, Ahead
  <2>4. StartTrajectory.step = 0
    BY DEF StartTrajectory
  <2>5. StartTrajectory.step <= Len(issued') + MaxAdvances
    BY <2>2, <2>4, SessionAssumption
  <2>6. Steps'
    BY <2>1, <2>2, <2>3, <2>5 DEF Steps
  <2>7. \A w \in Worker : mine'[w] = 0
    BY <1>1, <2>1 DEF Slots, Holding
  <2>8. receipts' \in Seq(1..Len(issued')) /\ asked' \in Session
    BY <2>1, EmptySeq DEF Session
  <2>9. Slots'
    BY <2>1, <2>7, <2>8 DEF Slots
  <2>. QED  BY <2>6, <2>9
<1>4. CASE UNCHANGED agentVars
  BY <1>1, <1>2, <1>4 DEF agentVars, Slots
<1>5. ASSUME NEW w \in Worker, AgentStep(w), origin' = origin, runtime' = runtime PROVE Steps' /\ Slots'
  BY <1>1, <1>5, CrewKeepsSteps, CrewKeepsSlots
<1>6. CASE GraphStep /\ origin' = origin /\ runtime' = runtime
  BY <1>1, <1>6, GraphKeepsSteps, GraphKeepsSlots
<1>7. CASE ToolStep /\ origin' = origin /\ runtime' = runtime
  BY <1>1, <1>7, ToolKeepsTypes
<1>8. CASE (AuditOther \/ Audited) /\ runtime' = runtime
  BY <1>1, <1>2, <1>8 DEF AuditOther, Audited, Slots
<1>. QED  BY <1>3, <1>4, <1>5, <1>6, <1>7, <1>8 DEF RuntimeNext, AgentNext, Audits

LEMMA TypedInit == RuntimeInit => Typed
<1>. SUFFICES ASSUME RuntimeInit PROVE Typed
  OBVIOUS
<1>1. /\ issued = <<>> /\ receipts = <<>> /\ ran = {} /\ asked = NoSession /\ origin = "none"
      /\ at = [w \in Worker |-> "idle"] /\ mine = [w \in Worker |-> 0]
      /\ context = [w \in Worker |-> StartTrajectory]
      /\ cursor \in {StartTrajectory, NoContext}
  BY DEF RuntimeInit, SessionStart
<1>2. Len(issued) = 0 /\ DOMAIN issued = {} /\ MaxAdvances \in Nat
  BY <1>1, SessionAssumption
<1>3. StartTrajectory.step = 0 /\ NoContext.step = 0
  BY DEF StartTrajectory, NoContext
<1>4. StartTrajectory.step <= Len(issued) + MaxAdvances /\ NoContext.step <= Len(issued) + MaxAdvances
  BY <1>2, <1>3
<1>5. Steps
  BY <1>1, <1>2, <1>4 DEF Steps, Ahead
<1>6. receipts \in Seq(1..Len(issued)) /\ asked \in Session
  BY <1>1 DEF Session
<1>7. Slots
  BY <1>1, <1>6 DEF Slots
<1>8. overlapped \in BOOLEAN
  BY DEF RuntimeInit, SessionStart
<1>. QED  BY <1>5, <1>7, <1>8 DEF Typed

LEMMA TypedInvariant == RuntimeSpec => []Typed
BY RuntimeInvariant, TypedInit, TypedStep, PTL DEF RuntimeSpec

LEMMA ContextIsTyped ==
  ASSUME NEW n \in Nat, 1..n \subseteq Id, n <= MaxReceipts,
         NEW c \in ContextOf(n), c.step <= n + MaxAdvances
  PROVE  c \in Context
<1>1. c.step \in 0..(MaxReceipts + MaxAdvances)
  BY SessionAssumption DEF ContextOf
<1>2. c.parents \in SUBSET Id
  BY DEF ContextOf
<1>3. c = [tid |-> c.tid, step |-> c.step, parents |-> c.parents, session |-> c.session]
  BY DEF ContextOf
<1>. QED  BY <1>1, <1>2, <1>3 DEF ContextOf, Context, Step, Session

LEMMA RecordIsIssued ==
  ASSUME NEW n \in Nat, 1..n \subseteq Id, n <= MaxReceipts,
         NEW r \in Record, r.step <= n + MaxAdvances, r.parents \subseteq 1..n
  PROVE  r \in Issued
<1>1. r.step \in 0..(MaxReceipts + MaxAdvances)
  BY SessionAssumption DEF Record
<1>2. r.parents \in SUBSET Id
  OBVIOUS
<1>3. r = [tid |-> r.tid, step |-> r.step, parents |-> r.parents, session |-> r.session,
           decision |-> r.decision]
  BY DEF Record
<1>. QED  BY <1>1, <1>2, <1>3 DEF Record, Issued, Step, Session

(* Every variable of a runtime and of the audit keeps its type: a step that *)
(* anyone stores or writes on a receipt is within the bounds, and whatever  *)
(* refers to a receipt (the session's list, the sink, a call under way, an  *)
(* executed tool) refers to one that was issued.                            *)
THEOREM RuntimeTypeCorrect == RuntimeSpec => []AgentTypeOK
<1>1. RuntimeInv /\ Typed => AgentTypeOK
  <2>. SUFFICES ASSUME RuntimeInv, Typed PROVE AgentTypeOK
    OBVIOUS
  <2>. DEFINE n == Len(issued)
  <2>1. Cursors /\ Room /\ Publications /\ Listing /\ AuditTypeOK /\ Steps /\ Slots
    BY DEF RuntimeInv, Typed, AuditInv
  <2>2. issued \in Seq(Record) /\ n \in Nat /\ DOMAIN issued = 1..n /\ MaxReceipts \in Nat
    BY <2>1, SessionAssumption DEF Cursors
  <2>3. n <= MaxReceipts
    <3>1. Pending \in SUBSET Worker
      BY DEF Pending
    <3>2. Cardinality(Pending) \in Nat
      BY <3>1, PendingIsFinite
    <3>3. n + Cardinality(Pending) <= MaxReceipts
      BY <2>1 DEF Room, Pending
    <3>. HIDE DEF Pending, n
    <3>. QED  BY <2>2, <3>2, <3>3
  <2>4. 1..n \subseteq 1..MaxReceipts
    BY <2>2, <2>3
  <2>5. 1..n \subseteq Id
    BY <2>4, SessionAssumption
  <2>6. cursor \in Context
    BY <2>1, <2>2, <2>3, <2>5, ContextIsTyped DEF Cursors, Steps
  <2>7. context \in [Worker -> Context]
    <3>1. \A w \in Worker : context[w] \in Context
      BY <2>1, <2>2, <2>3, <2>5, ContextIsTyped DEF Cursors, Steps
    <3>. QED  BY <2>1, <3>1 DEF Cursors
  <2>8. issued \in Seq(Issued)
    <3>1. ASSUME NEW i \in 1..n PROVE issued[i] \in Issued
      <4>1. issued[i] \in Record
        BY <2>2, ElementOfSeq
      <4>2. issued[i].parents \subseteq 1..(i - 1)
        BY <2>1, <2>2 DEF Cursors, ParentsPrecede
      <4>3. 1..(i - 1) \subseteq 1..n
        BY <2>2
      <4>4. issued[i].step <= n + MaxAdvances
        BY <2>1, <2>2 DEF Steps
      <4>. QED  BY <2>2, <2>3, <2>5, <4>1, <4>2, <4>3, <4>4, RecordIsIssued
    <3>2. issued = [i \in 1..n |-> issued[i]]
      BY <2>2
    <3>. HIDE DEF n
    <3>. QED  BY <2>2, <3>1, <3>2
  <2>9. published \in Seq(DOMAIN issued)
    <3>1. \A i \in DOMAIN published : published[i] \in DOMAIN issued
      BY <2>1, <2>2 DEF Publications
    <3>. QED  BY <2>1, <3>1 DEF Publications
  <2>10. mine \in [Worker -> 0..n]
    <3>1. ASSUME NEW w \in Worker PROVE mine[w] \in 0..n
      <4>1. mine[w] \in 1..n \/ mine[w] = 0
        BY <2>1, <2>2 DEF Listing, Slots
      <4>. HIDE DEF n
      <4>. QED  BY <2>2, <4>1
    <3>. QED  BY <2>1, <3>1 DEF Listing
  <2>11. at \in [Worker -> {"idle", "verify", "admission", "issued", "stored",
                            "execute", "advance", "parents", "merge", "node"}]
    <3>1. at \in [Worker -> Phase(runtime)]
      BY <2>1 DEF Cursors
    <3>2. \A w \in Worker : at[w] \in {"idle", "verify", "admission", "issued", "stored",
                                       "execute", "advance", "parents", "merge", "node"}
      BY <3>1 DEF Phase
    <3>. QED  BY <3>1, <3>2
  <2>12. request \in [Worker -> SessionId \cup {NoSession}]
         /\ runtime \in {"crew", "graph", "graph with reducer", "tools"}
    BY <2>1 DEF Cursors, Session, Graph
  <2>13. receipts \in Seq(DOMAIN issued) /\ ran \subseteq DOMAIN issued
         /\ asked \in SessionId \cup {NoSession}
         /\ origin \in {"none", "whole session", "part of a session", "several", "elsewhere"}
    BY <2>1, <2>2 DEF Slots, Session
  <2>14. overlapped \in BOOLEAN
    BY DEF Typed
  <2>. QED  BY <2>1, <2>6, <2>7, <2>8, <2>9, <2>10, <2>11, <2>12, <2>13, <2>14 DEF AgentTypeOK
<1>. QED  BY <1>1, RuntimeInvariant, TypedInvariant, PTL

-----------------------------------------------------------------------------
(* The refinement: a DAG of receipts that grows.                           *)

Shown == [i \in DOMAIN issued |->
             [parents |-> issued[i].parents, decision |-> issued[i].decision]]

LEMMA ListGrows ==
  ASSUME RuntimeInv, Typed, [RuntimeNext]_agentVars
  PROVE  AuditSession \/ Recorded \subseteq Recorded'
<1>1. Cursors /\ Listing /\ Slots /\ receipts \in Seq(1..Len(issued))
  BY DEF RuntimeInv, Typed, Slots
<1>2. ASSUME receipts' = receipts PROVE Recorded \subseteq Recorded'
  BY <1>2 DEF Recorded
<1>3. ASSUME NEW n, n \in 1..Len(issued), receipts' = Append(receipts, n)
      PROVE  Recorded \subseteq Recorded'
  <2>1. \A i \in DOMAIN receipts : i \in DOMAIN receipts' /\ receipts'[i] = receipts[i]
    BY <1>1, <1>3
  <2>. QED  BY <2>1 DEF Recorded
<1>4. ASSUME NEW w \in Worker, Join(w) PROVE Recorded \subseteq Recorded'
  BY <1>1, <1>4, MergedIsSeq DEF Recorded
<1>5. ASSUME NEW w \in Worker, at[w] \in {"issued", "stored"}, receipts' = Append(receipts, mine[w])
      PROVE  Recorded \subseteq Recorded'
  <2>1. mine[w] \in 1..Len(issued)
    BY <1>1, <1>5 DEF Listing, Holding, Cursors
  <2>. QED  BY <1>3, <1>5, <2>1
<1>6. ASSUME NEW w \in Worker, AgentStep(w) PROVE Recorded \subseteq Recorded'
  <2>1. CASE AppendReceipt(w)
    BY <1>5, <2>1 DEF AppendReceipt
  <2>2. CASE receipts' = receipts
    BY <1>2, <2>2
  <2>. QED  BY <1>6, <2>1, <2>2 DEF AgentStep, CallVerify, CallAdmission, ReadCursor, IssueVerify,
               IssueAdmission, Issue, CallRaises, StoreCursor, RunTool, CallAdvance, CallMerge,
               ReadParents, Advance, Merge, StoreAdvanced
<1>7. ASSUME GraphStep PROVE Recorded \subseteq Recorded'
  <2>1. (\E w \in Worker : Join(w)) \/ receipts' = receipts
    BY <1>7 DEF GraphStep, BeginSuperstep, RetrievalNode, CustomNode, AdmissionNode, NodeIssues,
           FailSuperstep
  <2>. QED  BY <1>2, <1>4, <2>1
<1>8. ASSUME ToolStep PROVE Recorded \subseteq Recorded'
  <2>1. \/ \E w \in Worker : at[w] = "issued" /\ receipts' = Append(receipts, mine[w])
        \/ receipts' = receipts
    BY <1>8 DEF ToolStep, CallWrapped, RecordWrapped
  <2>. QED  BY <1>2, <1>5, <2>1
<1>9. ASSUME AuditOther \/ Audited \/ UNCHANGED agentVars PROVE Recorded \subseteq Recorded'
  BY <1>2, <1>9 DEF AuditOther, Audited, agentVars, sessionVars
<1>. QED  BY <1>6, <1>7, <1>8, <1>9 DEF RuntimeNext, AgentNext, Audits

(* A step that issues no receipt and runs no tool lists receipts that were   *)
(* issued, if any.                                                           *)
LEMMA ListStep ==
  ASSUME AgentTypeOK', UNCHANGED <<issued, ran>>, Recorded \subseteq Recorded'
  PROVE  Run!Next
<1>1. Recorded' \subseteq DOMAIN issued
  <2>1. receipts' \in Seq(DOMAIN issued)
    BY DEF AgentTypeOK
  <2>2. \A i \in DOMAIN receipts' : receipts'[i] \in DOMAIN issued
    BY <2>1, ElementOfSeq
  <2>. QED  BY <2>2 DEF Recorded
<1>2. Recorded' = Recorded \cup Recorded' /\ DOMAIN Shown = DOMAIN issued
  BY DEF Shown
<1>3. Run!List(Recorded')
  BY <1>1, <1>2 DEF Run!List
<1>. QED  BY <1>1, <1>3 DEF Run!Next

LEMMA IssueStep ==
  ASSUME RuntimeInv, RuntimeInv', NEW w \in Worker, Issues(w)
  PROVE  Run!Next
<1>. DEFINE k == Len(issued) + 1
            ps == issued'[k].parents
            d == issued'[k].decision
<1>1. /\ issued \in Seq(Record) /\ issued' \in Seq(Record)
      /\ Len(issued') = k /\ \A i \in 1..Len(issued) : issued'[i] = issued[i]
  BY DEF RuntimeInv, Cursors, Issues
<1>2. /\ Len(issued) \in Nat /\ DOMAIN issued = 1..Len(issued) /\ DOMAIN issued' = 1..k
      /\ k \in 1..k /\ k - 1 = Len(issued)
      /\ \A i \in 1..k : i \in 1..Len(issued) \/ i = k
  BY <1>1
<1>3. issued'[k] \in Record
  BY <1>1, <1>2, ElementOfSeq
<1>4. ps \subseteq DOMAIN issued /\ d \in {"none", "allow", "deny"}
  <2>1. ps \subseteq 1..(k - 1)
    BY <1>2 DEF RuntimeInv, Cursors, ParentsPrecede
  <2>. QED  BY <1>2, <1>3, <2>1 DEF Record
<1>5. Shown' = Append(Shown, [parents |-> ps, decision |-> d])
  <2>. DEFINE e == [parents |-> ps, decision |-> d]
              S == [parents : SUBSET Nat, decision : {"none", "allow", "deny"}]
  <2>1. e \in S
    BY <1>3 DEF Record
  <2>2. Shown \in Seq(S) /\ Len(Shown) = Len(issued)
        /\ \A i \in 1..Len(issued) :
               Shown[i] = [parents |-> issued[i].parents, decision |-> issued[i].decision]
    <3>1. \A i \in 1..Len(issued) : issued[i] \in Record
      BY <1>1, <1>2, ElementOfSeq
    <3>2. \A i \in 1..Len(issued) :
             [parents |-> issued[i].parents, decision |-> issued[i].decision] \in S
      BY <3>1 DEF Record
    <3>. HIDE DEF S
    <3>. QED  BY <1>2, <3>2 DEF Shown
  <2>3. Shown' = [i \in 1..k |->
                     [parents |-> issued'[i].parents, decision |-> issued'[i].decision]]
    BY <1>2 DEF Shown
  <2>4. \A i \in 1..k : Shown'[i] = IF i \in 1..Len(issued) THEN Shown[i] ELSE e
    BY <1>1, <1>2, <2>2, <2>3
  <2>. DEFINE longer == Append(Shown, e)
  <2>. HIDE DEF e, S
  <2>5. longer = [i \in 1..k |-> IF i \in 1..Len(issued) THEN Shown[i] ELSE e]
    <3>1. longer \in Seq(S) /\ Len(longer) = Len(issued) + 1
          /\ (\A i \in 1..Len(issued) : longer[i] = Shown[i]) /\ longer[Len(issued) + 1] = e
      BY <2>1, <2>2, AppendProperties
    <3>. HIDE DEF longer
    <3>2. longer = [i \in 1..k |-> longer[i]]
      BY <1>2, <3>1
    <3>3. \A i \in 1..k : longer[i] = IF i \in 1..Len(issued) THEN Shown[i] ELSE e
      BY <1>2, <3>1
    <3>. QED  BY <3>2, <3>3, Zenon
  <2>. HIDE DEF longer
  <2>6. Shown' = longer
    BY <2>3, <2>4, <2>5, Zenon
  <2>. QED  BY <2>6 DEF longer, e
<1>6. Recorded' = Recorded /\ ran' = ran
  BY DEF Issues, Recorded
<1>7. DOMAIN Shown = DOMAIN issued
  BY DEF Shown
<1>8. PICK q, c : q = ps /\ c = d
  OBVIOUS
<1>. HIDE DEF k, ps, d
<1>9. q \in SUBSET DOMAIN issued /\ c \in {"none", "allow", "deny"}
  BY <1>4, <1>8
<1>10. Run!Issue(q, c)
  BY <1>5, <1>6, <1>7, <1>8, <1>9 DEF Run!Issue, Shown
<1>11. q \in SUBSET DOMAIN Shown
  BY <1>7, <1>9
<1>. QED  BY <1>9, <1>10, <1>11, Zenon DEF Run!Next, Shown

LEMMA ExecuteStep ==
  ASSUME RuntimeInv, NEW w \in Worker, Runs(w)
  PROVE  Run!Next
<1>1. /\ at[w] = "execute" /\ ran' = ran \cup {mine[w]}
      /\ UNCHANGED <<receipts, issued>>
  BY DEF Runs
<1>2. /\ issued[mine[w]].decision = "allow" /\ mine[w] \in Recorded \ ran
      /\ mine[w] \in DOMAIN issued
  BY <1>1 DEF RuntimeInv, Listing, ExecutedWasAllowed, Holding
<1>3. Recorded' = Recorded
  BY <1>1 DEF Recorded
<1>4. Run!Execute(mine[w])
  BY <1>1, <1>2, <1>3 DEF Run!Execute
<1>. QED  BY <1>2, <1>4 DEF Run!Next

LEMMA ArchiveIsReset ==
  ASSUME receipts' = <<>>, issued' = <<>>, ran' = {}
  PROVE  Run!Next
<1>1. Shown' = <<>> /\ Recorded' = {}
  BY DEF Shown, Recorded
<1>. QED  BY <1>1 DEF Run!Next, Run!Archive, Shown

LEMMA StepImplementsRun ==
  ASSUME RuntimeInv, RuntimeInv', Typed, AgentTypeOK', [RuntimeNext]_agentVars
  PROVE  Run!Next
<1>1. Effect
  BY EveryEffect
<1>2. CASE AuditSession
  BY <1>2, ArchiveIsReset DEF AuditSession
<1>3. CASE ~ AuditSession
  <2>1. Recorded \subseteq Recorded'
    BY <1>3, ListGrows
  <2>2. ASSUME UNCHANGED <<issued, ran>> PROVE Run!Next
    BY <2>1, <2>2, ListStep
  <2>. QED  BY <1>1, <2>2, IssueStep, ExecuteStep, ArchiveIsReset
            DEF Effect, Moves, Lists, Turns, Rests, Ends
<1>. QED  BY <1>2, <1>3

(* Whichever runtime issues them and however its calls overlap, the receipts *)
(* of a run are a DAG that grows by one receipt at a time under receipts     *)
(* that were there before, nothing on a receipt changes, and a tool runs     *)
(* once, under a receipt that is listed and allows it.                       *)
THEOREM ImplementsRun == RuntimeSpec => RunSpec
<1>1. RuntimeInit => Run!Init
  <2>. SUFFICES ASSUME RuntimeInit PROVE Run!Init
    OBVIOUS
  <2>1. receipts = <<>> /\ issued = <<>> /\ ran = {}
    BY DEF RuntimeInit, SessionStart
  <2>2. Shown = <<>> /\ Recorded = {}
    BY <2>1 DEF Shown, Recorded
  <2>. QED  BY <2>1, <2>2 DEF Run!Init, Shown
<1>. QED  BY <1>1, RuntimeInvariant, TypedInvariant, RuntimeTypeCorrect, StepImplementsRun, PTL
          DEF RuntimeSpec, RunSpec, Run!Spec
=============================================================================
