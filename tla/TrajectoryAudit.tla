--------------------------- MODULE TrajectoryAudit ---------------------------
(***************************************************************************)
(* `provenex audit <file>`: _cmd_audit() (provenex/cli/main.py) audits one *)
(* receipt by itself.  `provenex audit --trajectory`:                      *)
(* _cmd_audit_trajectory() audits every receipt file by itself, then hands *)
(* all of them to audit_trajectory_dag() (provenex/core/trajectory.py),    *)
(* whose depth-first search with an explicit stack decides whether the     *)
(* parents form a cycle.                                                   *)
(*                                                                         *)
(* The files are what the directory holds: some may be missing, copied or  *)
(* edited.  The order in which a receipt names its parents and in which a  *)
(* dict lists its keys is arbitrary here: the search takes any.            *)
(***************************************************************************)
EXTENDS Naturals, Sequences

CONSTANTS
    Id,             \* receipt ids
    Trajectory,     \* trajectory ids
    NoTrajectory    \* a receipt without a trajectory block

ASSUME TrajectoryAssumption == NoTrajectory \notin Trajectory

(* A receipt file: `intact` when the signature fits the payload; `proofs`,  *)
(* what verify_inclusion_proof() says of each source; `log` when there is a *)
(* transparency_log block to check them against.                           *)
File == [id : Id, tid : Trajectory \cup {NoTrajectory}, parents : SUBSET Id,
         alg : {"none", "hmac-sha256", "ed25519"}, intact : BOOLEAN,
         proofs : SUBSET {"none", "valid", "invalid"}, log : BOOLEAN]

(* --public-key, PROVENEX_SIGNING_SECRET and --unsigned.                   *)
Arguments == [key : {"none", "readable", "unreadable"}, secret : BOOLEAN, unsigned : BOOLEAN]

VARIABLES
    args,           \* the arguments of the command
    files,          \* the parsed receipts, in the order of their paths
    audit,          \* "idle", "begun", "searching", "done"; "alone", "reported"
    color,          \* of the receipts of by_id: "white", "gray", "black"
    stack,          \* of [node, todo]: a receipt, and the parents still to follow
    cycleThrough,   \* {} or the receipt at which the search closed a cycle
    passed          \* "overall" of the report

auditVars == <<args, files, audit, color, stack, cycleThrough, passed>>

-----------------------------------------------------------------------------
(* by_id: a dict comprehension, so of two files with one receipt_id the    *)
(* last one counts.                                                        *)
Node == {files[i].id : i \in DOMAIN files}

LastFile(n) ==
    CHOOSE i \in DOMAIN files :
        files[i].id = n /\ \A j \in DOMAIN files : files[j].id = n => j <= i

Parents(n) == files[LastFile(n)].parents

HasTrajectoryBlock == \A i \in DOMAIN files : files[i].tid # NoTrajectory

SharedTrajectoryId ==
    /\ files # <<>>
    /\ \A i, j \in DOMAIN files : files[i].tid = files[j].tid

NoDanglingParents == \A i \in DOMAIN files : files[i].parents \subseteq Node

HasRootStep == \E i \in DOMAIN files : files[i].parents = {}

(* verify_receipt_signature() with a signer of that algorithm. *)
VerifyReceiptSignature(f, algorithm) == f.alg = algorithm /\ f.intact

(* _audit_signature() *)
SignatureOkSkipping(f) ==
    \/ f.alg = "none" /\ args.unsigned
    \/ args.key = "readable" /\ VerifyReceiptSignature(f, "ed25519")
    \/ args.key = "none" /\ args.secret /\ VerifyReceiptSignature(f, "hmac-sha256")
    \/ f.alg # "none" /\ args.key = "none" /\ ~ args.secret

SignatureOk(f) ==
    \/ f.alg = "none" /\ args.unsigned
    \/ args.key = "readable" /\ VerifyReceiptSignature(f, "ed25519")
    \/ args.key = "none" /\ args.secret /\ VerifyReceiptSignature(f, "hmac-sha256")
    \/ f.alg # "none" /\ args.key = "none" /\ ~ args.secret /\ args.unsigned

(* _audit_inclusion_proofs(): a source without a proof is passed over. *)
ProofsOk(f) == \A p \in f.proofs : p = "none" \/ (f.log /\ p = "valid")

EveryReceiptOk == \A i \in DOMAIN files : SignatureOk(files[i]) /\ ProofsOk(files[i])

AuditTypeOK ==
    /\ args \in Arguments
    /\ files \in Seq(File)
    /\ audit \in {"idle", "begun", "searching", "done", "alone", "reported"}
    /\ color \in [Node -> {"white", "gray", "black"}]
    /\ stack \in Seq([node : Node, todo : SUBSET Id])
    /\ cycleThrough \subseteq Node
    /\ passed \in BOOLEAN

(* Nothing collected yet. *)
AuditIdle ==
    /\ args = [key |-> "none", secret |-> FALSE, unsigned |-> FALSE]
    /\ files = <<>>
    /\ audit = "idle"
    /\ color = [n \in {} |-> "white"]
    /\ stack = <<>>
    /\ cycleThrough = {}
    /\ passed = FALSE

(* The paths are collected and parsed; no file, or a file that is no JSON,  *)
(* ends the command with an error before anything is audited.               *)
Collect(fs, as) ==
    /\ audit = "idle"
    /\ fs # <<>>
    /\ args' = as
    /\ files' = fs
    /\ audit' = "begun"
    /\ color' = [n \in {fs[i].id : i \in DOMAIN fs} |-> "white"]
    /\ UNCHANGED <<stack, cycleThrough, passed>>

(* `provenex audit <file>`: one receipt, and nothing about its trajectory.  *)
CollectOne(f, as) ==
    /\ audit = "idle"
    /\ args' = as
    /\ files' = <<f>>
    /\ audit' = "alone"
    /\ color' = [n \in {f.id} |-> "white"]
    /\ UNCHANGED <<stack, cycleThrough, passed>>

ReportOne ==
    /\ audit = "alone"
    /\ audit' = "reported"
    /\ passed' = EveryReceiptOk
    /\ UNCHANGED <<args, files, color, stack, cycleThrough>>

(* The first two checks return early: no search, and the verdict is FAIL.   *)
RefuseArchive ==
    /\ audit = "begun"
    /\ ~ (HasTrajectoryBlock /\ SharedTrajectoryId)
    /\ audit' = "done"
    /\ passed' = FALSE
    /\ UNCHANGED <<args, files, color, stack, cycleThrough>>

BeginSearch ==
    /\ audit = "begun"
    /\ HasTrajectoryBlock
    /\ SharedTrajectoryId
    /\ audit' = "searching"
    /\ UNCHANGED <<args, files, color, stack, cycleThrough, passed>>

-----------------------------------------------------------------------------
(* The search.                                                             *)

Searching == audit = "searching" /\ cycleThrough = {}

Top == stack[Len(stack)]

Push(s, n) == Append(s, [node |-> n, todo |-> Parents(n)])

StartAt(n) ==
    /\ Searching
    /\ stack = <<>>
    /\ color[n] = "white"
    /\ color' = [color EXCEPT ![n] = "gray"]
    /\ stack' = Push(<<>>, n)
    /\ UNCHANGED <<args, files, audit, cycleThrough, passed>>

(* p = next(parents_iter).  A parent without a file was counted as          *)
(* dangling; a gray one closes a cycle; a black one was explored before.    *)
FollowDropping(p) ==
    /\ Searching
    /\ stack # <<>>
    /\ p \in Top.todo
    /\ IF p \in Node /\ color[p] = "white"
       THEN /\ color' = [color EXCEPT ![p] = "gray"]
            /\ stack' = Push(stack, p)
       ELSE UNCHANGED <<color, stack>>
    /\ cycleThrough' = IF p \in Node /\ color[p] = "gray" THEN {p} ELSE {}
    /\ UNCHANGED <<args, files, audit, passed>>

FollowTwoColors(p) ==
    /\ Searching
    /\ stack # <<>>
    /\ p \in Top.todo
    /\ LET rest == [stack EXCEPT ![Len(stack)].todo = @ \ {p}]
       IN  IF p \in Node /\ color[p] = "white"
           THEN /\ color' = [color EXCEPT ![p] = "gray"]
                /\ stack' = Push(rest, p)
           ELSE /\ stack' = rest
                /\ UNCHANGED color
    /\ cycleThrough' = IF p \in Node /\ color[p] # "white" THEN {p} ELSE {}
    /\ UNCHANGED <<args, files, audit, passed>>

Follow(p) ==
    /\ Searching
    /\ stack # <<>>
    /\ p \in Top.todo
    /\ LET rest == [stack EXCEPT ![Len(stack)].todo = @ \ {p}]
       IN  IF p \in Node /\ color[p] = "white"
           THEN /\ color' = [color EXCEPT ![p] = "gray"]
                /\ stack' = Push(rest, p)
           ELSE /\ stack' = rest
                /\ UNCHANGED color
    /\ cycleThrough' = IF p \in Node /\ color[p] = "gray" THEN {p} ELSE {}
    /\ UNCHANGED <<args, files, audit, passed>>

(* StopIteration: every parent of the receipt is explored. *)
Backtrack ==
    /\ Searching
    /\ stack # <<>>
    /\ Top.todo = {}
    /\ color' = [color EXCEPT ![Top.node] = "black"]
    /\ stack' = SubSeq(stack, 1, Len(stack) - 1)
    /\ UNCHANGED <<args, files, audit, cycleThrough, passed>>

(* The remaining checks, and the command's overall verdict. *)
ReportAcyclic(acyclic) ==
    /\ audit = "searching"
    /\ audit' = "done"
    /\ passed' = (EveryReceiptOk /\ NoDanglingParents /\ acyclic /\ HasRootStep)
    /\ UNCHANGED <<args, files, color, stack, cycleThrough>>

Report ==
    \/ cycleThrough # {} /\ ReportAcyclic(FALSE)
    \/ /\ cycleThrough = {}
       /\ stack = <<>>
       /\ \A n \in Node : color[n] # "white"
       /\ ReportAcyclic(TRUE)

AuditStep ==
    \/ ReportOne
    \/ RefuseArchive
    \/ BeginSearch
    \/ \E n \in Node : StartAt(n)
    \/ \E p \in Id : Follow(p)
    \/ Backtrack
    \/ Report

(* One audit of whatever lies in the directory. *)
AuditNext ==
    \/ \E fs \in Seq(File), as \in Arguments : Collect(fs, as)
    \/ \E f \in File, as \in Arguments : CollectOne(f, as)
    \/ AuditStep

AuditSpec == AuditIdle /\ [][AuditNext]_auditVars

-----------------------------------------------------------------------------
(* Properties.                                                             *)

(* A set of receipts in which each one names another of them as a parent.  *)
CyclicSet(S) == S # {} /\ S \subseteq Node /\ \A n \in S : Parents(n) \cap S # {}

Acyclic == \A S \in SUBSET Node : ~ CyclicSet(S)

(* The command reports PASS on a trajectory exactly when each receipt       *)
(* stands by itself, all belong to one trajectory, every parent is there,   *)
(* some receipt is a root and no set of receipts is cyclic: whatever files  *)
(* are missing, copied or edited, and whatever order the search takes       *)
(* through them.  Without --unsigned, PASS vouches for a valid signature    *)
(* and for every inclusion proof, of one receipt or of all of them.         *)
VerdictIsExact ==
    /\ (passed /\ ~ args.unsigned) =>
           \A i \in DOMAIN files :
               files[i].alg # "none" /\ files[i].intact /\ "invalid" \notin files[i].proofs
    /\ audit = "done" =>
           (passed <=> /\ EveryReceiptOk
                       /\ HasTrajectoryBlock
                       /\ SharedTrajectoryId
                       /\ NoDanglingParents
                       /\ Acyclic
                       /\ HasRootStep)

(* The command ends: the search follows every parent of a receipt once and  *)
(* explores no receipt twice, cycles and diamonds included.                 *)
AuditEnds == audit \in {"begun", "alone"} ~> audit \in {"done", "reported"}
=============================================================================
