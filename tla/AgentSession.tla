---------------------------- MODULE AgentSession ----------------------------
(***************************************************************************)
(* A crew of agents that works through one ProvenexCrewSession             *)
(* (provenex/integrations/crewai/session.py), one of the runtimes that     *)
(* thread a trajectory (AgentRuntimes has the others).  It keeps a cursor, *)
(* the TrajectoryContext of the next step, and the list of its receipts.   *)
(* Each call reads the cursor, lets verify_chunks() or admission_check()   *)
(* issue and publish a receipt, stores the next cursor and appends the     *)
(* receipt: four steps, no lock, and CrewAI may run tools in threads.      *)
(*                                                                         *)
(* When the crew has finished, what the sink wrote is audited              *)
(* (TrajectoryAudit); an audit may as well be run over any other files.    *)
(* Receipt ids are random and never repeat: here, the order of issue.      *)
(***************************************************************************)
EXTENDS TrajectoryAudit, FiniteSets

CONSTANTS
    Worker,         \* threads that use the session
    SessionId,      \* RequestContext.session_id
    NoSession,      \* session_id is None
    Requested,      \* session ids (or none) that requests name
    SessionTrajectory, \* the id start_trajectory() drew
    OtherArchive,   \* directories somebody else filled
    MaxReceipts,    \* bound: receipts of the session
    MaxAdvances     \* bound: steps of the cursor beyond the receipts issued

ASSUME SessionAssumption ==
    /\ IsFiniteSet(Worker)
    /\ NoSession \notin SessionId
    /\ Requested \subseteq SessionId \cup {NoSession}
    /\ SessionTrajectory \in Trajectory
    /\ MaxReceipts \in Nat /\ MaxAdvances \in Nat
    /\ 1..MaxReceipts \subseteq Id
    /\ OtherArchive \subseteq [files : Seq(File), args : Arguments]

VARIABLES
    runtime,        \* who holds the cursor
    cursor,         \* session._trajectory; tid is NoTrajectory where there is none
    receipts,       \* session._receipts
    issued,         \* receipts finalized, by id
    published,      \* ids the sink wrote, in that order
    at,             \* what each worker is about to do
    context,        \* the cursor each worker has read
    request,        \* session_id of the request each worker was given
    mine,           \* the receipt each worker was returned, 0 before
    ran,            \* ids of the admission receipts whose tool then ran
    overlapped,     \* history: some call began while another was under way
    asked,          \* history: the last session_id a request named
    origin          \* history: whose files are audited

sessionVars == <<cursor, receipts, issued, published, at, context, request,
                 mine, ran, overlapped, asked>>
agentVars == <<runtime, sessionVars, origin, auditVars>>

Step == 0..(MaxReceipts + MaxAdvances)

Context == [tid : Trajectory \cup {NoTrajectory}, step : Step, parents : SUBSET Id,
            session : SessionId \cup {NoSession}]

Issued == [tid : Trajectory \cup {NoTrajectory}, step : Step, parents : SUBSET Id,
           session : SessionId \cup {NoSession},
           decision : {"none", "allow", "deny"}]

AgentTypeOK ==
    /\ AuditTypeOK
    /\ runtime \in {"crew", "graph", "graph with reducer", "tools"}
    /\ cursor \in Context
    /\ receipts \in Seq(DOMAIN issued)
    /\ issued \in Seq(Issued)
    /\ published \in Seq(DOMAIN issued)
    /\ at \in [Worker -> {"idle", "verify", "admission", "issued", "stored",
                          "execute", "advance", "parents", "merge", "node"}]
    /\ context \in [Worker -> Context]
    /\ request \in [Worker -> SessionId \cup {NoSession}]
    /\ mine \in [Worker -> 0..Len(issued)]
    /\ ran \subseteq DOMAIN issued
    /\ overlapped \in BOOLEAN
    /\ asked \in SessionId \cup {NoSession}
    /\ origin \in {"none", "whole session", "part of a session", "several", "elsewhere"}

-----------------------------------------------------------------------------
(* TrajectoryContext.                                                      *)

StartTrajectory == [tid |-> SessionTrajectory, step |-> 0, parents |-> {}, session |-> NoSession]

Override(s, default) == IF s = NoSession THEN default ELSE s

NextStepByParents(c, ps, s) ==
    [tid |-> c.tid, step |-> c.step + Cardinality(ps), parents |-> ps,
     session |-> Override(s, c.session)]

NextStepForgetting(c, ps, s) ==
    [tid |-> c.tid, step |-> c.step + 1, parents |-> ps, session |-> s]

NextStep(c, ps, s) ==
    [tid |-> c.tid, step |-> c.step + 1, parents |-> ps,
     session |-> Override(s, c.session)]

(* The block on the receipt: the step's own context, in the session the     *)
(* request names.                                                          *)
EmitTrajectory(c, s, d) ==
    [tid |-> c.tid, step |-> c.step, parents |-> c.parents,
     session |-> Override(s, c.session), decision |-> d]

SessionStart ==
    /\ receipts = <<>>
    /\ issued = <<>>
    /\ published = <<>>
    /\ at = [w \in Worker |-> "idle"]
    /\ context = [w \in Worker |-> StartTrajectory]
    /\ request = [w \in Worker |-> NoSession]
    /\ mine = [w \in Worker |-> 0]
    /\ ran = {}
    /\ overlapped = FALSE
    /\ asked = NoSession

AgentInit ==
    /\ runtime = "crew"
    /\ cursor = StartTrajectory
    /\ SessionStart
    /\ origin = "none"
    /\ AuditIdle

-----------------------------------------------------------------------------
(* The calls of one worker.  Reading the cursor is the first step of each.  *)

(* The next thing to do; the locals of a call go when it returns. *)
Become(w, step) ==
    /\ at' = [at EXCEPT ![w] = step]
    /\ UNCHANGED <<context, request, mine>>

Return(w) ==
    /\ at' = [at EXCEPT ![w] = "idle"]
    /\ context' = [context EXCEPT ![w] = StartTrajectory]
    /\ request' = [request EXCEPT ![w] = NoSession]
    /\ mine' = [mine EXCEPT ![w] = 0]

ReadCursor(w, step, s) ==
    /\ runtime = "crew" /\ audit = "idle"
    /\ at[w] = "idle"
    /\ at' = [at EXCEPT ![w] = step]
    /\ context' = [context EXCEPT ![w] = cursor]
    /\ request' = [request EXCEPT ![w] = s]
    /\ overlapped' = (overlapped \/ \E v \in Worker : at[v] # "idle")
    /\ UNCHANGED <<cursor, receipts, issued, published, mine, ran, asked, auditVars>>

(* The bound on receipts. *)
MayIssue ==
    Len(issued) + Cardinality({v \in Worker : at[v] \in {"verify", "admission"}}) < MaxReceipts

(* verify_chunks(), also from a tool of wrap_tool(); it passes no request.  *)
CallVerify(w) == MayIssue /\ ReadCursor(w, "verify", NoSession)

(* admission_check(), also from a tool of wrap_tool_admission(). *)
CallAdmission(w, s) == MayIssue /\ ReadCursor(w, "admission", s)

(* builder.finalize() and _safe_publish(): a failing sink is only warned of. *)
Issue(w, step, decision, written) ==
    /\ at[w] = step
    /\ issued' = Append(issued, EmitTrajectory(context[w], request[w], decision))
    /\ published' = IF written THEN Append(published, Len(issued) + 1) ELSE published
    /\ mine' = [mine EXCEPT ![w] = Len(issued) + 1]
    /\ asked' = Override(request[w], asked)
    /\ at' = [at EXCEPT ![w] = "issued"]
    /\ UNCHANGED <<cursor, receipts, context, request, ran, overlapped, auditVars>>

IssueVerify(w, written) == Issue(w, "verify", "none", written)

IssueAdmission(w, decision, written) == Issue(w, "admission", decision, written)

(* The ValueError for a policy with access control, an error of the index,  *)
(* of the evaluator or a closed sink: the session is as it was.             *)
CallRaises(w) ==
    /\ at[w] \in {"verify", "admission"}
    /\ Return(w)
    /\ UNCHANGED <<cursor, receipts, issued, published, ran, overlapped, asked, auditVars>>

(* self._trajectory = result.next_trajectory *)
StoreCursor(w) ==
    /\ runtime = "crew"
    /\ at[w] = "issued"
    /\ cursor' = NextStep(context[w], {mine[w]}, request[w])
    /\ Become(w, "stored")
    /\ UNCHANGED <<receipts, issued, published, ran, overlapped, asked, auditVars>>

(* self._receipts.append(result.receipt); then a denied call raises         *)
(* ToolCallDenied or hands over to on_deny.                                 *)
AppendUnlessDenied(w) ==
    /\ at[w] = "stored"
    /\ receipts' = IF issued[mine[w]].decision = "deny" THEN receipts ELSE Append(receipts, mine[w])
    /\ IF issued[mine[w]].decision = "allow" THEN Become(w, "execute") ELSE Return(w)
    /\ UNCHANGED <<cursor, issued, published, ran, overlapped, asked, auditVars>>

AppendAndExecute(w) ==
    /\ at[w] = "stored"
    /\ receipts' = Append(receipts, mine[w])
    /\ IF issued[mine[w]].decision # "none" THEN Become(w, "execute") ELSE Return(w)
    /\ UNCHANGED <<cursor, issued, published, ran, overlapped, asked, auditVars>>

AppendReceipt(w) ==
    /\ at[w] = "stored"
    /\ receipts' = Append(receipts, mine[w])
    /\ IF issued[mine[w]].decision = "allow" THEN Become(w, "execute") ELSE Return(w)
    /\ UNCHANGED <<cursor, issued, published, ran, overlapped, asked, auditVars>>

(* The admitted tool runs; what it raises reaches the caller all the same.  *)
RunTool(w) ==
    /\ at[w] = "execute"
    /\ ran' = ran \cup {mine[w]}
    /\ Return(w)
    /\ UNCHANGED <<cursor, receipts, issued, published, overlapped, asked, auditVars>>

-----------------------------------------------------------------------------
(* advance(): by itself it reads the cursor twice, once for the step and    *)
(* once for its parents; with parent receipts it merges branches.           *)

MayAdvance == MayIssue /\ cursor.step < Len(issued) + MaxAdvances

CallAdvance(w) == MayAdvance /\ ReadCursor(w, "advance", NoSession)

CallMerge(w) == MayAdvance /\ ReadCursor(w, "merge", NoSession)

ReadParents(w) ==
    /\ at[w] = "advance"
    /\ context' = [context EXCEPT ![w].parents = cursor.parents]
    /\ at' = [at EXCEPT ![w] = "parents"]
    /\ UNCHANGED <<cursor, receipts, issued, published, request, mine, ran,
                   overlapped, asked, auditVars>>

StoreAdvanced(w, step, ps) ==
    /\ at[w] = step
    /\ cursor' = NextStep(context[w], ps, NoSession)
    /\ Return(w)
    /\ UNCHANGED <<receipts, issued, published, ran, overlapped, asked, auditVars>>

Advance(w) == StoreAdvanced(w, "parents", context[w].parents)

Merge(w, ps) ==
    /\ ps \subseteq {receipts[i] : i \in DOMAIN receipts}
    /\ StoreAdvanced(w, "merge", ps)

-----------------------------------------------------------------------------
(* The archive: what the sink wrote once no call is under way and the crew  *)
(* is done; the session goes with its process.                             *)

FileOf(i) ==
    [id |-> i, tid |-> issued[i].tid, parents |-> issued[i].parents,
     alg |-> "hmac-sha256", intact |-> TRUE, proofs |-> {"none"}, log |-> FALSE]

AuditSession ==
    /\ \A w \in Worker : at[w] = "idle"
    /\ Collect([i \in DOMAIN published |-> FileOf(published[i])],
               [key |-> "none", secret |-> TRUE, unsigned |-> FALSE])
    /\ origin' = IF \E i, j \in DOMAIN published :
                       \/ issued[published[i]].tid # issued[published[j]].tid
                       \/ issued[published[i]].tid = NoTrajectory
                 THEN "several"
                 ELSE IF Len(published) = Len(issued) THEN "whole session" ELSE "part of a session"
    /\ cursor' = StartTrajectory
    /\ receipts' = <<>>
    /\ issued' = <<>>
    /\ published' = <<>>
    /\ ran' = {}
    /\ overlapped' = FALSE
    /\ asked' = NoSession
    /\ UNCHANGED <<at, context, request, mine>>

AuditOther ==
    /\ runtime = "crew" /\ audit = "idle"
    /\ SessionStart
    /\ cursor = StartTrajectory
    /\ \E a \in OtherArchive :
          \/ Collect(a.files, a.args)
          \/ Len(a.files) = 1 /\ CollectOne(a.files[1], a.args)
    /\ origin' = "elsewhere"
    /\ UNCHANGED sessionVars

AgentStep(w) ==
    \/ CallVerify(w)
    \/ \E s \in Requested : CallAdmission(w, s)
    \/ \E written \in BOOLEAN : IssueVerify(w, written)
    \/ \E d \in {"allow", "deny"}, written \in BOOLEAN : IssueAdmission(w, d, written)
    \/ CallRaises(w)
    \/ StoreCursor(w)
    \/ AppendReceipt(w)
    \/ RunTool(w)
    \/ CallAdvance(w)
    \/ CallMerge(w)
    \/ ReadParents(w)
    \/ Advance(w)
    \/ \E ps \in SUBSET Id : Merge(w, ps)

Audited == AuditStep /\ UNCHANGED <<runtime, sessionVars, origin>>

Audits == AuditSession \/ AuditOther \/ Audited

AgentNext == (\E w \in Worker : AgentStep(w) /\ UNCHANGED origin) \/ Audits

(* The audit is one process that runs to its end; the crew may stop at any  *)
(* moment.                                                                  *)
AgentSpec == AgentInit /\ [][AgentNext /\ UNCHANGED runtime]_agentVars /\ WF_agentVars(Audited)

-----------------------------------------------------------------------------
(* Properties.                                                             *)

Recorded == {receipts[i] : i \in DOMAIN receipts}

(* However the calls interleave, and although the cursor may go back, a     *)
(* receipt names only receipts issued before it: no schedule of a crew      *)
(* makes a cycle.                                                           *)
ParentsPrecede == \A i \in DOMAIN issued : issued[i].parents \subseteq 1..(i - 1)

(* No receipt is lost between two threads: each one issued is listed once   *)
(* in the session, or its call is still about to list it.                   *)
NoReceiptForgotten ==
    runtime \in {"crew", "tools"} =>
        /\ \A i, j \in DOMAIN receipts : receipts[i] = receipts[j] => i = j
        /\ DOMAIN issued = Recorded \cup
               {mine[w] : w \in {v \in Worker : at[v] \in {"issued", "stored"}}}

(* wrap_tool_admission(): a tool ran only after the policy allowed that very *)
(* call and the session had listed the receipt, and once per receipt.       *)
ExecutedWasAllowed ==
    /\ \A i \in ran : issued[i].decision = "allow" /\ i \in Recorded
    /\ \A v, w \in Worker :
          at[v] = "execute" =>
              /\ issued[mine[v]].decision = "allow"
              /\ mine[v] \in Recorded \ ran
              /\ (at[w] = "execute" /\ mine[w] = mine[v]) => v = w

(* As long as no two calls overlap, a session is a story: steps grow with   *)
(* every receipt and along every parent, a receipt one step after the one   *)
(* before it (no advance() came between) hangs on that one and on no other, *)
(* and the cursor carries the session_id that was asked for last.           *)
CalmSessionIsAStory ==
    (~ overlapped /\ runtime # "tools") =>
        /\ \A i, j \in DOMAIN issued : i < j => issued[i].step < issued[j].step
        /\ \A i \in DOMAIN issued : \A p \in issued[i].parents :
               issued[p].step < issued[i].step
        /\ \A i \in DOMAIN issued :
               (i > 1 /\ issued[i].step = issued[i - 1].step + 1) => issued[i].parents = {i - 1}
        /\ (\A w \in Worker : at[w] = "idle") => cursor.session = asked

(* The audit of everything that was issued along one trajectory succeeds,   *)
(* whatever the threads or branches did; it fails on receipts without one   *)
(* or of more than one.                                                     *)
SessionArchivePasses ==
    audit = "done" =>
        /\ origin = "whole session" => passed
        /\ origin = "several" => ~ passed
=============================================================================
