--------------------------- MODULE AgentRuntimes ---------------------------
(***************************************************************************)
(* The other runtimes that issue receipts along a trajectory.              *)
(*                                                                         *)
(* A LangGraph graph (provenex/integrations/langgraph/node.py) keeps the   *)
(* cursor and the receipts in its state.  The nodes of one superstep read  *)
(* the same state; LangGraph merges what they return, key by key, when all *)
(* of them have returned: a key is replaced, or added to by a reducer.     *)
(*                                                                         *)
(* ProvenexToolWrapper and the decorator for MCP handlers                  *)
(* (provenex/tool_call/integrations/) admit every call of a tool or of a   *)
(* server.  They use the trajectory they are given, if any, and drop       *)
(* next_trajectory: no cursor moves.                                       *)
(***************************************************************************)
EXTENDS AgentSession, SequencesExt

NoContext == [StartTrajectory EXCEPT !.tid = NoTrajectory]

(* A graph that was not given start_trajectory_state() has no cursor yet.   *)
RuntimeInit ==
    /\ runtime \in {"crew", "graph", "graph with reducer", "tools"}
    /\ cursor \in IF runtime = "crew" THEN {StartTrajectory} ELSE {StartTrajectory, NoContext}
    /\ SessionStart
    /\ origin = "none"
    /\ AuditIdle

-----------------------------------------------------------------------------
(* The graph.                                                              *)

(* The nodes bs of a superstep are handed the state; without a cursor each  *)
(* of them starts a trajectory of its own.                                  *)
BeginSuperstep(bs) ==
    /\ runtime \in {"graph", "graph with reducer"} /\ audit = "idle"
    /\ \A w \in Worker : at[w] = "idle"
    /\ bs # {}
    /\ Len(issued) + Cardinality(bs) <= MaxReceipts
    /\ at' = [w \in Worker |-> IF w \in bs THEN "node" ELSE "idle"]
    /\ \E fresh \in [Worker -> Trajectory] :
          /\ \A v, w \in bs : fresh[v] = fresh[w] => v = w
          /\ context' = [w \in Worker |->
                 IF w \notin bs THEN StartTrajectory
                 ELSE IF cursor # NoContext THEN cursor
                 ELSE [StartTrajectory EXCEPT !.tid = fresh[w]]]
    /\ overlapped' = (overlapped \/ Cardinality(bs) > 1)
    /\ UNCHANGED <<cursor, receipts, issued, published, request, mine, ran, asked>>

(* A node finalizes and publishes one receipt. *)
NodeIssues(w, record, s, written) ==
    /\ at[w] = "node"
    /\ issued' = Append(issued, record)
    /\ published' = IF written THEN Append(published, Len(issued) + 1) ELSE published
    /\ mine' = [mine EXCEPT ![w] = Len(issued) + 1]
    /\ request' = [request EXCEPT ![w] = s]
    /\ asked' = Override(s, asked)
    /\ at' = [at EXCEPT ![w] = "issued"]
    /\ UNCHANGED <<cursor, receipts, context, ran, overlapped>>

(* provenex_retrieval_node(): the block on the receipt is rebuilt without   *)
(* the session_id, which the cursor keeps.                                  *)
RetrievalNode(w, written) ==
    NodeIssues(w, [EmitTrajectory(context[w], NoSession, "none") EXCEPT !.session = NoSession],
               NoSession, written)

(* A node of the application that issues a receipt under the cursor, if any, *)
(* and returns record_step_receipt(): that one starts a trajectory only for *)
(* the cursor.                                                              *)
CustomNode(w, written) ==
    NodeIssues(w, [EmitTrajectory(context[w], NoSession, "none") EXCEPT !.tid = cursor.tid],
               NoSession, written)

(* provenex_admission_node(): it decides, a later node executes. *)
AdmissionNode(w, s, d, written) ==
    NodeIssues(w, EmitTrajectory(context[w], s, d), s, written)

Returned == {mine[w] : w \in {v \in Worker : at[v] = "issued"}}

SuperstepEnds ==
    /\ at' = [w \in Worker |-> "idle"]
    /\ context' = [w \in Worker |-> StartTrajectory]
    /\ request' = [w \in Worker |-> NoSession]
    /\ mine' = [w \in Worker |-> 0]
    /\ UNCHANGED <<issued, published, ran, overlapped, asked>>

(* Each node returns the receipts it was given and its own.  LangGraph      *)
(* applies the branches in some order: the last cursor stays (the key of a  *)
(* graph with branches has a reducer that says so), and so does the last    *)
(* list, unless operator.add concatenates the lists.                        *)
JoinLosingCursor(last) ==
    /\ at[last] = "issued"
    /\ \A w \in Worker : at[w] \in {"idle", "issued"}
    /\ cursor' = NextStep(context[last], {mine[last]}, NoSession)
    /\ receipts' = IF runtime = "graph" THEN <<mine[last]>> ELSE receipts
    /\ SuperstepEnds

Join(last) ==
    /\ runtime \in {"graph", "graph with reducer"}
    /\ at[last] = "issued"
    /\ \A w \in Worker : at[w] \in {"idle", "issued"}
    /\ cursor' = NextStep(context[last], {mine[last]}, request[last])
    /\ IF runtime = "graph"
       THEN receipts' = Append(receipts, mine[last])
       ELSE \E own \in [1..Cardinality(Returned) -> Returned] :
               /\ IsInjective(own) /\ own[Cardinality(Returned)] = mine[last]
               /\ receipts' = receipts \o
                     FlattenSeq([i \in 1..Cardinality(Returned) |-> Append(receipts, own[i])])
    /\ SuperstepEnds

(* A node raises, or LangGraph refuses two values for a key that has no     *)
(* reducer: the superstep fails and the state stays, although branches have *)
(* published their receipts.                                                *)
FailSuperstep ==
    /\ \/ \E w \in Worker : at[w] = "node"
       \/ runtime = "graph" /\ Cardinality(Returned) > 1
    /\ SuperstepEnds
    /\ UNCHANGED <<cursor, receipts>>

GraphStep ==
    \/ \E bs \in SUBSET Worker : BeginSuperstep(bs)
    \/ \E w \in Worker, written \in BOOLEAN :
          \/ RetrievalNode(w, written)
          \/ CustomNode(w, written)
          \/ \E s \in Requested, d \in {"allow", "deny"} : AdmissionNode(w, s, d, written)
    \/ \E w \in Worker : Join(w)
    \/ FailSuperstep

-----------------------------------------------------------------------------
(* The wrapped tools.                                                      *)

(* ProvenexToolWrapper.invoke() or the wrapped MCP handler, with the        *)
(* trajectory of its caller or none.                                        *)
CallWrapped(w, s) ==
    /\ runtime = "tools" /\ audit = "idle"
    /\ at[w] = "idle"
    /\ MayIssue
    /\ at' = [at EXCEPT ![w] = "admission"]
    /\ context' = [context EXCEPT ![w] = cursor]
    /\ request' = [request EXCEPT ![w] = s]
    /\ overlapped' = (overlapped \/ \E v \in Worker : at[v] # "idle")
    /\ UNCHANGED <<cursor, receipts, issued, published, mine, ran, asked>>

(* The receipt joins the list of the wrapper; then the tool or the handler  *)
(* runs (RunTool), or ToolCallDenied is raised.                             *)
RecordWrapped(w) ==
    /\ runtime = "tools"
    /\ at[w] = "issued"
    /\ receipts' = Append(receipts, mine[w])
    /\ IF issued[mine[w]].decision = "allow" THEN Become(w, "execute") ELSE Return(w)
    /\ UNCHANGED <<cursor, issued, published, ran, overlapped, asked>>

ToolStep == \E w \in Worker : (\E s \in Requested : CallWrapped(w, s)) \/ RecordWrapped(w)

RuntimeNext ==
    /\ UNCHANGED runtime
    /\ \/ AgentNext
       \/ (GraphStep \/ ToolStep) /\ UNCHANGED <<origin, auditVars>>

RuntimeSpec == RuntimeInit /\ [][RuntimeNext]_agentVars /\ WF_agentVars(Audited)

-----------------------------------------------------------------------------
(* Properties.                                                             *)

(* In a graph without parallel branches and without a reducer the state is  *)
(* the record: it lists the receipts in the order of issue, and the cursor  *)
(* continues from the last one, one step on, in its trajectory if it has one.*)
LinearGraphStateIsTheRecord ==
    (/\ runtime = "graph" /\ ~ overlapped /\ audit = "idle"
     /\ \A w \in Worker : at[w] = "idle") =>
        /\ receipts = [i \in DOMAIN issued |-> i]
        /\ issued # <<>> =>
              LET last == issued[Len(issued)]
              IN  /\ cursor.parents = {Len(issued)}
                  /\ cursor.step = last.step + 1
                  /\ last.tid \in {cursor.tid, NoTrajectory}

(* Whichever runtime issues the receipts, they form a DAG that only grows,   *)
(* however many threads read the cursor before one of them stores it; and a  *)
(* tool runs once per receipt, after the policy allowed that very call and   *)
(* the receipt was listed.                                                   *)
Run == INSTANCE AgentRun WITH
    Decision <- {"none", "allow", "deny"},
    Allowed  <- "allow",
    graph    <- [i \in DOMAIN issued |->
                   [parents |-> issued[i].parents, decision |-> issued[i].decision]],
    listed   <- Recorded,
    executed <- ran

RunSpec == Run!Spec
=============================================================================
