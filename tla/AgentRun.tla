------------------------------- MODULE AgentRun -------------------------------
(***************************************************************************)
(* What an agent run promises whoever reads its receipts, without threads, *)
(* cursors, graphs and sinks: the receipts form a DAG that "round-trips"   *)
(* branching flows (provenex/core/trajectory.py) and grows by one receipt  *)
(* at a time.  A receipt names parents that were there before it and never *)
(* changes; it may be listed; and a tool runs once, under a receipt that   *)
(* is listed and allows it.  An archived run is followed by a new one.     *)
(***************************************************************************)
EXTENDS Sequences

CONSTANTS Decision, Allowed

VARIABLES graph,        \* the receipts by number: their parents and decisions
          listed,       \* the numbers the runtime lists
          executed      \* the numbers whose tool has run

runVars == <<graph, listed, executed>>

Init == graph = <<>> /\ listed = {} /\ executed = {}

Issue(ps, d) ==
    /\ ps \subseteq DOMAIN graph
    /\ graph' = Append(graph, [parents |-> ps, decision |-> d])
    /\ UNCHANGED <<listed, executed>>

List(ns) ==
    /\ ns \subseteq DOMAIN graph
    /\ listed' = listed \cup ns
    /\ UNCHANGED <<graph, executed>>

Execute(n) ==
    /\ n \in listed \ executed
    /\ graph[n].decision = Allowed
    /\ executed' = executed \cup {n}
    /\ UNCHANGED <<graph, listed>>

Archive == graph' = <<>> /\ listed' = {} /\ executed' = {}

Next ==
    \/ \E ps \in SUBSET DOMAIN graph, d \in Decision : Issue(ps, d)
    \/ \E ns \in SUBSET DOMAIN graph : List(ns)
    \/ \E n \in listed : Execute(n)
    \/ Archive

Spec == Init /\ [][Next]_runVars
=============================================================================
