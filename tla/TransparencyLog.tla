--------------------------- MODULE TransparencyLog ---------------------------
(***************************************************************************)
(* What a transparency log promises an auditor, without files, commits and *)
(* crashes: "an append-only Merkle log over those exact rows"              *)
(* (provenex/index/merkle_sqlite_index.py).  Leaves are committed one by   *)
(* one and never twice.  From time to time the whole log is published, as  *)
(* the tree whose root is handed out; so every root stands for a log that  *)
(* all later roots extend.                                                 *)
(***************************************************************************)
EXTENDS Sequences

CONSTANT Leaf

VARIABLES log,          \* the committed leaves
          published     \* those of the tree that roots are handed out for

logVars == <<log, published>>

Init == log = <<>> /\ published = <<>>

Commit(r) ==
    /\ \A i \in DOMAIN log : log[i] # r
    /\ log' = Append(log, r)
    /\ UNCHANGED published

Publish ==
    /\ published' = log
    /\ UNCHANGED log

Next == Publish \/ \E r \in Leaf : Commit(r)

Spec == Init /\ [][Next]_logVars
=============================================================================
