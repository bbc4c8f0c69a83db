-------------------------- MODULE MCAgentRuntimes --------------------------
(* Small instance of AgentRuntimes: two threads, three receipts; and every   *)
(* archive of three files over three receipt ids, with a copy of one of      *)
(* them or not, plus smaller ones under every argument of the command.       *)
EXTENDS AgentRuntimes

Valid(id, ps) ==
    [id |-> id, tid |-> SessionTrajectory, parents |-> ps,
     alg |-> "hmac-sha256", intact |-> TRUE, proofs |-> {}, log |-> FALSE]

WithSecret == [key |-> "none", secret |-> TRUE, unsigned |-> FALSE]

(* The shapes of a trajectory: a missing file leaves its id dangling. *)
Shapes ==
    {[files |-> <<Valid(a, p), Valid(b, q), Valid(c, r)>>, args |-> WithSecret] :
        a \in {1}, b \in {1, 2}, c \in {2, 3},
        p \in SUBSET (1..3), q \in SUBSET (1..3), r \in SUBSET (1..3)}

(* The checks of a receipt by itself, alone or after another. *)
Singles ==
    {[files |-> before \o <<f>>, args |-> as] :
        before \in {<<>>, <<Valid(1, {})>>},
        f \in [id : {2}, tid : Trajectory \cup {NoTrajectory}, parents : {{1}},
               alg : {"none", "hmac-sha256", "ed25519"}, intact : BOOLEAN,
               proofs : {{}, {"none"}, {"valid"}, {"none", "invalid"}}, log : BOOLEAN],
        as \in Arguments}

MCOtherArchive == Shapes \cup Singles

(* One call denied at most, and one receipt lost by the sink, none when     *)
(* calls overlapped.                                                        *)
AgentBound ==
    /\ Len(published) >= Len(issued) - (IF overlapped THEN 0 ELSE 1)
    /\ Cardinality({i \in DOMAIN issued : issued[i].decision = "deny"}) <= 1
=============================================================================
