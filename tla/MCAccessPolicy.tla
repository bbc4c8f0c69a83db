--------------------------- MODULE MCAccessPolicy ---------------------------
(* Files of at most two rules in every layout, and requests whose attributes *)
(* are present, None, missing, malformed or oversized.                       *)
EXTENDS AccessPolicy, TLC

CONSTANTS residency, jurisdiction, query, now, bare, eu, us, day1, day9, long, none, glob

MCPath == {residency, jurisdiction, query, now, bare}
MCRoot == residency :> "chunk" @@ jurisdiction :> "request" @@ query :> "tool"
          @@ now :> "request" @@ bare :> "bare"
MCText  == {eu, us, day1, day9, long}
MCValue == MCText \cup {none}
MCSize  == [v \in MCText |-> IF v = long THEN 9 ELSE 2]
MCEpoch == day1 :> 1 @@ day9 :> 9
MCGlob  == glob :> {eu, long}

MCContext ==
    {residency :> r @@ jurisdiction :> j @@ query :> q @@ now :> n @@ bare :> Missing :
        r \in MCValue \cup {Missing}, j \in {eu, none}, q \in {eu, Missing}, n \in {day9, us}}

E(p, op, v) == [path |-> p, test |-> (op :> v)]
Blank == [named |-> TRUE, extraKeys |-> FALSE, on_violation |-> "deny", when |-> <<>>, require |-> <<>>]

Good ==
    { [Blank EXCEPT !.when = <<E(jurisdiction, "equals", eu)>>,
                    !.require = <<E(residency, "in", {eu, us})>>],
      [Blank EXCEPT !.when = <<E(residency, "in", {us, none, day1, long})>>,
                    !.require = <<E(jurisdiction, "not_in", {none}), E(residency, "not_older_than", 8)>>],
      [Blank EXCEPT !.require = <<[path |-> residency, test |->
                                   "matches_pattern" :> glob @@ "length_at_most" :> 1]>>] }
ToolRules ==
    { [Blank EXCEPT !.when = <<E(jurisdiction, "equals", eu)>>,
                    !.require = <<E(query, "length_at_most", 2)>>],
      [Blank EXCEPT !.require = <<E(query, "not_matches_pattern", glob)>>] }
Odd ==
    { [Blank EXCEPT !.when = <<[path |-> residency, test |-> <<>>]>>],
      [Blank EXCEPT !.require = <<E(bare, "equals", eu)>>],
      [Blank EXCEPT !.when = <<E(bare, "equals", eu)>>],
      [Blank EXCEPT !.when = <<E(residency, "not_in", {eu})>>],
      [Blank EXCEPT !.require = <<E(residency, "not_older_than", Malformed)>>],
      [Blank EXCEPT !.on_violation = "warn"] }
MCRule == Good \cup ToolRules \cup Odd

Lists(S)    == {<<>>} \cup {<<r>> : r \in S} \cup {<<r, s>> : r, s \in S}
Sec(rs, u)  == [rules |-> rs, unknown_metadata |-> u, hasId |-> TRUE]
Bodies(S)   == {Sec(rs, u) : rs \in Lists(S), u \in {"allow", Absent}}
ChunkBodies == Bodies(Good) \cup {Sec(<<r>>, "deny") : r \in Odd \cup ToolRules}
               \cup {Sec(Malformed, Absent), Sec(Absent, "maybe"), Null, Malformed}
ToolBodies  == {Sec(<<r, s>>, Absent) : r, s \in ToolRules} \cup {Null, Malformed, Absent}

Envelope == [extraKeys |-> FALSE, version |-> 1, hasId |-> TRUE, verification |-> Absent]
Layout(e, t, c, x) ==
    [l \in {"top", "chunk", "tool"} |-> IF l = "top" THEN t ELSE IF l = "chunk" THEN c ELSE x] @@ e

MCFile ==
    {Layout(Envelope, Absent, c, x) : c \in ChunkBodies, x \in {Absent, Malformed}}
    \cup {Layout(Envelope, Absent, Absent, x) : x \in ToolBodies}
    \cup {Layout(Envelope, Absent, c, x) : c \in {Sec(<<r>>, Absent) : r \in Good}, x \in ToolBodies}
    \cup {Layout(Envelope, t, Absent, Absent) : t \in ChunkBodies \ {Null, Malformed}}
    \cup {Layout([Envelope EXCEPT ![k] = v], Absent, Sec(<<CHOOSE r \in Good : TRUE>>, Absent), Absent) :
             k \in {"verification"}, v \in {Malformed, Null}}
    \cup {Layout([Envelope EXCEPT !.version = v], Absent, Sec(<<>>, Absent), Absent) : v \in {2, Absent}}
    \cup {Layout([Envelope EXCEPT !.extraKeys = TRUE], Absent, Sec(<<>>, Absent), Absent)}
    \cup {Layout([Envelope EXCEPT !.hasId = FALSE], Sec(<<>>, Absent), Absent, Absent)}

=============================================================================
