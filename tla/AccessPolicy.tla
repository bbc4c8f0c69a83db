---------------------------- MODULE AccessPolicy ----------------------------
(***************************************************************************)
(* The policy files of provenex: how a file is loaded and validated        *)
(* (policy/unified.py, policy/yaml_evaluator.py and its twin               *)
(* tool_call/yaml_evaluator.py) and how an evaluator decides about one     *)
(* chunk or one tool call.  The two evaluators run the same loop over the  *)
(* same rule language and differ in the path roots a rule may name.        *)
(*                                                                         *)
(* A file is what yaml.safe_load returned.  Text, error messages and       *)
(* hashes are left out; a value of the wrong type is Malformed.  `when`    *)
(* and `require` are sequences because a dict keeps the order of the file; *)
(* a rule is named by its position in the list.                            *)
(***************************************************************************)
EXTENDS Integers, Sequences

CONSTANTS
    File,           \* the parsed files that are tried
    Rule,           \* the rules they hold
    Context,        \* what each path of one evaluation resolves to
    Path,           \* dotted paths
    RootOf,         \* the first segment of a path; "bare" if there is no dot
    NowPath,        \* request.timestamp
    Value,          \* attribute values, Python's None included
    Text,           \* the values that are strings
    Size,           \* len() of a string
    Epoch,          \* the strings that are timestamps, in seconds
    Glob,           \* the strings a pattern matches
    MaxPatternLen,  \* _MAX_PATTERN_INPUT_LEN
    Missing,        \* _MISSING
    Malformed,      \* a value of the wrong type in the file
    Null,           \* a key without a value
    Absent,         \* a key that is not in the file
    LoadError,      \* PolicyParseError or UnsupportedPolicyFeature
    NoEvaluator     \* None: no rules for this domain

Domain == {"chunk", "tool"}

(* Where rules may stand: at the top level (the legacy layout), under      *)
(* access_control or under tool_call_control.                              *)
Layer == {"top"} \cup Domain

ASSUME PolicyAssumption ==
    /\ Missing \notin Value
    /\ RootOf \in [Path -> Domain \cup {"request", "bare"}]
    /\ Context \subseteq [Path -> Value \cup {Missing}]
    /\ \A f \in File, l \in Layer :
          f[l] \in {Absent, Null, Malformed} \/ f[l].rules \in Seq(Rule) \cup {Malformed, Absent}
    /\ \A f \in File : f.top \notin {Null, Malformed}
    /\ {Malformed, Absent} \cap Seq(Rule) = {}
    /\ NoEvaluator \notin [rules : Seq(Rule), unknown : {"allow", "deny"}] \cup {LoadError}

VARIABLES
    file,           \* the file at hand
    validated,      \* `provenex policy validate` accepts it
    policy,         \* the evaluators loaded from it
    domain,         \* what is being decided about
    context,        \* the attributes of that chunk or call, and the request
    at,             \* the rule of evaluate()'s loop
    fired,          \* rules_fired
    verdict         \* the decision, "raised" for an exception

vars == <<file, validated, policy, domain, context, at, fired, verdict>>

-----------------------------------------------------------------------------
(* The rule language.                                                      *)

(* A scalar operand is the operator "equals"; the order is that of the     *)
(* if-chain of _check_constraint().                                        *)
Operators == <<"equals", "in", "not_in", "not_older_than", "matches_pattern",
               "not_matches_pattern", "length_at_most">>
KnownOperator == {Operators[i] : i \in DOMAIN Operators}
Rank(op)      == CHOOSE i \in DOMAIN Operators : Operators[i] = op

(* The chain returns at the first operator it finds: of several operators  *)
(* under one path the later ones are never looked at.                      *)
Consulted(test) ==
    CHOOSE op \in DOMAIN test : \A o \in DOMAIN test : Rank(op) <= Rank(o)

InTime(v, age, now) ==
    /\ {v, now} \subseteq DOMAIN Epoch
    /\ Epoch[now] - Epoch[v] <= age

Short(v, cap) == v \in Text /\ Size[v] <= cap

Holds(op, operand, actual, now) ==
    CASE op = "equals"              -> actual = operand
      [] op = "in"                  -> actual \in operand
      [] op = "not_in"              -> actual \notin operand
      [] op = "not_older_than"      -> InTime(actual, operand, now)
      [] op = "matches_pattern"     -> Short(actual, MaxPatternLen) /\ actual \in Glob[operand]
      [] op = "not_matches_pattern" -> Short(actual, MaxPatternLen) /\ actual \notin Glob[operand]
      [] op = "length_at_most"      -> Short(actual, operand)

(* An empty mapping is a test without operators, which nothing satisfies.  *)
Satisfied(test, actual, now, unknown) ==
    IF actual = Missing THEN unknown = "allow"
    ELSE /\ DOMAIN test # {}
         /\ Holds(Consulted(test), test[Consulted(test)], actual, now)

(* The evaluator of one domain has no object for the root of the other.    *)
Resolve(path, d, c) ==
    IF RootOf[path] \in {d, "request"} THEN c[path] ELSE Missing

-----------------------------------------------------------------------------
(* Loading.                                                                *)

ValidPath(path, d) == RootOf[path] \in {d, "request", "bare"}

ValidWhen(e, d) ==
    /\ ValidPath(e.path, d)
    /\ \/ DOMAIN e.test = {"equals"}
       \/ DOMAIN e.test \subseteq {"in"} /\ \A o \in DOMAIN e.test : e.test[o] # Malformed

ValidRequire(e, d) ==
    /\ ValidPath(e.path, d)
    /\ DOMAIN e.test \subseteq KnownOperator
    /\ \A o \in DOMAIN e.test : e.test[o] # Malformed

ValidRule(r, d) ==
    /\ r.named /\ ~r.extraKeys /\ r.on_violation = "deny"
    /\ r.when # Malformed /\ r.require # Malformed
    /\ \A i \in DOMAIN r.when    : ValidWhen(r.when[i], d)
    /\ \A i \in DOMAIN r.require : ValidRequire(r.require[i], d)

(* The constructor: version, policy_id, the rules and the default for      *)
(* paths that do not resolve.  Keys it does not know inside a section are  *)
(* not looked at.                                                          *)
Build(rules, section, hasId, version, d) ==
    IF /\ version = 1 /\ hasId
       /\ rules \notin {Absent, Malformed}
       /\ \A i \in DOMAIN rules : ValidRule(rules[i], d)
       /\ section.unknown_metadata \in {"allow", "deny", Absent}
    THEN [rules |-> rules,
          unknown |-> IF section.unknown_metadata = "allow" THEN "allow" ELSE "deny"]
    ELSE LoadError

(* _construct_from_bundle() on a file with a section of its own: no `rules` *)
(* key means no rules, and version 1 is the default.                        *)
FromSection(f, d) ==
    IF f[d] \in {Null, Malformed} THEN LoadError
    ELSE Build(IF f[d].rules = Absent THEN <<>> ELSE f[d].rules, f[d],
               f.hasId \/ f[d].hasId, IF f.version = Absent THEN 1 ELSE f.version, d)

(* from_text() / from_path() of one evaluator.  `section: null` is a key   *)
(* that is present and no mapping.                                         *)
FromText(f, d) ==
    IF f[d] # Absent THEN FromSection(f, d)
    ELSE IF f.top = Absent THEN LoadError
    ELSE Build(f.top.rules, f.top, f.hasId, f.version, d)

(* Policy._from_bundle(): here `section: null` means that there is none.   *)
Half(f, d) ==
    IF f[d] \in {Absent, Null} THEN NoEvaluator ELSE FromSection(f, d)

FromBundle(f) ==
    IF \/ f.extraKeys \/ f.top # Absent
       \/ f.version \notin {1, Absent}
       \/ f.verification = Malformed
       \/ \E d \in Domain : Half(f, d) = LoadError
    THEN LoadError
    ELSE [d \in Domain |-> Half(f, d)]

(* validate_policy_file(): the unified layout, and when that fails the     *)
(* chunk evaluator on its own.                                             *)
Validate(f) == FromBundle(f) # LoadError \/ FromText(f, "chunk") # LoadError

-----------------------------------------------------------------------------
Init ==
    /\ file \in File
    /\ validated = FALSE
    /\ policy = LoadError
    /\ domain = "chunk"
    /\ context \in Context
    /\ at = 1 /\ fired = <<>> /\ verdict = "idle"

(* Policy.from_yaml() after `provenex policy validate`.                    *)
LoadPolicy ==
    /\ verdict = "idle"
    /\ validated' = Validate(file)
    /\ policy' = FromBundle(file)
    /\ verdict' = IF policy' = LoadError THEN "not loaded" ELSE "loaded"
    /\ UNCHANGED <<file, domain, context, at, fired>>

(* One evaluator straight from the file, as callers of a legacy file do.   *)
LoadEvaluator(d) ==
    /\ verdict = "idle"
    /\ LET ev == FromText(file, d) IN
         /\ policy' = IF ev = LoadError THEN LoadError ELSE [x \in {d} |-> ev]
         /\ verdict' = IF ev = LoadError THEN "not loaded" ELSE "loaded"
    /\ validated' = Validate(file)
    /\ UNCHANGED <<file, domain, context, at, fired>>

(* Variant: the evaluator is used without asking whether there is one.      *)
EvaluateUnguarded(d) ==
    /\ verdict = "loaded" /\ d \in DOMAIN policy
    /\ domain' = d
    /\ verdict' = "scanning"
    /\ UNCHANGED <<file, validated, policy, context, at, fired>>

(* evaluate() begins; without an evaluator everything is allowed.          *)
Evaluate(d) ==
    /\ verdict = "loaded" /\ d \in DOMAIN policy
    /\ domain' = d
    /\ verdict' = IF policy[d] = NoEvaluator THEN "allow" ELSE "scanning"
    /\ UNCHANGED <<file, validated, policy, context, at, fired>>

Rules == policy[domain].rules

(* One entry of `when`: a path that is missing does not match.             *)
Matches(e) ==
    LET v == Resolve(e.path, domain, context)
    IN  v # Missing /\ Satisfied(e.test, v, context[NowPath], "deny")

Meets(e) == Satisfied(e.test, Resolve(e.path, domain, context), context[NowPath],
                      policy[domain].unknown)

(* _resolve_path() raises on a root it does not know.                      *)
Bare(e) == RootOf[e.path] = "bare"

(* The loop over a dict of entries stops at the first that fails or raises. *)
AllPass(es, Test(_)) == \A i \in DOMAIN es : ~Bare(es[i]) /\ Test(es[i])

StopsAt(es, i, Test(_)) ==
    /\ Bare(es[i]) \/ ~Test(es[i])
    /\ \A j \in DOMAIN es : j < i => ~Bare(es[j]) /\ Test(es[j])

Fails(es, Test(_))  == \E i \in DOMAIN es : StopsAt(es, i, Test) /\ ~Bare(es[i])
Raises(es, Test(_)) == \E i \in DOMAIN es : StopsAt(es, i, Test) /\ Bare(es[i])

Scanning == verdict = "scanning" /\ at \in DOMAIN Rules

(* Variant: rules_fired is extended before `when` has been looked at.       *)
SkipRuleFiring ==
    /\ Scanning
    /\ Fails(Rules[at].when, Matches)
    /\ fired' = Append(fired, at)
    /\ at' = at + 1
    /\ UNCHANGED <<file, validated, policy, domain, context, verdict>>

SkipRule ==
    /\ Scanning
    /\ Fails(Rules[at].when, Matches)
    /\ at' = at + 1
    /\ UNCHANGED <<file, validated, policy, domain, context, fired, verdict>>

(* Variant: the loop ends at the first rule that passes.                    *)
PassRuleAndStop ==
    /\ Scanning
    /\ AllPass(Rules[at].when, Matches)
    /\ AllPass(Rules[at].require, Meets)
    /\ fired' = Append(fired, at)
    /\ at' = Len(Rules) + 1
    /\ UNCHANGED <<file, validated, policy, domain, context, verdict>>

PassRule ==
    /\ Scanning
    /\ AllPass(Rules[at].when, Matches)
    /\ AllPass(Rules[at].require, Meets)
    /\ fired' = Append(fired, at)
    /\ at' = at + 1
    /\ UNCHANGED <<file, validated, policy, domain, context, verdict>>

DenyByRule ==
    /\ Scanning
    /\ AllPass(Rules[at].when, Matches)
    /\ Fails(Rules[at].require, Meets)
    /\ fired' = Append(fired, at)
    /\ verdict' = "deny"
    /\ UNCHANGED <<file, validated, policy, domain, context, at>>

RaiseInRule ==
    /\ Scanning
    /\ \/ Raises(Rules[at].when, Matches)
       \/ AllPass(Rules[at].when, Matches) /\ Raises(Rules[at].require, Meets)
    /\ verdict' = "raised"
    /\ UNCHANGED <<file, validated, policy, domain, context, at, fired>>

AllowAtEnd ==
    /\ verdict = "scanning" /\ at \notin DOMAIN Rules
    /\ verdict' = "allow"
    /\ UNCHANGED <<file, validated, policy, domain, context, at, fired>>

Next ==
    \/ LoadPolicy
    \/ \E d \in Domain : LoadEvaluator(d) \/ Evaluate(d)
    \/ SkipRule \/ PassRule \/ DenyByRule \/ RaiseInRule \/ AllowAtEnd

Spec == Init /\ [][Next]_vars

-----------------------------------------------------------------------------
(* Type correctness; `at` runs over the rules and stops one past the last. *)
PolicyTypeOK ==
    /\ file \in File /\ context \in Context /\ domain \in Domain
    /\ validated \in BOOLEAN
    /\ at \in Nat \ {0} /\ fired \in Seq(Nat)
    /\ verdict \in {"idle", "not loaded", "loaded", "scanning", "allow", "deny", "raised"}
    /\ verdict \in {"loaded", "scanning", "allow", "deny", "raised"} =>
          /\ DOMAIN policy \subseteq Domain
          /\ domain \in DOMAIN policy \/ verdict = "loaded"
          /\ \A d \in DOMAIN policy : policy[d] = NoEvaluator \/ policy[d].rules \in Seq(Rule)
    /\ verdict = "scanning" => policy[domain] # NoEvaluator /\ at \in 1..Len(Rules) + 1

(* What the file says, independent of how it was loaded.                   *)
Section     == IF file[domain] # Absent THEN file[domain] ELSE file.top
Written     == IF Section \in {Absent, Null} \/ Section.rules = Absent THEN <<>> ELSE Section.rules
WhenMissing == IF Section.unknown_metadata = "allow" THEN "allow" ELSE "deny"

Applies(r) == \A i \in DOMAIN r.when : Matches(r.when[i])
Objects(r) == \E i \in DOMAIN r.require :
                 ~Satisfied(r.require[i].test, Resolve(r.require[i].path, domain, context),
                            context[NowPath], WhenMissing)

(* The decision is the one the file demands, however it was loaded: deny   *)
(* exactly when some rule that applies has a requirement that does not     *)
(* hold.  The order of the rules, the layout of the file and the early     *)
(* exits of the loop do not matter, and no rule of the file gets lost      *)
(* between _from_bundle() and evaluate().                                  *)
FileIsEnforced ==
    verdict \in {"allow", "deny"} =>
        (verdict = "deny" <=> \E i \in DOMAIN Written : Applies(Written[i]) /\ Objects(Written[i]))

(* rules_fired is the trace an auditor replays: in file order, exactly the *)
(* rules that applied among those looked at, and only the last of them may *)
(* have objected, which it did when the decision is deny.                  *)
FiredIsTrace ==
    verdict \in {"scanning", "allow", "deny"} /\ policy[domain] # NoEvaluator =>
        /\ {fired[k] : k \in DOMAIN fired} =
              {i \in DOMAIN Rules : (i < at \/ (i = at /\ verdict = "deny")) /\ Applies(Rules[i])}
        /\ \A k, m \in DOMAIN fired : k < m => fired[k] < fired[m]
        /\ \A k \in DOMAIN fired :
              Objects(Rules[fired[k]]) <=> k = Len(fired) /\ verdict = "deny"

=============================================================================
