------------------------------ MODULE LoopProofs ------------------------------
(***************************************************************************)
(* Proofs about the two components that are one loop over a sequence: the  *)
(* policy evaluator, over the rules of a file, and the fingerprinter, over *)
(* the characters of a text.                                               *)
(*                                                                         *)
(* Policy files, for every file, every rule language the constants         *)
(* describe and every chunk or call.  The invariant has two parts: an      *)
(* evaluator that was loaded holds the rules and the default its file      *)
(* states for the domain (`Loaded`), and among the rules the loop has left *)
(* behind none both applied and objected (`Scanned`), which makes every    *)
(* early exit right.                                                       *)
(*                                                                         *)
(* Fingerprints, for every base, modulus, window size, stride and text.    *)
(* The recursive functions (a pass over a text, a hash, a power) are first *)
(* shown to have the value their equation gives; what is true of the empty *)
(* text and, with a text, of the text with one more character, is then     *)
(* true of all.  A hash is a sum in which the first character counts with  *)
(* the power of its place (`Place`), so that taking it out and moving the  *)
(* rest up is hashing the next window (`RollIsHash`).  A pass writes texts *)
(* it would leave alone (`Even`) and the passes after it do not undo that; *)
(* composing and stripping commute unless a letter is split from its mark  *)
(* (`StripAndCompose`).                                                    *)
(***************************************************************************)
EXTENDS AccessPolicy, Fingerprinting, SequenceTheorems, WellFoundedInduction, TLAPS

-----------------------------------------------------------------------------
(* Policy files.                                                           *)

(* What the file says about domain d. *)
SectionOf(d) == IF file[d] # Absent THEN file[d] ELSE file.top
RulesOf(d)   == IF SectionOf(d) \in {Absent, Null} \/ SectionOf(d).rules = Absent
                THEN <<>> ELSE SectionOf(d).rules
DefaultOf(d) == IF SectionOf(d).unknown_metadata = "allow" THEN "allow" ELSE "deny"

IsEvaluator(ev, d) ==
    /\ ev = [rules |-> RulesOf(d), unknown |-> DefaultOf(d)]
    /\ RulesOf(d) \in Seq(Rule)
    /\ ev # NoEvaluator

AsWritten(ev, d) == (ev = NoEvaluator /\ RulesOf(d) = <<>>) \/ IsEvaluator(ev, d)

Started == {"scanning", "allow", "deny", "raised"}

Loaded ==
    /\ verdict \in {"loaded"} \cup Started =>
          /\ DOMAIN policy \subseteq Domain
          /\ \A d \in DOMAIN policy : AsWritten(policy[d], d)
    /\ verdict \in Started => domain \in DOMAIN policy
    /\ verdict = "scanning" => policy[domain] # NoEvaluator
    /\ verdict \notin Started => at = 1 /\ fired = <<>>

Scanned ==
    verdict \in Started /\ policy[domain] # NoEvaluator =>
        /\ at \in 1..Len(Rules) + 1
        /\ \A i \in 1..(at - 1) : ~ (Applies(Rules[i]) /\ Objects(Rules[i]))
        /\ verdict = "deny" =>
              at \in DOMAIN Rules /\ Applies(Rules[at]) /\ Objects(Rules[at])
        /\ verdict = "allow" => at = Len(Rules) + 1

Kinds ==
    /\ file \in File /\ context \in Context /\ domain \in Domain
    /\ validated \in BOOLEAN
    /\ at \in Nat \ {0} /\ fired \in Seq(Nat)
    /\ verdict \in {"idle", "not loaded", "loaded"} \cup Started
    /\ verdict = "deny" => policy[domain] # NoEvaluator

PolicyInv == Kinds /\ Loaded /\ Scanned /\ FiredIsTrace

-----------------------------------------------------------------------------
(* Loading.                                                                *)

(* Whatever way a file is loaded, a domain gets the rules and the default   *)
(* that are written for it.                                                 *)
LEMMA BuildIsEvaluator ==
  ASSUME file \in File, NEW d \in Domain, NEW rules \in Seq(Rule) \cup {Malformed, Absent},
         NEW hasId, NEW version, RulesOf(d) = rules \/ rules \in {Malformed, Absent},
         Build(rules, SectionOf(d), hasId, version, d) # LoadError
  PROVE  IsEvaluator(Build(rules, SectionOf(d), hasId, version, d), d)
<1>. DEFINE ev == [rules |-> rules, unknown |-> DefaultOf(d)]
<1>1. Build(rules, SectionOf(d), hasId, version, d) = ev /\ rules \notin {Absent, Malformed}
  BY DEF Build, DefaultOf
<1>2. rules \in Seq(Rule) /\ DefaultOf(d) \in {"allow", "deny"}
  BY <1>1 DEF DefaultOf
<1>3. ev \in [rules : Seq(Rule), unknown : {"allow", "deny"}]
  BY <1>2
<1>. QED  BY <1>1, <1>2, <1>3, PolicyAssumption DEF IsEvaluator

LEMMA SectionIsEvaluator ==
  ASSUME file \in File, NEW d \in Domain, file[d] # Absent, FromSection(file, d) # LoadError
  PROVE  IsEvaluator(FromSection(file, d), d)
<1>. DEFINE rules == IF file[d].rules = Absent THEN <<>> ELSE file[d].rules
            version == IF file.version = Absent THEN 1 ELSE file.version
            hasId == file.hasId \/ file[d].hasId
<1>1. file[d] \notin {Null, Malformed} /\ SectionOf(d) = file[d]
  BY DEF FromSection, SectionOf
<1>2. FromSection(file, d) = Build(rules, SectionOf(d), hasId, version, d)
  BY <1>1 DEF FromSection
<1>3. file[d].rules \in Seq(Rule) \cup {Malformed, Absent}
  BY <1>1, PolicyAssumption DEF Layer
<1>4. rules \in Seq(Rule) \cup {Malformed, Absent}
  BY <1>3
<1>5. RulesOf(d) = rules
  BY <1>1 DEF RulesOf
<1>. HIDE DEF rules, version, hasId
<1>. QED  BY <1>2, <1>4, <1>5, BuildIsEvaluator

LEMMA TextIsEvaluator ==
  ASSUME file \in File, NEW d \in Domain, FromText(file, d) # LoadError
  PROVE  IsEvaluator(FromText(file, d), d)
<1>1. CASE file[d] # Absent
  BY <1>1, SectionIsEvaluator DEF FromText
<1>2. CASE file[d] = Absent
  <2>1. /\ file.top # Absent /\ SectionOf(d) = file.top
        /\ FromText(file, d) = Build(file.top.rules, SectionOf(d), file.hasId, file.version, d)
    BY <1>2 DEF FromText, SectionOf
  <2>2. file.top \notin {Absent, Null, Malformed}
    BY <2>1, PolicyAssumption
  <2>3. file.top.rules \in Seq(Rule) \cup {Malformed, Absent}
    BY <2>2, PolicyAssumption DEF Layer
  <2>4. RulesOf(d) = file.top.rules \/ file.top.rules \in {Malformed, Absent}
    BY <2>1, <2>2 DEF RulesOf
  <2>. QED  BY <2>1, <2>3, <2>4, BuildIsEvaluator
<1>. QED  BY <1>1, <1>2

LEMMA BundleIsAsWritten ==
  ASSUME file \in File, FromBundle(file) # LoadError
  PROVE  /\ DOMAIN FromBundle(file) = Domain
         /\ \A d \in Domain : AsWritten(FromBundle(file)[d], d)
<1>1. /\ FromBundle(file) = [d \in Domain |-> Half(file, d)]
      /\ file.top = Absent
      /\ \A d \in Domain : Half(file, d) # LoadError
  BY DEF FromBundle
<1>2. ASSUME NEW d \in Domain PROVE AsWritten(Half(file, d), d)
  <2>1. CASE file[d] \in {Absent, Null}
    BY <1>1, <2>1 DEF Half, AsWritten, RulesOf, SectionOf
  <2>2. CASE file[d] \notin {Absent, Null}
    BY <1>1, <2>2, SectionIsEvaluator DEF Half, AsWritten
  <2>. QED  BY <2>1, <2>2
<1>. QED  BY <1>1, <1>2

-----------------------------------------------------------------------------
(* The loop.                                                               *)

(* The operators on the rules read nothing that the loop changes. *)
LEMMA LoopFrame ==
  ASSUME UNCHANGED <<file, policy, domain, context>>
  PROVE  /\ Rules' = Rules
         /\ \A d : RulesOf(d)' = RulesOf(d) /\ DefaultOf(d)' = DefaultOf(d)
         /\ \A r : Applies(r)' = Applies(r)
         /\ \A r : Objects(r)' = Objects(r)
BY DEF Rules, RulesOf, DefaultOf, SectionOf, Applies, Matches, Objects, WhenMissing, Section

(* What the three tests of a rule mean. *)
LEMMA RuleTests ==
  ASSUME policy[domain].unknown = WhenMissing, NEW r
  PROVE  /\ AllPass(r.when, Matches) => Applies(r)
         /\ Fails(r.when, Matches) => ~ Applies(r)
         /\ AllPass(r.require, Meets) => ~ Objects(r)
         /\ Fails(r.require, Meets) => Objects(r)
BY DEF AllPass, Fails, StopsAt, Applies, Objects, Meets

LEMMA InitPolicy == Init => PolicyInv
<1>. SUFFICES ASSUME Init PROVE PolicyInv
  OBVIOUS
<1>1. verdict = "idle" /\ at = 1 /\ fired = <<>> /\ file \in File /\ context \in Context
      /\ domain = "chunk" /\ validated = FALSE
  BY DEF Init
<1>2. verdict \notin {"loaded"} \cup Started
  BY <1>1 DEF Started
<1>3. Loaded /\ Scanned /\ FiredIsTrace
  BY <1>1, <1>2 DEF Loaded, Scanned, FiredIsTrace, Started
<1>4. Kinds
  <2>1. fired \in Seq(Nat) /\ at \in Nat \ {0}
    BY <1>1
  <2>. QED  BY <1>1, <2>1 DEF Kinds, Domain
<1>. QED  BY <1>3, <1>4 DEF PolicyInv

LEMMA LoadStep ==
  ASSUME PolicyInv, LoadPolicy \/ \E d \in Domain : LoadEvaluator(d)
  PROVE  PolicyInv'
<1>1. /\ verdict = "idle" /\ verdict' \in {"loaded", "not loaded"} /\ validated' \in BOOLEAN
      /\ UNCHANGED <<file, domain, context, at, fired>>
  <2>1. Validate(file) \in BOOLEAN
    BY DEF Validate
  <2>2. CASE LoadPolicy
    BY <2>1, <2>2 DEF LoadPolicy
  <2>3. ASSUME NEW d \in Domain, LoadEvaluator(d)
        PROVE  /\ verdict = "idle" /\ verdict' \in {"loaded", "not loaded"} /\ validated' \in BOOLEAN
               /\ UNCHANGED <<file, domain, context, at, fired>>
    BY <2>1, <2>3 DEF LoadEvaluator
  <2>. QED  BY <2>2, <2>3
<1>2. file \in File /\ at = 1 /\ fired = <<>>
  BY <1>1 DEF PolicyInv, Kinds, Loaded, Started
<1>3. \A ev, d : AsWritten(ev, d)' = AsWritten(ev, d)
  <2>1. file' = file
    BY <1>1
  <2>. QED  BY <2>1 DEF AsWritten, IsEvaluator, RulesOf, DefaultOf, SectionOf
<1>4. ASSUME verdict' = "loaded"
      PROVE  DOMAIN policy' \subseteq Domain /\ \A d \in DOMAIN policy' : AsWritten(policy'[d], d)
  <2>1. CASE LoadPolicy
    <3>1. policy' = FromBundle(file) /\ FromBundle(file) # LoadError
      BY <1>1, <1>4, <2>1 DEF LoadPolicy
    <3>. QED  BY <1>2, <3>1, BundleIsAsWritten
  <2>2. ASSUME NEW d \in Domain, LoadEvaluator(d)
        PROVE  DOMAIN policy' \subseteq Domain /\ \A e \in DOMAIN policy' : AsWritten(policy'[e], e)
    <3>1. FromText(file, d) # LoadError /\ policy' = [x \in {d} |-> FromText(file, d)]
      BY <1>4, <2>2 DEF LoadEvaluator
    <3>2. IsEvaluator(FromText(file, d), d)
      BY <1>2, <3>1, TextIsEvaluator
    <3>. QED  BY <3>1, <3>2 DEF AsWritten
  <2>. QED  BY <2>1, <2>2
<1>5. Kinds'
  BY <1>1 DEF PolicyInv, Kinds
<1>6. verdict' \notin Started
  BY <1>1 DEF Started
<1>7. Loaded'
  BY <1>1, <1>2, <1>3, <1>4, <1>6 DEF Loaded
<1>8. Scanned' /\ FiredIsTrace'
  BY <1>1, <1>6 DEF Scanned, FiredIsTrace
<1>. QED  BY <1>5, <1>7, <1>8 DEF PolicyInv

LEMMA EvaluateStep ==
  ASSUME PolicyInv, NEW d \in Domain, Evaluate(d)
  PROVE  PolicyInv'
<1>1. /\ verdict = "loaded" /\ d \in DOMAIN policy /\ domain' = d
      /\ verdict' = IF policy[d] = NoEvaluator THEN "allow" ELSE "scanning"
      /\ UNCHANGED <<file, validated, policy, context, at, fired>>
  BY DEF Evaluate
<1>2. at = 1 /\ fired = <<>>
  BY <1>1 DEF PolicyInv, Loaded, Started
<1>3. Kinds'
  BY <1>1 DEF PolicyInv, Kinds, Started
<1>4. \A ev, e : AsWritten(ev, e)' = AsWritten(ev, e)
  BY <1>1 DEF AsWritten, IsEvaluator, RulesOf, DefaultOf, SectionOf
<1>5. Loaded'
  BY <1>1, <1>4 DEF PolicyInv, Loaded, Started
<1>6. ASSUME policy[d] # NoEvaluator PROVE Scanned' /\ FiredIsTrace'
  <2>1. verdict' = "scanning" /\ policy'[domain'] = policy[d] /\ Rules' = policy[d].rules
    BY <1>1, <1>6 DEF Rules
  <2>2. Rules' \in Seq(Rule)
    BY <1>1, <1>6, <2>1 DEF PolicyInv, Loaded, AsWritten, IsEvaluator
  <2>3. Len(Rules') \in Nat /\ 1..(1 - 1) = {} /\ 1 \in 1..Len(Rules') + 1
        /\ DOMAIN fired' = {} /\ \A i \in DOMAIN Rules' : ~ (i < 1)
    BY <1>1, <1>2, <2>2
  <2>4. Scanned'
    BY <1>1, <1>2, <2>1, <2>3 DEF Scanned
  <2>5. {fired'[k] : k \in DOMAIN fired'} = {}
    BY <2>3
  <2>6. {i \in DOMAIN Rules' : (i < at' \/ (i = at' /\ verdict' = "deny")) /\ Applies(Rules[i])'} = {}
    BY <1>1, <1>2, <2>1, <2>3
  <2>. QED  BY <2>3, <2>4, <2>5, <2>6 DEF FiredIsTrace
<1>7. CASE policy[d] = NoEvaluator
  <2>1. policy'[domain'] = NoEvaluator
    BY <1>1, <1>7
  <2>2. Scanned'
    BY <2>1 DEF Scanned
  <2>3. FiredIsTrace'
    BY <2>1 DEF FiredIsTrace
  <2>. QED  BY <1>3, <1>5, <2>2, <2>3 DEF PolicyInv
<1>. QED  BY <1>3, <1>5, <1>6, <1>7 DEF PolicyInv

(* What one turn of the loop may rely on. *)
LEMMA Turn ==
  ASSUME PolicyInv, verdict = "scanning"
  PROVE  /\ policy[domain] # NoEvaluator /\ Rules \in Seq(Rule)
         /\ Len(Rules) \in Nat /\ DOMAIN Rules = 1..Len(Rules)
         /\ at \in Nat \ {0} /\ at \in 1..Len(Rules) + 1
         /\ domain \in Domain /\ domain \in DOMAIN policy
         /\ policy[domain].unknown = WhenMissing
<1>1. policy[domain] # NoEvaluator /\ domain \in DOMAIN policy
      /\ IsEvaluator(policy[domain], domain)
  BY DEF PolicyInv, Loaded, Started, AsWritten
<1>2. Rules \in Seq(Rule) /\ policy[domain].unknown = WhenMissing
  BY <1>1 DEF IsEvaluator, Rules, DefaultOf, WhenMissing, SectionOf, Section
<1>3. at \in Nat \ {0} /\ at \in 1..Len(Rules) + 1 /\ domain \in Domain
  BY <1>1 DEF PolicyInv, Kinds, Scanned, Started
<1>. QED  BY <1>1, <1>2, <1>3

(* The state that a step of the loop leaves alone. *)
LEMMA LoopKeepsLoaded ==
  ASSUME PolicyInv, verdict = "scanning", verdict' \in Started,
         UNCHANGED <<file, validated, policy, domain, context>>
  PROVE  Loaded'
<1>1. \A ev, e : AsWritten(ev, e)' = AsWritten(ev, e)
  BY DEF AsWritten, IsEvaluator, RulesOf, DefaultOf, SectionOf
<1>. QED  BY <1>1, Turn DEF PolicyInv, Loaded, Started

(* A rule was looked at and the loop goes on. *)
LEMMA GoOn ==
  ASSUME PolicyInv, SkipRule \/ PassRule
  PROVE  PolicyInv'
<1>1. /\ verdict = "scanning" /\ verdict' = "scanning" /\ at \in DOMAIN Rules /\ at' = at + 1
      /\ UNCHANGED <<file, validated, policy, domain, context>>
  BY DEF SkipRule, PassRule, Scanning
<1>2. /\ policy[domain] # NoEvaluator /\ Rules \in Seq(Rule)
      /\ Len(Rules) \in Nat /\ DOMAIN Rules = 1..Len(Rules)
      /\ at \in Nat \ {0} /\ policy[domain].unknown = WhenMissing
  BY <1>1, Turn
<1>3. /\ Rules' = Rules /\ policy' = policy /\ domain' = domain
      /\ \A r : Applies(r)' = Applies(r) /\ Objects(r)' = Objects(r)
  BY <1>1, LoopFrame
<1>4. ~ (Applies(Rules[at]) /\ Objects(Rules[at]))
  BY <1>2, RuleTests DEF SkipRule, PassRule
<1>5. fired \in Seq(Nat) /\ Len(fired) \in Nat /\ DOMAIN fired = 1..Len(fired)
  <2>1. fired \in Seq(Nat)
    BY DEF PolicyInv, Kinds
  <2>. QED  BY <2>1
<1>6. /\ \A i \in 1..(at - 1) : ~ (Applies(Rules[i]) /\ Objects(Rules[i]))
      /\ {fired[k] : k \in DOMAIN fired} = {i \in DOMAIN Rules : i < at /\ Applies(Rules[i])}
      /\ \A k, m \in DOMAIN fired : k < m => fired[k] < fired[m]
      /\ \A k \in DOMAIN fired : ~ Objects(Rules[fired[k]])
  BY <1>1, <1>2 DEF PolicyInv, Scanned, FiredIsTrace, Started
<1>7. Scanned'
  <2>1. at' \in 1..Len(Rules) + 1 /\ \A i \in 1..(at' - 1) : i \in 1..(at - 1) \/ i = at
    BY <1>1, <1>2
  <2>2. \A i \in 1..(at' - 1) : ~ (Applies(Rules[i]) /\ Objects(Rules[i]))
    BY <1>4, <1>6, <2>1
  <2>. QED  BY <1>1, <1>3, <2>1, <2>2 DEF Scanned
<1>8. CASE SkipRule
  <2>1. ~ Applies(Rules[at]) /\ fired' = fired
    BY <1>2, <1>8, RuleTests DEF SkipRule
  <2>2. {i \in DOMAIN Rules : i < at' /\ Applies(Rules[i])} = {i \in DOMAIN Rules : i < at /\ Applies(Rules[i])}
    BY <1>1, <1>2, <2>1
  <2>3. FiredIsTrace'
    BY <1>1, <1>3, <1>6, <2>1, <2>2 DEF FiredIsTrace
  <2>4. Kinds'
    BY <1>1, <1>2, <2>1 DEF PolicyInv, Kinds
  <2>. QED  BY <1>1, <1>7, <2>3, <2>4, LoopKeepsLoaded DEF PolicyInv, Started
<1>9. CASE PassRule
  <2>1. Applies(Rules[at]) /\ ~ Objects(Rules[at]) /\ fired' = Append(fired, at)
    BY <1>2, <1>9, RuleTests DEF PassRule
  <2>2. /\ fired' \in Seq(Nat) /\ DOMAIN fired' = 1..(Len(fired) + 1)
        /\ \A k \in 1..Len(fired) : fired'[k] = fired[k]
        /\ fired'[Len(fired) + 1] = at
        /\ \A k \in DOMAIN fired' : k \in DOMAIN fired \/ k = Len(fired) + 1
    BY <1>2, <1>5, <2>1, AppendProperties
  <2>3. {fired'[k] : k \in DOMAIN fired'} = {fired[k] : k \in DOMAIN fired} \cup {at}
    <3>1. \A k \in DOMAIN fired : k \in DOMAIN fired' /\ fired'[k] = fired[k]
      BY <1>5, <2>2
    <3>2. Len(fired) + 1 \in DOMAIN fired'
      BY <1>5, <2>2
    <3>. QED  BY <2>2, <3>1, <3>2
  <2>4. {i \in DOMAIN Rules : i < at' /\ Applies(Rules[i])}
          = {i \in DOMAIN Rules : i < at /\ Applies(Rules[i])} \cup {at}
    <3>1. \A i \in DOMAIN Rules : i < at' <=> i < at \/ i = at
      BY <1>1, <1>2
    <3>. QED  BY <1>1, <2>1, <3>1
  <2>5. \A k \in DOMAIN fired : fired[k] < at
    BY <1>6
  <2>6. \A k, m \in DOMAIN fired' : k < m => fired'[k] < fired'[m]
    BY <1>5, <1>6, <2>2, <2>5
  <2>7. \A k \in DOMAIN fired' : ~ Objects(Rules[fired'[k]])
    BY <1>5, <1>6, <2>1, <2>2
  <2>8. {fired'[k] : k \in DOMAIN fired'} = {i \in DOMAIN Rules : i < at' /\ Applies(Rules[i])}
    BY <1>6, <2>3, <2>4
  <2>9. FiredIsTrace'
    BY <1>1, <1>3, <2>6, <2>7, <2>8 DEF FiredIsTrace
  <2>10. Kinds'
    BY <1>1, <1>2, <2>2 DEF PolicyInv, Kinds
  <2>. QED  BY <1>1, <1>7, <2>9, <2>10, LoopKeepsLoaded DEF PolicyInv, Started
<1>. QED  BY <1>8, <1>9

(* The loop is left. *)
LEMMA DenyStep ==
  ASSUME PolicyInv, DenyByRule
  PROVE  PolicyInv'
<1>1. /\ verdict = "scanning" /\ verdict' = "deny" /\ at \in DOMAIN Rules /\ at' = at
      /\ fired' = Append(fired, at)
      /\ UNCHANGED <<file, validated, policy, domain, context>>
  BY DEF DenyByRule, Scanning
<1>2. /\ policy[domain] # NoEvaluator /\ Rules \in Seq(Rule)
      /\ Len(Rules) \in Nat /\ DOMAIN Rules = 1..Len(Rules)
      /\ at \in Nat \ {0} /\ policy[domain].unknown = WhenMissing
  BY <1>1, Turn
<1>3. /\ Rules' = Rules /\ policy' = policy /\ domain' = domain
      /\ \A r : Applies(r)' = Applies(r) /\ Objects(r)' = Objects(r)
  BY <1>1, LoopFrame
<1>4. Applies(Rules[at]) /\ Objects(Rules[at])
  BY <1>2, RuleTests DEF DenyByRule
<1>5. fired \in Seq(Nat) /\ Len(fired) \in Nat /\ DOMAIN fired = 1..Len(fired)
  <2>1. fired \in Seq(Nat)
    BY DEF PolicyInv, Kinds
  <2>. QED  BY <2>1
<1>6. /\ at \in 1..Len(Rules) + 1
      /\ \A i \in 1..(at - 1) : ~ (Applies(Rules[i]) /\ Objects(Rules[i]))
      /\ {fired[k] : k \in DOMAIN fired} = {i \in DOMAIN Rules : i < at /\ Applies(Rules[i])}
      /\ \A k, m \in DOMAIN fired : k < m => fired[k] < fired[m]
      /\ \A k \in DOMAIN fired : ~ Objects(Rules[fired[k]])
  BY <1>1, <1>2 DEF PolicyInv, Scanned, FiredIsTrace, Started
<1>7. Scanned'
  BY <1>1, <1>3, <1>4, <1>6 DEF Scanned
<1>8. /\ fired' \in Seq(Nat) /\ DOMAIN fired' = 1..(Len(fired) + 1) /\ Len(fired') = Len(fired) + 1
      /\ \A k \in 1..Len(fired) : fired'[k] = fired[k]
      /\ fired'[Len(fired) + 1] = at
      /\ \A k \in DOMAIN fired' : k \in DOMAIN fired \/ k = Len(fired) + 1
  BY <1>1, <1>2, <1>5, AppendProperties
<1>9. {fired'[k] : k \in DOMAIN fired'} = {fired[k] : k \in DOMAIN fired} \cup {at}
  <2>1. \A k \in DOMAIN fired : k \in DOMAIN fired' /\ fired'[k] = fired[k]
    BY <1>5, <1>8
  <2>2. Len(fired) + 1 \in DOMAIN fired'
    BY <1>5, <1>8
  <2>. QED  BY <1>8, <2>1, <2>2
<1>10. {i \in DOMAIN Rules : (i < at \/ i = at) /\ Applies(Rules[i])}
         = {i \in DOMAIN Rules : i < at /\ Applies(Rules[i])} \cup {at}
  BY <1>1, <1>4
<1>11. \A k \in DOMAIN fired : fired[k] < at
  BY <1>6
<1>12. \A k, m \in DOMAIN fired' : k < m => fired'[k] < fired'[m]
  <2>. SUFFICES ASSUME NEW k \in DOMAIN fired', NEW m \in DOMAIN fired', k < m
                PROVE  fired'[k] < fired'[m]
    OBVIOUS
  <2>1. k \in DOMAIN fired /\ (m \in DOMAIN fired \/ m = Len(fired) + 1)
    BY <1>5, <1>8
  <2>2. fired'[k] = fired[k]
    BY <1>5, <1>8, <2>1
  <2>3. CASE m \in DOMAIN fired
    BY <1>5, <1>6, <1>8, <2>1, <2>2, <2>3
  <2>4. CASE m = Len(fired) + 1
    BY <1>8, <1>11, <2>1, <2>2, <2>4
  <2>. QED  BY <2>1, <2>3, <2>4
<1>13. \A k \in DOMAIN fired' : Objects(Rules[fired'[k]]) <=> k = Len(fired')
  <2>1. \A k \in DOMAIN fired : fired'[k] = fired[k] /\ k # Len(fired')
    BY <1>5, <1>8
  <2>. QED  BY <1>4, <1>6, <1>8, <2>1
<1>14. {fired'[k] : k \in DOMAIN fired'} = {i \in DOMAIN Rules : (i < at \/ i = at) /\ Applies(Rules[i])}
  BY <1>6, <1>9, <1>10
<1>15. FiredIsTrace'
  BY <1>1, <1>3, <1>12, <1>13, <1>14 DEF FiredIsTrace
<1>16. Kinds'
  BY <1>1, <1>2, <1>8 DEF PolicyInv, Kinds, Started
<1>. QED  BY <1>1, <1>7, <1>15, <1>16, LoopKeepsLoaded DEF PolicyInv, Started

LEMMA ExitStep ==
  ASSUME PolicyInv, RaiseInRule \/ AllowAtEnd
  PROVE  PolicyInv'
<1>1. /\ verdict = "scanning" /\ verdict' \in {"raised", "allow"}
      /\ verdict' = "allow" => at \notin DOMAIN Rules
      /\ UNCHANGED <<file, validated, policy, domain, context, at, fired>>
  BY DEF RaiseInRule, AllowAtEnd, Scanning
<1>2. /\ policy[domain] # NoEvaluator
      /\ Len(Rules) \in Nat /\ DOMAIN Rules = 1..Len(Rules) /\ at \in 1..Len(Rules) + 1
  BY <1>1, Turn
<1>3. /\ Rules' = Rules /\ policy' = policy /\ domain' = domain /\ at' = at /\ fired' = fired
      /\ \A r : Applies(r)' = Applies(r) /\ Objects(r)' = Objects(r)
  BY <1>1, LoopFrame
<1>4. Scanned'
  <2>1. verdict' = "allow" => at = Len(Rules) + 1
    BY <1>1, <1>2
  <2>. QED  BY <1>1, <1>2, <1>3, <2>1 DEF PolicyInv, Scanned, Started
<1>5. FiredIsTrace'
  <2>1. /\ {fired[k] : k \in DOMAIN fired} = {i \in DOMAIN Rules : i < at /\ Applies(Rules[i])}
        /\ \A k, m \in DOMAIN fired : k < m => fired[k] < fired[m]
        /\ \A k \in DOMAIN fired : ~ Objects(Rules[fired[k]])
    BY <1>1, <1>2 DEF PolicyInv, FiredIsTrace
  <2>. QED  BY <1>1, <1>3, <2>1 DEF FiredIsTrace
<1>6. Kinds'
  BY <1>1 DEF PolicyInv, Kinds, Started
<1>. QED  BY <1>1, <1>4, <1>5, <1>6, LoopKeepsLoaded DEF PolicyInv, Started

LEMMA PolicyStep ==
  ASSUME PolicyInv, [Next]_vars
  PROVE  PolicyInv'
<1>1. CASE UNCHANGED vars
  <2>1. /\ UNCHANGED <<file, policy, domain, context>> /\ validated' = validated /\ at' = at
        /\ fired' = fired /\ verdict' = verdict
    BY <1>1 DEF vars
  <2>2. /\ Rules' = Rules
        /\ \A r : Applies(r)' = Applies(r) /\ Objects(r)' = Objects(r)
        /\ \A ev, d : AsWritten(ev, d)' = AsWritten(ev, d)
    BY <2>1, LoopFrame DEF AsWritten, IsEvaluator
  <2>3. Kinds' /\ Loaded'
    BY <2>1, <2>2 DEF PolicyInv, Kinds, Loaded
  <2>4. Scanned' /\ FiredIsTrace'
    BY <2>1, <2>2 DEF PolicyInv, Scanned, FiredIsTrace
  <2>. QED  BY <2>3, <2>4 DEF PolicyInv
<1>2. CASE LoadPolicy \/ \E d \in Domain : LoadEvaluator(d)
  BY <1>2, LoadStep
<1>3. CASE \E d \in Domain : Evaluate(d)
  BY <1>3, EvaluateStep
<1>4. CASE SkipRule \/ PassRule
  BY <1>4, GoOn
<1>5. CASE DenyByRule
  BY <1>5, DenyStep
<1>6. CASE RaiseInRule \/ AllowAtEnd
  BY <1>6, ExitStep
<1>. QED  BY <1>1, <1>2, <1>3, <1>4, <1>5, <1>6 DEF Next

LEMMA PolicyInvariant == Spec => []PolicyInv
BY InitPolicy, PolicyStep, PTL DEF Spec

-----------------------------------------------------------------------------
(* The theorems.                                                           *)

(* Types: whoever loaded the policy, an evaluator that runs has rules of     *)
(* its own and the loop stays inside them (Policy.from_yaml(), evaluate()).  *)
THEOREM PolicyTypeCorrect == Spec => []PolicyTypeOK
<1>1. PolicyInv => PolicyTypeOK
  <2>. SUFFICES ASSUME PolicyInv PROVE PolicyTypeOK
    OBVIOUS
  <2>1. \A d \in DOMAIN policy : AsWritten(policy[d], d) => policy[d] = NoEvaluator \/ policy[d].rules \in Seq(Rule)
    BY DEF AsWritten, IsEvaluator
  <2>2. verdict = "scanning" => policy[domain] # NoEvaluator /\ at \in 1..Len(Rules) + 1
    BY Turn
  <2>3. verdict \in {"loaded", "scanning", "allow", "deny", "raised"} =>
          /\ DOMAIN policy \subseteq Domain
          /\ domain \in DOMAIN policy \/ verdict = "loaded"
          /\ \A d \in DOMAIN policy : policy[d] = NoEvaluator \/ policy[d].rules \in Seq(Rule)
    BY <2>1 DEF PolicyInv, Loaded, Started
  <2>. QED  BY <2>2, <2>3 DEF PolicyInv, Kinds, PolicyTypeOK, Started
<1>. QED  BY <1>1, PolicyInvariant, PTL

(* Every file is enforced as it is written: through Policy.from_yaml() or    *)
(* through one evaluator of the legacy layout, evaluate() denies exactly     *)
(* when some rule of the file applies and one of its requirements does not   *)
(* hold, whichever exit the loop takes and however many rules there are.     *)
THEOREM FilesAreEnforced == Spec => []FileIsEnforced
<1>1. PolicyInv => FileIsEnforced
  <2>. SUFFICES ASSUME PolicyInv, verdict \in {"allow", "deny"}
                PROVE  verdict = "deny" <=>
                          \E i \in DOMAIN Written : Applies(Written[i]) /\ Objects(Written[i])
    BY DEF FileIsEnforced
  <2>1. Written = RulesOf(domain)
    BY DEF Written, RulesOf, Section, SectionOf
  <2>2. AsWritten(policy[domain], domain)
    BY DEF PolicyInv, Loaded, Started
  <2>3. CASE policy[domain] = NoEvaluator
    <3>1. RulesOf(domain) = <<>> /\ verdict # "deny"
      BY <2>2, <2>3 DEF AsWritten, IsEvaluator, PolicyInv, Kinds
    <3>. QED  BY <2>1, <3>1
  <2>4. CASE policy[domain] # NoEvaluator
    <3>1. Rules = Written /\ Rules \in Seq(Rule)
      BY <2>1, <2>2, <2>4 DEF AsWritten, IsEvaluator, Rules
    <3>2. DOMAIN Rules = 1..Len(Rules) /\ Len(Rules) \in Nat
      BY <3>1
    <3>3. /\ \A i \in 1..(at - 1) : ~ (Applies(Rules[i]) /\ Objects(Rules[i]))
          /\ verdict = "deny" => at \in DOMAIN Rules /\ Applies(Rules[at]) /\ Objects(Rules[at])
          /\ verdict = "allow" => at = Len(Rules) + 1
      BY <2>4 DEF PolicyInv, Scanned, Started
    <3>4. verdict = "allow" => 1..(at - 1) = DOMAIN Rules
      BY <3>2, <3>3
    <3>. QED  BY <3>1, <3>3, <3>4
  <2>. QED  BY <2>3, <2>4
<1>. QED  BY <1>1, PolicyInvariant, PTL

(* rules_fired lists, in file order, exactly the rules that applied among    *)
(* those evaluate() looked at, and only its last entry may be the one that   *)
(* denied: an auditor can replay the decision from it.                       *)
THEOREM TraceIsFaithful == Spec => []FiredIsTrace
<1>1. PolicyInv => FiredIsTrace
  BY DEF PolicyInv
<1>. QED  BY <1>1, PolicyInvariant, PTL

-----------------------------------------------------------------------------
(* Recursion and induction along a sequence.                               *)

(* A set that holds 0 and, with a position, the next one holds them all. *)
LEMMA EveryPosition ==
  ASSUME NEW n \in Nat, NEW S, 0 \in S, \A i \in 1..n : i - 1 \in S => i \in S
  PROVE  0..n \subseteq S
<1>. DEFINE Bad == (0..n) \ S
            R == {ss \in Nat \X Nat : ss[1] < ss[2]}
<1>. SUFFICES ASSUME Bad # {} PROVE FALSE
  OBVIOUS
<1>1. IsWellFoundedOn(R, Nat)
  BY NatLessThanWellFounded, Zenon DEF OpToRel
<1>2. Bad \in SUBSET Nat
  OBVIOUS
<1>3. PICK x \in Bad : \A y \in Bad : <<y, x>> \notin R
  <2>. HIDE DEF Bad, R
  <2>. QED  BY <1>1, <1>2, WFMin
<1>4. x \in 1..n
  OBVIOUS
<1>5. x - 1 \in Nat /\ x - 1 < x
  BY <1>4
<1>6. x - 1 \notin Bad
  BY <1>2, <1>3, <1>5
<1>. QED  BY <1>4, <1>6

(* A function may be defined along the positions of a sequence, each value  *)
(* from the one before it.                                                  *)
Along(n, S, a, g, f) ==
  /\ f \in [0..n -> S]
  /\ f[0] = a
  /\ \A i \in 1..n : f[i] = g[i][f[i - 1]]

LEMMA Recursion ==
  ASSUME NEW n \in Nat, NEW S, NEW a \in S, NEW g,
         \A i \in 1..n : \A x \in S : g[i][x] \in S
  PROVE  \E f : Along(n, S, a, g, f)
<1>. DEFINE Upto(m, f) == \A i \in 0..m : f[i] = IF i = 0 THEN a ELSE g[i][f[i - 1]]
            T == {m \in 0..n : \E f \in [0..n -> S] : Upto(m, f)}
<1>1. 0 \in T
  <2>. DEFINE h == [i \in 0..n |-> a]
  <2>1. h \in [0..n -> S] /\ Upto(0, h)
    OBVIOUS
  <2>. HIDE DEF Upto, h
  <2>. QED  BY <2>1
<1>2. ASSUME NEW m \in 1..n, m - 1 \in T PROVE m \in T
  <2>1. PICK f \in [0..n -> S] : Upto(m - 1, f)
    BY <1>2
  <2>. DEFINE h == [f EXCEPT ![m] = g[m][f[m - 1]]]
  <2>2. f[m - 1] \in S /\ g[m][f[m - 1]] \in S
    OBVIOUS
  <2>3. h \in [0..n -> S]
    BY <2>2
  <2>4. ASSUME NEW i \in 0..m PROVE h[i] = IF i = 0 THEN a ELSE g[i][h[i - 1]]
    <3>1. CASE i = m
      <4>1. h[i] = g[m][f[m - 1]] /\ h[i - 1] = f[m - 1]
        BY <3>1
      <4>. QED  BY <3>1, <4>1
    <3>2. CASE i # m
      <4>1. i \in 0..(m - 1) /\ i \in 0..n /\ (i # 0 => i - 1 \in 0..n /\ i - 1 # m)
        BY <3>2
      <4>2. h[i] = f[i] /\ (i # 0 => h[i - 1] = f[i - 1])
        BY <3>2, <4>1
      <4>. QED  BY <2>1, <4>1, <4>2
    <3>. QED  BY <3>1, <3>2
  <2>5. Upto(m, h)
    <3>. HIDE DEF h
    <3>. QED  BY <2>4
  <2>. HIDE DEF Upto, h
  <2>. QED  BY <2>3, <2>5
<1>3. n \in T
  <2>. HIDE DEF T
  <2>. QED  BY <1>1, <1>2, EveryPosition
<1>4. PICK f \in [0..n -> S] : Upto(n, f)
  BY <1>3
<1>5. f[0] = a /\ \A i \in 1..n : f[i] = g[i][f[i - 1]]
  <2>1. 0 \in 0..n /\ \A i \in 1..n : i \in 0..n /\ i # 0
    OBVIOUS
  <2>. QED  BY <1>4, <2>1
<1>. QED  BY <1>5 DEF Along

(* A set of sequences that holds the empty one and, with a sequence, each   *)
(* that is one element longer holds them all.                               *)
LEMMA EverySequence ==
  ASSUME NEW C, NEW S, <<>> \in S,
         \A u \in Seq(C), c \in C : u \in S => Append(u, c) \in S
  PROVE  Seq(C) \subseteq S
<1>. SUFFICES ASSUME NEW t \in Seq(C) PROVE t \in S
  OBVIOUS
<1>. DEFINE P == {i \in 0..Len(t) : SubSeq(t, 1, i) \in S}
<1>. Len(t) \in Nat
  OBVIOUS
<1>1. 0 \in P
  <2>1. SubSeq(t, 1, 0) = <<>>
    OBVIOUS
  <2>2. SubSeq(t, 1, 0) \in S
    BY <2>1, Zenon
  <2>. QED  BY <2>2
<1>2. ASSUME NEW i \in 1..Len(t), i - 1 \in P PROVE i \in P
  <2>1. SubSeq(t, 1, i) = Append(SubSeq(t, 1, i - 1), t[i])
    OBVIOUS
  <2>2. SubSeq(t, 1, i - 1) \in Seq(C) /\ t[i] \in C
    BY ElementOfSeq
  <2>3. SubSeq(t, 1, i - 1) \in S
    BY <1>2, Zenon
  <2>4. SubSeq(t, 1, i) \in S
    BY <2>1, <2>2, <2>3, Zenon
  <2>. QED  BY <2>4
<1>3. Len(t) \in P
  <2>. HIDE DEF P
  <2>1. 0..Len(t) \subseteq P
    BY <1>1, <1>2, EveryPosition
  <2>. QED  BY <2>1
<1>4. SubSeq(t, 1, Len(t)) = t
  OBVIOUS
<1>. QED  BY <1>3, <1>4

-----------------------------------------------------------------------------
(* The passes of the normalizer, one character at a time.                  *)

Passes == {"nfc", "zeroWidth", "caseFold", "whitespace"}

LEMMA PairIs ==
  ASSUME NEW a, NEW c
  PROVE  <<a, c>> \in Pairs <=> \/ a = "s" /\ c = "mark"
                                \/ a = "iota" /\ c = "dots"
                                \/ a = "iota" /\ c = "peri"
                                \/ a = "iota_dots" /\ c = "peri"
BY DEF Pairs

LEMMA CompositeIs ==
  ASSUME NEW pair \in Pairs
  PROVE  Composite[pair] \in {"s_mark", "iota_dots", "iota_peri", "full"}
BY DEF Pairs, Composite

(* What case folding changes, and what of it becomes longer.                *)
Expanding == {"sharp_s", "iota_peri", "full"}
Folds == Expanding \cup {"Q"}

LEMMA PutIs ==
  ASSUME NEW out, NEW c
  PROVE  /\ Put("nfc", out, c) =
              IF out # <<>> /\ <<Last(out), c>> \in Pairs
              THEN Append(Front(out), Composite[<<Last(out), c>>]) ELSE Append(out, c)
         /\ Put("zeroWidth", out, c) = IF c = "zero_width" THEN out ELSE Append(out, c)
         /\ Put("caseFold", out, c) = out \o Folding[c]
         /\ Put("whitespace", out, c) =
              IF c = "space" /\ (out = <<>> \/ Last(out) = "space") THEN out ELSE Append(out, c)
BY DEF Put

LEMMA FoldingIs ==
  ASSUME NEW c \in Character
  PROVE  /\ c = "Q" => Folding[c] = <<"q">>
         /\ c = "sharp_s" => Folding[c] = <<"s", "s">>
         /\ c = "iota_peri" => Folding[c] = <<"iota", "peri">>
         /\ c = "full" => Folding[c] = <<"iota", "dots", "peri">>
         /\ c \notin Folds => Folding[c] = <<c>>
BY DEF Folding, Folds, Expanding

LEMMA ExpandingIs ==
  ASSUME NEW c \in Character
  PROVE  Len(Folding[c]) > 1 <=> c \in Expanding
<1>1. Len(<<"q">>) = 1 /\ Len(<<c>>) = 1 /\ Len(<<"s", "s">>) = 2
      /\ Len(<<"iota", "peri">>) = 2 /\ Len(<<"iota", "dots", "peri">>) = 3
  OBVIOUS
<1>2. CASE c \notin Folds
  <2>1. Folding[c] = <<c>>
    BY <1>2, FoldingIs, Zenon
  <2>2. c \notin Expanding
    BY <1>2 DEF Folds
  <2>. QED  BY <1>1, <2>1, <2>2
<1>3. CASE c = "Q"
  <2>1. Folding[c] = <<"q">>
    BY <1>3, FoldingIs, Zenon
  <2>2. c \notin Expanding
    BY <1>3 DEF Expanding
  <2>. QED  BY <1>1, <2>1, <2>2
<1>4. CASE c \in Expanding
  <2>1. \/ Folding[c] = <<"s", "s">> \/ Folding[c] = <<"iota", "peri">>
        \/ Folding[c] = <<"iota", "dots", "peri">>
    BY <1>4, FoldingIs, Zenon DEF Expanding
  <2>2. Len(Folding[c]) = 2 \/ Len(Folding[c]) = 3
    BY <1>1, <2>1, Zenon
  <2>. QED  BY <1>4, <2>2
<1>. QED  BY <1>2, <1>3, <1>4 DEF Folds

LEMMA FoldIs ==
  ASSUME NEW out \in Seq(Character), NEW c \in Character
  PROVE  /\ c = "Q" => Put("caseFold", out, c) = Append(out, "q")
         /\ c = "sharp_s" => Put("caseFold", out, c) = Append(Append(out, "s"), "s")
         /\ c = "iota_peri" => Put("caseFold", out, c) = Append(Append(out, "iota"), "peri")
         /\ c = "full" => Put("caseFold", out, c) = Append(Append(Append(out, "iota"), "dots"), "peri")
         /\ c \notin Folds => Put("caseFold", out, c) = Append(out, c)
<1>1. /\ out \o <<c>> = Append(out, c) /\ out \o <<"q">> = Append(out, "q")
      /\ out \o <<"s", "s">> = Append(Append(out, "s"), "s")
      /\ out \o <<"iota", "peri">> = Append(Append(out, "iota"), "peri")
      /\ out \o <<"iota", "dots", "peri">> = Append(Append(Append(out, "iota"), "dots"), "peri")
  <2>1. out \o <<c>> = Append(out, c) /\ out \o <<"q">> = Append(out, "q")
    OBVIOUS
  <2>2. out \o <<"s", "s">> = Append(Append(out, "s"), "s")
    OBVIOUS
  <2>3. out \o <<"iota", "peri">> = Append(Append(out, "iota"), "peri")
    OBVIOUS
  <2>4. out \o <<"iota", "dots", "peri">> = Append(Append(Append(out, "iota"), "dots"), "peri")
    OBVIOUS
  <2>. QED  BY <2>1, <2>2, <2>3, <2>4, Zenon
<1>2. Put("caseFold", out, c) = out \o Folding[c]
  BY PutIs, Zenon
<1>3. /\ c = "Q" => Folding[c] = <<"q">>
      /\ c = "sharp_s" => Folding[c] = <<"s", "s">>
      /\ c = "iota_peri" => Folding[c] = <<"iota", "peri">>
      /\ c = "full" => Folding[c] = <<"iota", "dots", "peri">>
      /\ c \notin Folds => Folding[c] = <<c>>
  BY FoldingIs, Zenon
<1>4. c = "Q" => Put("caseFold", out, c) = Append(out, "q")
  BY <1>1, <1>2, <1>3, Zenon
<1>5. c = "sharp_s" => Put("caseFold", out, c) = Append(Append(out, "s"), "s")
  BY <1>1, <1>2, <1>3, Zenon
<1>6. c = "iota_peri" => Put("caseFold", out, c) = Append(Append(out, "iota"), "peri")
  BY <1>1, <1>2, <1>3, Zenon
<1>7. c = "full" => Put("caseFold", out, c) = Append(Append(Append(out, "iota"), "dots"), "peri")
  BY <1>1, <1>2, <1>3, Zenon
<1>8. c \notin Folds => Put("caseFold", out, c) = Append(out, c)
  BY <1>1, <1>2, <1>3, Zenon
<1>. QED  BY <1>4, <1>5, <1>6, <1>7, <1>8

LEMMA PutType ==
  ASSUME NEW pass \in Passes, NEW out \in Seq(Character), NEW c \in Character
  PROVE  Put(pass, out, c) \in Seq(Character)
<1>1. Front(out) \in Seq(Character)
  BY DEF Front
<1>2. {"q", "s", "iota", "dots", "peri", "s_mark", "iota_dots", "iota_peri", "full"} \subseteq Character
  BY DEF Character, Mark
<1>. HIDE DEF Character
<1>3. ASSUME NEW u \in Seq(Character), NEW d \in Character PROVE Append(u, d) \in Seq(Character)
  OBVIOUS
<1>4. CASE pass = "nfc"
  <2>1. <<Last(out), c>> \in Pairs => Composite[<<Last(out), c>>] \in Character
    BY <1>2, CompositeIs
  <2>2. /\ Append(out, c) \in Seq(Character)
        /\ <<Last(out), c>> \in Pairs =>
              Append(Front(out), Composite[<<Last(out), c>>]) \in Seq(Character)
    BY <1>1, <1>3, <2>1, Zenon
  <2>3. Put("nfc", out, c) = IF out # <<>> /\ <<Last(out), c>> \in Pairs
                             THEN Append(Front(out), Composite[<<Last(out), c>>]) ELSE Append(out, c)
    BY PutIs, Zenon
  <2>. QED  BY <1>4, <2>2, <2>3, Zenon
<1>5. CASE pass \in {"zeroWidth", "whitespace"}
  <2>1. /\ Put("zeroWidth", out, c) \in {out, Append(out, c)}
        /\ Put("whitespace", out, c) \in {out, Append(out, c)}
    BY PutIs, Zenon
  <2>. QED  BY <1>3, <1>5, <2>1
<1>6. CASE pass = "caseFold"
  <2>1. /\ Append(out, c) \in Seq(Character) /\ Append(out, "q") \in Seq(Character)
        /\ Append(out, "s") \in Seq(Character) /\ Append(out, "iota") \in Seq(Character)
    BY <1>2, <1>3
  <2>2. /\ Append(Append(out, "s"), "s") \in Seq(Character)
        /\ Append(Append(out, "iota"), "peri") \in Seq(Character)
        /\ Append(Append(out, "iota"), "dots") \in Seq(Character)
    BY <1>2, <1>3, <2>1
  <2>3. Append(Append(Append(out, "iota"), "dots"), "peri") \in Seq(Character)
    BY <1>2, <1>3, <2>2
  <2>4. c = "Q" \/ c = "sharp_s" \/ c = "iota_peri" \/ c = "full" \/ c \notin Folds
    BY DEF Folds, Expanding
  <2>. QED  BY <1>6, <2>1, <2>2, <2>3, <2>4, FoldIs, Zenon
<1>. QED  BY <1>4, <1>5, <1>6 DEF Passes

(* The value of Passed is the last of a table of what is written after each *)
(* character.                                                               *)
IsTable(pass, t, out) ==
  /\ out \in [0..Len(t) -> Seq(Character)]
  /\ out = [i \in 0..Len(t) |-> IF i = 0 THEN <<>> ELSE Put(pass, out[i - 1], t[i])]

LEMMA PassedTable ==
  ASSUME NEW pass \in Passes, NEW t \in Seq(Character)
  PROVE  \E out : IsTable(pass, t, out) /\ Passed(pass, t) = out[Len(t)]
<1>. Len(t) \in Nat
  OBVIOUS
<1>. DEFINE g == [i \in 1..Len(t) |-> [x \in Seq(Character) |-> Put(pass, x, t[i])]]
<1>1. ASSUME NEW i \in 1..Len(t), NEW x \in Seq(Character)
      PROVE  g[i][x] = Put(pass, x, t[i]) /\ g[i][x] \in Seq(Character)
  <2>1. t[i] \in Character
    BY ElementOfSeq
  <2>2. Put(pass, x, t[i]) \in Seq(Character)
    BY <2>1, PutType
  <2>. QED  BY <2>2
<1>3. <<>> \in Seq(Character)
  OBVIOUS
<1>4. PICK f \in [0..Len(t) -> Seq(Character)] :
        f[0] = <<>> /\ \A i \in 1..Len(t) : f[i] = g[i][f[i - 1]]
  <2>. HIDE DEF g
  <2>1. \A i \in 1..Len(t) : \A x \in Seq(Character) : g[i][x] \in Seq(Character)
    BY <1>1
  <2>2. PICK f : Along(Len(t), Seq(Character), <<>>, g, f)
    BY <1>3, <2>1, Recursion
  <2>. QED  BY <2>2 DEF Along
<1>5. f = [i \in 0..Len(t) |-> IF i = 0 THEN <<>> ELSE Put(pass, f[i - 1], t[i])]
  <2>1. \A i \in 0..Len(t) : f[i] = IF i = 0 THEN <<>> ELSE Put(pass, f[i - 1], t[i])
    <3>. SUFFICES ASSUME NEW i \in 0..Len(t)
                  PROVE  f[i] = IF i = 0 THEN <<>> ELSE Put(pass, f[i - 1], t[i])
      OBVIOUS
    <3>1. i # 0 => f[i - 1] \in Seq(Character) /\ i \in 1..Len(t)
      OBVIOUS
    <3>2. i # 0 => f[i] = g[i][f[i - 1]]
      <4>. HIDE DEF g
      <4>. QED  BY <1>4, <3>1
    <3>3. i # 0 => g[i][f[i - 1]] = Put(pass, f[i - 1], t[i])
      BY <1>1, <3>1
    <3>. QED  BY <1>4, <3>2, <3>3
  <2>. DEFINE r == [i \in 0..Len(t) |-> IF i = 0 THEN <<>> ELSE Put(pass, f[i - 1], t[i])]
  <2>2. \A i \in 0..Len(t) : f[i] = r[i]
    BY <2>1
  <2>3. DOMAIN r = 0..Len(t) /\ DOMAIN f = 0..Len(t) /\ r = [i \in DOMAIN r |-> r[i]]
    OBVIOUS
  <2>4. f = r
    <3>. HIDE DEF r
    <3>. QED  BY <2>2, <2>3
  <2>. QED  BY <2>4
<1>. DEFINE h == CHOOSE h : h = [i \in 0..Len(t) |-> IF i = 0 THEN <<>> ELSE Put(pass, h[i - 1], t[i])]
<1>6. h = [i \in 0..Len(t) |-> IF i = 0 THEN <<>> ELSE Put(pass, h[i - 1], t[i])]
  BY <1>5
<1>7. Passed(pass, t) = h[Len(t)]
  BY DEF Passed
<1>. HIDE DEF h
<1>8. h \in [0..Len(t) -> Seq(Character)]
  <2>. DEFINE P == {i \in 0..Len(t) : h[i] \in Seq(Character)}
  <2>0. \A i \in 0..Len(t) : h[i] = IF i = 0 THEN <<>> ELSE Put(pass, h[i - 1], t[i])
    BY <1>6
  <2>1. 0 \in P
    <3>1. 0 \in 0..Len(t) /\ <<>> \in Seq(Character)
      OBVIOUS
    <3>2. h[0] = <<>>
      BY <2>0, <3>1
    <3>. QED  BY <3>1, <3>2
  <2>2. ASSUME NEW i \in 1..Len(t), i - 1 \in P PROVE i \in P
    <3>1. h[i] = Put(pass, h[i - 1], t[i])
      BY <2>0
    <3>2. t[i] \in Character /\ h[i - 1] \in Seq(Character)
      BY <2>2, ElementOfSeq
    <3>3. h[i] \in Seq(Character)
      BY <3>1, <3>2, PutType
    <3>. QED  BY <3>3
  <2>3. 0..Len(t) \subseteq P
    <3>. HIDE DEF P
    <3>. QED  BY <2>1, <2>2, EveryPosition
  <2>4. DOMAIN h = 0..Len(t) /\ h = [i \in 0..Len(t) |-> h[i]]
    BY <1>6
  <2>. QED  BY <2>3, <2>4
<1>. QED  BY <1>6, <1>7, <1>8 DEF IsTable

LEMMA PassedEmpty ==
  ASSUME NEW pass \in Passes
  PROVE  Passed(pass, <<>>) = <<>>
<1>1. PICK out : IsTable(pass, <<>>, out) /\ Passed(pass, <<>>) = out[Len(<<>>)]
  <2>1. <<>> \in Seq(Character)
    OBVIOUS
  <2>. QED  BY <2>1, PassedTable
<1>2. Len(<<>>) = 0
  OBVIOUS
<1>3. out[0] = <<>>
  BY <1>1, <1>2 DEF IsTable
<1>. QED  BY <1>1, <1>2, <1>3

LEMMA PassedType ==
  ASSUME NEW pass \in Passes, NEW t \in Seq(Character)
  PROVE  Passed(pass, t) \in Seq(Character)
<1>1. PICK out : IsTable(pass, t, out) /\ Passed(pass, t) = out[Len(t)]
  BY PassedTable
<1>2. Len(t) \in 0..Len(t)
  OBVIOUS
<1>. QED  BY <1>1, <1>2 DEF IsTable

LEMMA PassedStep ==
  ASSUME NEW pass \in Passes, NEW u \in Seq(Character), NEW c \in Character
  PROVE  Passed(pass, Append(u, c)) = Put(pass, Passed(pass, u), c)
<1>. DEFINE t == Append(u, c)
            n == Len(u)
<1>1. /\ t \in Seq(Character) /\ n \in Nat /\ Len(t) = n + 1 /\ t[n + 1] = c
      /\ \A i \in 1..n : t[i] = u[i]
  OBVIOUS
<1>. HIDE DEF t
<1>2. PICK a : IsTable(pass, t, a) /\ Passed(pass, t) = a[n + 1]
  BY <1>1, PassedTable
<1>3. PICK b : IsTable(pass, u, b) /\ Passed(pass, u) = b[n]
  BY PassedTable
<1>4. /\ \A i \in 0..(n + 1) : a[i] = IF i = 0 THEN <<>> ELSE Put(pass, a[i - 1], t[i])
      /\ \A i \in 0..n : b[i] = IF i = 0 THEN <<>> ELSE Put(pass, b[i - 1], u[i])
  BY <1>1, <1>2, <1>3 DEF IsTable
<1>. DEFINE P == {i \in 0..n : a[i] = b[i]}
<1>5. 0 \in P
  BY <1>1, <1>4
<1>6. ASSUME NEW i \in 1..n, i - 1 \in P PROVE i \in P
  <2>1. a[i] = Put(pass, a[i - 1], t[i]) /\ b[i] = Put(pass, b[i - 1], u[i])
    BY <1>1, <1>4
  <2>2. a[i - 1] = b[i - 1] /\ t[i] = u[i]
    BY <1>1, <1>6
  <2>. QED  BY <1>1, <2>1, <2>2
<1>7. a[n] = b[n]
  <2>1. n \in 0..n
    BY <1>1
  <2>2. 0..n \subseteq P
    <3>. HIDE DEF P, n
    <3>. QED  BY <1>1, <1>5, <1>6, EveryPosition
  <2>. QED  BY <2>1, <2>2
<1>8. a[n + 1] = Put(pass, a[n], c)
  <2>1. n + 1 \in 0..(n + 1) /\ n + 1 # 0 /\ (n + 1) - 1 = n
    BY <1>1
  <2>. QED  BY <1>1, <1>4, <2>1
<1>. QED  BY <1>2, <1>3, <1>7, <1>8 DEF t

-----------------------------------------------------------------------------
(* Arithmetic modulo Mod.                                                  *)

LEMMA Remainder ==
  ASSUME NEW a \in Int, NEW m \in Nat \ {0}
  PROVE  a % m \in 0..(m - 1) /\ \E z \in Int : a = z * m + (a % m)
<1>1. a % m \in 0..(m - 1) /\ a \div m \in Int
  OBVIOUS
<1>2. a = (a \div m) * m + (a % m)
  OBVIOUS
<1>. QED  BY <1>1, <1>2

(* Two sums that end in the same term; the remainders differ as they do.    *)
LEMMA Spread ==
  ASSUME NEW C \in Int, NEW P \in Int, NEW h \in Int, NEW z \in Int,
         NEW B \in Int, NEW m \in Int
  PROVE  (C * P + h + z * m) * B = C * (B * P) + h * B + (z * B) * m
<1>. DEFINE a == C * P  b == z * m
<1>1. a \in Int /\ b \in Int
  OBVIOUS
<1>3. a * B = C * (B * P) /\ b * B = (z * B) * m
  OBVIOUS
<1>. HIDE DEF a, b
<1>4. (a + h + b) * B = a * B + h * B + b * B
  BY <1>1
<1>. QED  BY <1>3, <1>4 DEF a, b

LEMMA Carried ==
  ASSUME NEW A \in Int, NEW a \in Int, NEW D \in Int, NEW q \in Int, NEW z \in Int, NEW x \in Int,
         NEW y \in Int, NEW r \in Int, NEW s \in Int, NEW m \in Int,
         A + D = x * m + r, a + D = y * m + s, A = q + a + z * m
  PROVE  r = q + s + (z + y - x) * m
<1>1. (z + y - x) * m = z * m + y * m - x * m
  OBVIOUS
<1>2. z * m \in Int /\ y * m \in Int /\ x * m \in Int
  OBVIOUS
<1>. QED  BY <1>1, <1>2

LEMMA SameRemainder ==
  ASSUME NEW m \in Nat \ {0}, NEW x \in 0..(m - 1), NEW y \in 0..(m - 1), NEW z \in Int,
         x = y + z * m
  PROVE  x = y
<1>1. CASE z >= 1
  <2>1. z * m >= m
    BY <1>1
  <2>. QED  BY <2>1
<1>2. CASE z <= -1
  <2>1. z * m <= -m
    BY <1>2
  <2>. QED  BY <2>1
<1>3. CASE z = 0
  BY <1>3
<1>. QED  BY <1>1, <1>2, <1>3

-----------------------------------------------------------------------------
(* The hash of a text, one character at a time.                            *)

Residue == 0..(Mod - 1)

LEMMA ModType == Mod \in Nat \ {0} /\ Base \in Nat \ {0} /\ MaxLength \in Nat /\ 0 \in Residue
BY FingerprintingAssumption DEF Residue

LEMMA CodepointType == \A c \in Character : Codepoint[c] \in Nat
BY DEF Codepoint, Character, Mark

LEMMA Reduced ==
  ASSUME NEW a \in Int
  PROVE  a % Mod \in Residue /\ a % Mod \in Int /\ \E z \in Int : a = z * Mod + (a % Mod)
<1>1. Mod \in Nat \ {0}
  BY ModType
<1>2. a % Mod \in Residue /\ \E z \in Int : a = z * Mod + (a % Mod)
  BY <1>1, Remainder, Zenon DEF Residue
<1>3. \A r \in Residue : r \in Int
  BY <1>1 DEF Residue
<1>. QED  BY <1>2, <1>3, Zenon

LEMMA HashTurnType ==
  ASSUME NEW h \in Residue, NEW c \in Character
  PROVE  (h * Base + Codepoint[c]) % Mod \in Residue
<1>1. h \in Nat /\ Codepoint[c] \in Nat
  BY CodepointType, ModType DEF Residue
<1>2. h * Base + Codepoint[c] \in Int
  BY <1>1, ModType
<1>. QED  BY <1>2, Remainder, ModType DEF Residue

IsHashTable(t, h) ==
  /\ h \in [0..Len(t) -> Residue]
  /\ h = [i \in 0..Len(t) |->
            IF i = 0 THEN 0 ELSE (h[i - 1] * Base + Codepoint[t[i]]) % Mod]

LEMMA HashTable ==
  ASSUME NEW t \in Seq(Character)
  PROVE  \E h : IsHashTable(t, h) /\ HashOf(t) = h[Len(t)]
<1>. Len(t) \in Nat
  OBVIOUS
<1>. DEFINE g == [i \in 1..Len(t) |-> [x \in Residue |-> (x * Base + Codepoint[t[i]]) % Mod]]
<1>1. ASSUME NEW i \in 1..Len(t), NEW x \in Residue
      PROVE  g[i][x] = (x * Base + Codepoint[t[i]]) % Mod /\ g[i][x] \in Residue
  <2>1. t[i] \in Character
    BY ElementOfSeq
  <2>2. (x * Base + Codepoint[t[i]]) % Mod \in Residue
    BY <2>1, HashTurnType
  <2>3. g[i][x] = (x * Base + Codepoint[t[i]]) % Mod
    OBVIOUS
  <2>. QED  BY <2>2, <2>3
<1>4. PICK f \in [0..Len(t) -> Residue] :
        f[0] = 0 /\ \A i \in 1..Len(t) : f[i] = g[i][f[i - 1]]
  <2>. HIDE DEF g
  <2>1. \A i \in 1..Len(t) : \A x \in Residue : g[i][x] \in Residue
    BY <1>1
  <2>2. PICK f : Along(Len(t), Residue, 0, g, f)
    BY <2>1, ModType, Recursion
  <2>. QED  BY <2>2 DEF Along
<1>5. f = [i \in 0..Len(t) |-> IF i = 0 THEN 0 ELSE (f[i - 1] * Base + Codepoint[t[i]]) % Mod]
  <2>1. \A i \in 0..Len(t) : f[i] = IF i = 0 THEN 0 ELSE (f[i - 1] * Base + Codepoint[t[i]]) % Mod
    <3>. SUFFICES ASSUME NEW i \in 0..Len(t)
                  PROVE  f[i] = IF i = 0 THEN 0 ELSE (f[i - 1] * Base + Codepoint[t[i]]) % Mod
      OBVIOUS
    <3>1. i # 0 => f[i - 1] \in Residue /\ i \in 1..Len(t)
      OBVIOUS
    <3>2. i # 0 => f[i] = g[i][f[i - 1]]
      <4>. HIDE DEF g
      <4>. QED  BY <1>4, <3>1
    <3>3. i # 0 => g[i][f[i - 1]] = (f[i - 1] * Base + Codepoint[t[i]]) % Mod
      BY <1>1, <3>1
    <3>. QED  BY <1>4, <3>2, <3>3, Zenon
  <2>. DEFINE r == [i \in 0..Len(t) |-> IF i = 0 THEN 0 ELSE (f[i - 1] * Base + Codepoint[t[i]]) % Mod]
  <2>2. \A i \in 0..Len(t) : f[i] = r[i]
    BY <2>1, Zenon
  <2>3. DOMAIN r = 0..Len(t) /\ DOMAIN f = 0..Len(t) /\ r = [i \in DOMAIN r |-> r[i]]
    OBVIOUS
  <2>4. f = r
    <3>. HIDE DEF r
    <3>. QED  BY <2>2, <2>3
  <2>. QED  BY <2>4
<1>. DEFINE h == CHOOSE h : h = [i \in 0..Len(t) |->
                    IF i = 0 THEN 0 ELSE (h[i - 1] * Base + Codepoint[t[i]]) % Mod]
<1>6. h = [i \in 0..Len(t) |-> IF i = 0 THEN 0 ELSE (h[i - 1] * Base + Codepoint[t[i]]) % Mod]
  BY <1>5, Zenon
<1>7. HashOf(t) = h[Len(t)]
  BY DEF HashOf
<1>. HIDE DEF h
<1>8. h \in [0..Len(t) -> Residue]
  <2>. DEFINE P == {i \in 0..Len(t) : h[i] \in Residue}
              r == [i \in 0..Len(t) |-> IF i = 0 THEN 0 ELSE (h[i - 1] * Base + Codepoint[t[i]]) % Mod]
  <2>0. \A i \in 0..Len(t) : h[i] = IF i = 0 THEN 0 ELSE (h[i - 1] * Base + Codepoint[t[i]]) % Mod
    <3>1. \A i \in 0..Len(t) : r[i] = IF i = 0 THEN 0 ELSE (h[i - 1] * Base + Codepoint[t[i]]) % Mod
      BY Zenon
    <3>. QED  BY <1>6, <3>1, Zenon
  <2>1. 0 \in P
    <3>1. h[0] = 0
      BY <2>0
    <3>. QED  BY <3>1, ModType
  <2>2. ASSUME NEW i \in 1..Len(t), i - 1 \in P PROVE i \in P
    <3>1. h[i] = (h[i - 1] * Base + Codepoint[t[i]]) % Mod
      <4>1. i \in 0..Len(t) /\ i # 0
        OBVIOUS
      <4>. QED  BY <2>0, <4>1, Zenon
    <3>2. t[i] \in Character /\ h[i - 1] \in Residue
      BY <2>2, ElementOfSeq
    <3>3. h[i] \in Residue
      BY <3>1, <3>2, HashTurnType
    <3>. QED  BY <3>3
  <2>3. 0..Len(t) \subseteq P
    <3>. HIDE DEF P
    <3>. QED  BY <2>1, <2>2, EveryPosition
  <2>4. DOMAIN h = 0..Len(t) /\ h = [i \in 0..Len(t) |-> h[i]]
    <3>1. DOMAIN r = 0..Len(t) /\ r = [i \in DOMAIN r |-> r[i]]
      OBVIOUS
    <3>. HIDE DEF r
    <3>2. h = r
      BY <1>6 DEF r
    <3>. QED  BY <3>1, <3>2
  <2>. QED  BY <2>3, <2>4
<1>. QED  BY <1>6, <1>7, <1>8, Zenon DEF IsHashTable

LEMMA HashEmpty == HashOf(<<>>) = 0
<1>1. PICK h : IsHashTable(<<>>, h) /\ HashOf(<<>>) = h[Len(<<>>)]
  <2>1. <<>> \in Seq(Character)
    OBVIOUS
  <2>. QED  BY <2>1, HashTable
<1>2. Len(<<>>) = 0
  OBVIOUS
<1>3. h[0] = 0
  BY <1>1, <1>2 DEF IsHashTable
<1>. QED  BY <1>1, <1>2, <1>3

LEMMA HashType ==
  ASSUME NEW t \in Seq(Character)
  PROVE  HashOf(t) \in Residue
<1>1. PICK h : IsHashTable(t, h) /\ HashOf(t) = h[Len(t)]
  BY HashTable
<1>2. Len(t) \in 0..Len(t)
  OBVIOUS
<1>3. h \in [0..Len(t) -> Residue]
  BY <1>1, Zenon DEF IsHashTable
<1>. QED  BY <1>1, <1>2, <1>3

LEMMA HashStep ==
  ASSUME NEW u \in Seq(Character), NEW c \in Character
  PROVE  HashOf(Append(u, c)) = (HashOf(u) * Base + Codepoint[c]) % Mod
<1>. DEFINE t == Append(u, c)
            n == Len(u)
<1>1. /\ t \in Seq(Character) /\ n \in Nat /\ Len(t) = n + 1 /\ t[n + 1] = c
      /\ \A i \in 1..n : t[i] = u[i]
  OBVIOUS
<1>. HIDE DEF t
<1>2. PICK a : IsHashTable(t, a) /\ HashOf(t) = a[n + 1]
  BY <1>1, HashTable
<1>3. PICK b : IsHashTable(u, b) /\ HashOf(u) = b[n]
  BY HashTable
<1>4. \A i \in 0..(n + 1) : a[i] = IF i = 0 THEN 0 ELSE (a[i - 1] * Base + Codepoint[t[i]]) % Mod
  <2>. DEFINE r == [i \in 0..(n + 1) |->
                      IF i = 0 THEN 0 ELSE (a[i - 1] * Base + Codepoint[t[i]]) % Mod]
  <2>1. a = r
    BY <1>1, <1>2, Zenon DEF IsHashTable
  <2>2. \A i \in 0..(n + 1) : r[i] = IF i = 0 THEN 0 ELSE (a[i - 1] * Base + Codepoint[t[i]]) % Mod
    BY Zenon
  <2>. QED  BY <2>1, <2>2, Zenon
<1>5. \A i \in 0..n : b[i] = IF i = 0 THEN 0 ELSE (b[i - 1] * Base + Codepoint[u[i]]) % Mod
  <2>. DEFINE r == [i \in 0..n |->
                      IF i = 0 THEN 0 ELSE (b[i - 1] * Base + Codepoint[u[i]]) % Mod]
  <2>1. b = r
    BY <1>3, Zenon DEF IsHashTable
  <2>2. \A i \in 0..n : r[i] = IF i = 0 THEN 0 ELSE (b[i - 1] * Base + Codepoint[u[i]]) % Mod
    BY Zenon
  <2>. QED  BY <2>1, <2>2, Zenon
<1>. DEFINE P == {i \in 0..n : a[i] = b[i]}
<1>6. 0 \in P
  BY <1>1, <1>4, <1>5
<1>7. ASSUME NEW i \in 1..n, i - 1 \in P PROVE i \in P
  <2>0. i \in 0..n /\ i \in 0..(n + 1) /\ i # 0
    BY <1>1
  <2>1. /\ a[i] = (a[i - 1] * Base + Codepoint[t[i]]) % Mod
        /\ b[i] = (b[i - 1] * Base + Codepoint[u[i]]) % Mod
    BY <1>4, <1>5, <2>0, Zenon
  <2>2. a[i - 1] = b[i - 1] /\ t[i] = u[i]
    BY <1>1, <1>7
  <2>3. a[i] = b[i]
    BY <2>1, <2>2, Zenon
  <2>. QED  BY <2>0, <2>3
<1>8. a[n] = b[n]
  <2>1. n \in 0..n
    BY <1>1
  <2>2. 0..n \subseteq P
    <3>. HIDE DEF P, n
    <3>. QED  BY <1>1, <1>6, <1>7, EveryPosition
  <2>. QED  BY <2>1, <2>2
<1>9. a[n + 1] = (a[n] * Base + Codepoint[c]) % Mod
  <2>1. n + 1 \in 0..(n + 1) /\ n + 1 # 0 /\ (n + 1) - 1 = n
    BY <1>1
  <2>2. a[n + 1] = (a[(n + 1) - 1] * Base + Codepoint[t[n + 1]]) % Mod
    BY <1>4, <2>1, Zenon
  <2>. QED  BY <1>1, <2>1, <2>2, Zenon
<1>. QED  BY <1>2, <1>3, <1>8, <1>9, Zenon DEF t

LEMMA PowerTable ==
  ASSUME NEW w \in Nat \ {0}
  PROVE  \E p : /\ p \in [0..(w - 1) -> Nat]
                /\ p[0] = 1
                /\ \A k \in 1..(w - 1) : p[k] = Base * p[k - 1]
                /\ TopPower(w) = p[w - 1] % Mod
<1>. DEFINE n == w - 1
            g == [i \in 1..n |-> [x \in Nat |-> Base * x]]
<1>1. n \in Nat /\ 1 \in Nat
  OBVIOUS
<1>2. ASSUME NEW i \in 1..n, NEW x \in Nat
      PROVE  g[i][x] = Base * x /\ g[i][x] \in Nat
  BY ModType
<1>. HIDE DEF n
<1>3. PICK f \in [0..n -> Nat] : f[0] = 1 /\ \A i \in 1..n : f[i] = g[i][f[i - 1]]
  <2>. HIDE DEF g
  <2>1. \A i \in 1..n : \A x \in Nat : g[i][x] \in Nat
    BY <1>2
  <2>2. PICK f : Along(n, Nat, 1, g, f)
    BY <1>1, <2>1, Recursion
  <2>. QED  BY <2>2 DEF Along
<1>4. f = [k \in 0..n |-> IF k = 0 THEN 1 ELSE Base * f[k - 1]]
  <2>. DEFINE r == [k \in 0..n |-> IF k = 0 THEN 1 ELSE Base * f[k - 1]]
  <2>1. ASSUME NEW k \in 0..n PROVE f[k] = r[k]
    <3>1. k # 0 => k \in 1..n /\ f[k - 1] \in Nat
      BY <1>1
    <3>2. k # 0 => f[k] = Base * f[k - 1]
      <4>. HIDE DEF g
      <4>. QED  BY <1>2, <1>3, <3>1
    <3>3. r[k] = IF k = 0 THEN 1 ELSE Base * f[k - 1]
      BY Zenon
    <3>. QED  BY <1>3, <3>2, <3>3, Zenon
  <2>2. DOMAIN r = 0..n /\ DOMAIN f = 0..n /\ r = [k \in DOMAIN r |-> r[k]]
    OBVIOUS
  <2>3. f = r
    <3>. HIDE DEF r
    <3>. QED  BY <2>1, <2>2
  <2>. QED  BY <2>3
<1>. DEFINE p == CHOOSE p : p = [k \in 0..n |-> IF k = 0 THEN 1 ELSE Base * p[k - 1]]
<1>5. p = [k \in 0..n |-> IF k = 0 THEN 1 ELSE Base * p[k - 1]]
  BY <1>4, Zenon
<1>6. TopPower(w) = p[n] % Mod
  BY DEF TopPower, n
<1>. HIDE DEF p
<1>7. \A k \in 0..n : p[k] = IF k = 0 THEN 1 ELSE Base * p[k - 1]
  <2>. DEFINE r == [k \in 0..n |-> IF k = 0 THEN 1 ELSE Base * p[k - 1]]
  <2>1. \A k \in 0..n : r[k] = IF k = 0 THEN 1 ELSE Base * p[k - 1]
    BY Zenon
  <2>2. p = r
    BY <1>5, Zenon
  <2>. QED  BY <2>1, <2>2, Zenon
<1>8. p[0] = 1 /\ \A k \in 1..n : p[k] = Base * p[k - 1]
  <2>1. 0 \in 0..n /\ \A k \in 1..n : k \in 0..n /\ k # 0
    BY <1>1
  <2>. QED  BY <1>7, <2>1, Zenon
<1>9. p \in [0..n -> Nat]
  <2>. DEFINE P == {k \in 0..n : p[k] \in Nat}
  <2>1. 0 \in P
    BY <1>1, <1>8
  <2>2. ASSUME NEW k \in 1..n, k - 1 \in P PROVE k \in P
    <3>1. p[k - 1] \in Nat /\ k \in 0..n
      BY <1>1, <2>2
    <3>2. p[k] = Base * p[k - 1]
      BY <1>8
    <3>. QED  BY <3>1, <3>2, ModType
  <2>3. 0..n \subseteq P
    <3>. HIDE DEF P
    <3>. QED  BY <1>1, <2>1, <2>2, EveryPosition
  <2>4. DOMAIN p = 0..n /\ p = [k \in 0..n |-> p[k]]
    <3>. DEFINE r == [k \in 0..n |-> IF k = 0 THEN 1 ELSE Base * p[k - 1]]
    <3>1. DOMAIN r = 0..n /\ r = [k \in DOMAIN r |-> r[k]]
      OBVIOUS
    <3>2. p = r
      BY <1>5, Zenon
    <3>. HIDE DEF r
    <3>. QED  BY <3>1, <3>2
  <2>. QED  BY <2>3, <2>4
<1>. QED  BY <1>6, <1>8, <1>9 DEF n

(* The first character of a window counts with the power of its place.      *)
LEMMA Place ==
  ASSUME NEW w \in Nat \ {0}, NEW c \in Character, NEW p \in [0..(w - 1) -> Nat],
         p[0] = 1, \A k \in 1..(w - 1) : p[k] = Base * p[k - 1],
         NEW v \in Seq(Character), Len(v) <= w - 1
  PROVE  \E z \in Int : HashOf(<<c>> \o v) = Codepoint[c] * p[Len(v)] + HashOf(v) + z * Mod
<1>. DEFINE C == Codepoint[c]
            Good(u) == \E z \in Int : HashOf(<<c>> \o u) = C * p[Len(u)] + HashOf(u) + z * Mod
            S == {u \in Seq(Character) : Len(u) <= w - 1 => Good(u)}
<1>0. C \in Nat /\ Base \in Nat /\ Mod \in Nat \ {0}
  BY CodepointType, ModType
<1>1. <<>> \in S
  <2>1. <<c>> \o <<>> = Append(<<>>, c) /\ <<>> \in Seq(Character) /\ Len(<<>>) = 0
    OBVIOUS
  <2>2. HashOf(<<c>> \o <<>>) = (0 * Base + C) % Mod
    BY <2>1, HashEmpty, HashStep, Zenon
  <2>3. 0 * Base + C = C
    BY <1>0
  <2>4. PICK z \in Int : C = z * Mod + (C % Mod)
    <3>1. C \in Int
      BY <1>0
    <3>. QED  BY <3>1, Reduced, Zenon
  <2>5. C % Mod \in Int
    <3>1. C \in Int
      BY <1>0
    <3>. QED  BY <3>1, Reduced, Zenon
  <2>6. C % Mod = C * 1 + 0 + (-z) * Mod
    <3>. DEFINE r == C % Mod  zm == z * Mod
    <3>1. r \in Int /\ zm \in Int /\ C = zm + r /\ (-z) * Mod = -zm
      BY <1>0, <2>4, <2>5
    <3>. HIDE DEF r, zm, C
    <3>2. r = C * 1 + 0 + (-z) * Mod
      BY <1>0, <3>1
    <3>. QED  BY <3>2 DEF r
  <2>7. HashOf(<<c>> \o <<>>) = C * p[Len(<<>>)] + HashOf(<<>>) + (-z) * Mod
    BY <2>1, <2>2, <2>3, <2>6, HashEmpty, Zenon
  <2>8. -z \in Int
    OBVIOUS
  <2>9. Good(<<>>)
    BY <2>7, <2>8, Zenon
  <2>. HIDE DEF Good
  <2>. QED  BY <2>1, <2>9
<1>2. ASSUME NEW u \in Seq(Character), NEW d \in Character, u \in S
      PROVE  Append(u, d) \in S
  <2>. DEFINE t == Append(u, d)
              k == Len(u)
              D == Codepoint[d]
  <2>1. /\ t \in Seq(Character) /\ Len(t) = k + 1 /\ k \in Nat
        /\ <<c>> \o t = Append(<<c>> \o u, d) /\ <<c>> \o u \in Seq(Character)
    OBVIOUS
  <2>. HIDE DEF t
  <2>2. ASSUME Len(t) <= w - 1 PROVE Good(t)
    <3>1. k + 1 \in 1..(w - 1) /\ k \in 0..(w - 1) /\ (k + 1) - 1 = k /\ k <= w - 1
      BY <2>1, <2>2
    <3>2. p[k + 1] = Base * p[k] /\ p[k] \in Nat
      BY <3>1
    <3>3. Good(u)
      <4>. HIDE DEF Good
      <4>. QED  BY <1>2, <3>1
    <3>4. PICK z \in Int : HashOf(<<c>> \o u) = C * p[k] + HashOf(u) + z * Mod
      BY <3>3
    <3>. DEFINE H == HashOf(<<c>> \o u)
                h == HashOf(u)
    <3>5. H \in Nat /\ h \in Nat /\ D \in Nat
      <4>1. H \in Residue /\ h \in Residue
        BY <2>1, HashType
      <4>. QED  BY <4>1, CodepointType, ModType DEF Residue
    <3>6. HashOf(<<c>> \o t) = (H * Base + D) % Mod
      BY <2>1, HashStep, Zenon
    <3>7. HashOf(t) = (h * Base + D) % Mod
      BY HashStep, Zenon DEF t
    <3>. HIDE DEF H, h
    <3>8. H * Base + D \in Int /\ h * Base + D \in Int
      BY <1>0, <3>5
    <3>9. /\ HashOf(<<c>> \o t) \in Int
          /\ \E x \in Int : H * Base + D = x * Mod + HashOf(<<c>> \o t)
      BY <3>6, <3>8, Reduced, Zenon
    <3>10. /\ HashOf(t) \in Int
           /\ \E y \in Int : h * Base + D = y * Mod + HashOf(t)
      BY <3>7, <3>8, Reduced, Zenon
    <3>11. PICK x \in Int, y \in Int : /\ H * Base + D = x * Mod + HashOf(<<c>> \o t)
                                     /\ h * Base + D = y * Mod + HashOf(t)
      BY <3>9, <3>10
    <3>. HIDE DEF C, D, k
    <3>12. H * Base = C * (Base * p[k]) + h * Base + (z * Base) * Mod
      <4>1. H = C * p[k] + h + z * Mod
        BY <3>4 DEF H, h
      <4>2. /\ H \in Int /\ C \in Int /\ p[k] \in Int /\ h \in Int /\ Base \in Int /\ Mod \in Int
            /\ z \in Int
        BY <1>0, <3>2, <3>5
      <4>3. (C * p[k] + h + z * Mod) * Base = C * (Base * p[k]) + h * Base + (z * Base) * Mod
        <5>. DEFINE P == p[k]
        <5>1. P \in Int
          BY <4>2
        <5>. HIDE DEF P
        <5>2. (C * P + h + z * Mod) * Base = C * (Base * P) + h * Base + (z * Base) * Mod
          BY <4>2, <5>1, Spread
        <5>. QED  BY <5>2 DEF P
      <4>. QED  BY <4>1, <4>3, Zenon
    <3>13. HashOf(<<c>> \o t) = C * p[k + 1] + HashOf(t) + (z * Base + y - x) * Mod
      <4>1. C * p[k + 1] = C * (Base * p[k])
        BY <3>2
      <4>2. /\ H * Base \in Int /\ h * Base \in Int /\ D \in Int /\ C * (Base * p[k]) \in Int
            /\ z * Base \in Int /\ Mod \in Int
        BY <1>0, <3>2, <3>5
      <4>. DEFINE A == H * Base  a == h * Base  q == C * (Base * p[k])  zz == z * Base
                  r == HashOf(<<c>> \o t)  s == HashOf(t)
      <4>3. r = q + s + (zz + y - x) * Mod
        <5>1. /\ A \in Int /\ a \in Int /\ D \in Int /\ q \in Int /\ zz \in Int /\ Mod \in Int
              /\ r \in Int /\ s \in Int
              /\ A + D = x * Mod + r /\ a + D = y * Mod + s /\ A = q + a + zz * Mod
          BY <3>9, <3>10, <3>11, <3>12, <4>2, Zenon
        <5>. HIDE DEF A, a, q, zz, r, s
        <5>. QED  BY <5>1, Carried
      <4>. QED  BY <4>1, <4>3
    <3>14. z * Base + y - x \in Int
      BY <1>0
    <3>. QED  BY <2>1, <3>13, <3>14 DEF C
  <2>. HIDE DEF Good
  <2>. QED  BY <2>1, <2>2 DEF t
<1>3. Seq(Character) \subseteq S
  <2>. HIDE DEF S
  <2>. QED  BY <1>1, <1>2, EverySequence
<1>4. Good(v)
  <2>. HIDE DEF Good
  <2>. QED  BY <1>3
<1>. QED  BY <1>4

(* Rolling the window on by one is hashing the next window.                 *)
LEMMA RollIsHash ==
  ASSUME NEW v \in Seq(Character), NEW c \in Character, NEW d \in Character
  PROVE  Rolled(HashOf(<<c>> \o v), Len(v) + 1, c, d) = HashOf(Append(v, d))
<1>. DEFINE w == Len(v) + 1
            C == Codepoint[c]
            H == HashOf(<<c>> \o v)
            h == HashOf(v)
<1>1. w \in Nat \ {0} /\ Len(v) = w - 1 /\ Len(v) <= w - 1 /\ <<c>> \o v \in Seq(Character)
  OBVIOUS
<1>2. C \in Nat /\ Base \in Nat /\ Mod \in Nat \ {0}
  BY CodepointType, ModType
<1>3. H \in Residue /\ h \in Residue
  BY <1>1, HashType
<1>. HIDE DEF w, C, H, h
<1>4. PICK p : /\ p \in [0..(w - 1) -> Nat]
               /\ p[0] = 1
               /\ \A k \in 1..(w - 1) : p[k] = Base * p[k - 1]
               /\ TopPower(w) = p[w - 1] % Mod
  BY <1>1, PowerTable
<1>. DEFINE P == p[w - 1]
            T == TopPower(w)
<1>5. P \in Nat
  BY <1>1, <1>4
<1>6. PICK z \in Int : H = C * P + h + z * Mod
  <2>1. \E z \in Int : HashOf(<<c>> \o v) = Codepoint[c] * p[Len(v)] + HashOf(v) + z * Mod
    BY <1>1, <1>4, Place
  <2>. QED  BY <1>1, <2>1 DEF H, h, C
<1>7. PICK y \in Int : P = y * Mod + T /\ T \in Int
  <2>1. P \in Int /\ T = P % Mod
    BY <1>4, <1>5
  <2>. QED  BY <2>1, Reduced, Zenon
<1>. HIDE DEF P, T
<1>8. PICK x \in Int : H - C * T = x * Mod + ((H - C * T) % Mod)
  <2>1. H - C * T \in Int
    BY <1>2, <1>3, <1>7 DEF Residue
  <2>. QED  BY <1>2, <2>1, Remainder
<1>9. (H - C * T) % Mod \in Residue
  <2>1. H - C * T \in Int
    BY <1>2, <1>3, <1>7 DEF Residue
  <2>. QED  BY <1>2, <2>1, Remainder DEF Residue
<1>10. (H - C * T) % Mod = h
  <2>. DEFINE r == (H - C * T) % Mod
  <2>1. r = H - C * T - x * Mod /\ r \in Int
    <3>1. C * T \in Int /\ x * Mod \in Int /\ H \in Int /\ r \in Int
      BY <1>2, <1>3, <1>7, <1>9 DEF Residue
    <3>. QED  BY <1>8, <3>1
  <2>. HIDE DEF r
  <2>2. C * P = (C * y) * Mod + C * T
    BY <1>2, <1>7
  <2>3. (C * y + z - x) * Mod = (C * y) * Mod + z * Mod - x * Mod
    BY <1>2
  <2>4. r = h + (C * y + z - x) * Mod
    <3>1. /\ C * T \in Int /\ x * Mod \in Int /\ (C * y) * Mod \in Int /\ z * Mod \in Int
          /\ h \in Int
      BY <1>2, <1>3, <1>7 DEF Residue
    <3>. DEFINE ct == C * T  cp == C * P  xm == x * Mod  ym == (C * y) * Mod  zm == z * Mod
    <3>2. /\ ct \in Int /\ xm \in Int /\ ym \in Int /\ zm \in Int /\ h \in Int
          /\ r = H - ct - xm /\ H = cp + h + zm /\ cp = ym + ct
      BY <1>6, <2>1, <2>2, <3>1
    <3>3. r = h + (ym + zm - xm)
      <4>. HIDE DEF ct, cp, xm, ym, zm
      <4>1. H = (ym + ct) + h + zm
        BY <3>2
      <4>. QED  BY <3>2, <4>1
    <3>. QED  BY <2>3, <3>3, Zenon
  <2>5. C * y + z - x \in Int
    BY <1>2
  <2>6. r \in 0..(Mod - 1) /\ h \in 0..(Mod - 1)
    BY <1>3, <1>9 DEF Residue, r
  <2>7. r = h
    BY <1>2, <2>4, <2>5, <2>6, SameRemainder
  <2>. QED  BY <2>7 DEF r
<1>11. Rolled(H, w, c, d) = (h * Base + Codepoint[d]) % Mod
  BY <1>10, Zenon DEF Rolled, C, T
<1>. QED  BY <1>11, HashStep, Zenon DEF H, w, h

-----------------------------------------------------------------------------
(* Parts of a text, and what the passes make of a text.                    *)

LEMMA PartOf ==
  ASSUME NEW t \in Seq(Character), NEW a \in Nat, NEW b \in Nat, a <= b, b <= Len(t)
  PROVE  /\ SubSeq(t, a + 1, b) \in Seq(Character)
         /\ Len(SubSeq(t, a + 1, b)) = b - a
         /\ \A i \in 1..(b - a) : SubSeq(t, a + 1, b)[i] = t[a + i]
<1>1. SubSeq(t, a + 1, b) \in Seq(Character)
  OBVIOUS
<1>2. Len(SubSeq(t, a + 1, b)) = b - a
  OBVIOUS
<1>3. ASSUME NEW i \in 1..(b - a) PROVE SubSeq(t, a + 1, b)[i] = t[a + i]
  OBVIOUS
<1>. QED  BY <1>1, <1>2, <1>3

LEMMA FrontLast ==
  ASSUME NEW out \in Seq(Character), out # <<>>
  PROVE  /\ Front(out) \in Seq(Character) /\ Last(out) \in Character
         /\ Len(Front(out)) = Len(out) - 1
         /\ \A i \in 1..(Len(out) - 1) : Front(out)[i] = out[i]
         /\ out = Append(Front(out), Last(out))
<1>. DEFINE n == Len(out)
            f == SubSeq(out, 1, n - 1)
<1>1. n \in Nat /\ n # 0 /\ n - 1 \in 0..n /\ 1 \in 1..(n + 1) /\ n \in 1..n
  OBVIOUS
<1>2. f \in Seq(Character) /\ Len(f) = n - 1 /\ \A i \in 1..(n - 1) : f[i] = out[i]
  <2>1. 0 \in Nat /\ n - 1 \in Nat /\ 0 <= n - 1 /\ n - 1 <= Len(out) /\ 0 + 1 = 1 /\ (n - 1) - 0 = n - 1
    BY <1>1
  <2>2. /\ SubSeq(out, 0 + 1, n - 1) \in Seq(Character)
        /\ Len(SubSeq(out, 0 + 1, n - 1)) = (n - 1) - 0
        /\ \A i \in 1..((n - 1) - 0) : SubSeq(out, 0 + 1, n - 1)[i] = out[0 + i]
    <3>. HIDE DEF n
    <3>. QED  BY <2>1, PartOf
  <2>3. \A i \in 1..(n - 1) : 0 + i = i
    BY <1>1
  <2>. HIDE DEF n
  <2>. QED  BY <2>1, <2>2, <2>3
<1>3. out[n] \in Character
  BY <1>1, ElementOfSeq
<1>. HIDE DEF f
<1>4. out = Append(f, out[n])
  BY <1>1, <1>2, <1>3
<1>. QED  BY <1>2, <1>3, <1>4, Zenon DEF Front, Last, f

LEMMA PassType ==
  ASSUME NEW pass \in Passes, NEW t \in Seq(Character)
  PROVE  Pass(pass, t) \in Seq(Character)
<1>. DEFINE out == Passed(pass, t)
<1>1. out \in Seq(Character)
  BY PassedType
<1>2. Pass(pass, t) = out \/ (out # <<>> /\ Pass(pass, t) = Front(out))
  BY Zenon DEF Pass
<1>. HIDE DEF out
<1>3. out # <<>> => Front(out) \in Seq(Character)
  BY <1>1 DEF Front
<1>. QED  BY <1>1, <1>2, <1>3, Zenon

LEMMA IfType ==
  ASSUME NEW pass \in Passes, NEW t \in Seq(Character), NEW o \in NormalizationOptions
  PROVE  If(o, pass, t) \in Seq(Character)
<1>1. Pass(pass, t) \in Seq(Character)
  BY PassType
<1>. QED  BY <1>1, Zenon DEF If

LEMMA NormalizeType ==
  ASSUME NEW t \in Seq(Character), NEW o \in NormalizationOptions
  PROVE  Normalize(t, o) \in Seq(Character)
<1>. DEFINE a == If(o, "nfc", t)
            b == If(o, "zeroWidth", a)
            f == If(o, "caseFold", b)
            n == If(o, "whitespace", f)
<1>1. "nfc" \in Passes /\ "zeroWidth" \in Passes /\ "caseFold" \in Passes /\ "whitespace" \in Passes
  BY DEF Passes
<1>2. a \in Seq(Character)
  BY <1>1, IfType
<1>3. b \in Seq(Character)
  <2>. HIDE DEF a
  <2>. QED  BY <1>1, <1>2, IfType
<1>4. f \in Seq(Character)
  <2>. HIDE DEF b
  <2>. QED  BY <1>1, <1>3, IfType
<1>5. n \in Seq(Character)
  <2>. HIDE DEF f
  <2>. QED  BY <1>1, <1>4, IfType
<1>. QED  BY <1>5 DEF Normalize

-----------------------------------------------------------------------------
(* The windows.                                                            *)

Emitted ==
  [k \in 1..((position \div stride) + 1) |->
     Emit((k - 1) * stride, window,
          HashOf(SubSeq(text, (k - 1) * stride + 1, (k - 1) * stride + window)))]

HashTyped ==
  /\ text \in Seq(Character) /\ options \in NormalizationOptions
  /\ window \in Nat \ {0} /\ stride \in Nat \ {0} /\ position \in Nat
  /\ stage \in {"raw", "normalized", "rolling", "done"}

HashProgress ==
  /\ stage \in {"raw", "normalized"} => position = 0 /\ windows = <<>>
  /\ stage = "rolling" =>
        /\ position + window < Len(text)
        /\ value = HashOf(SubSeq(text, position + 1, position + window))
        /\ windows = Emitted
  /\ stage = "done" =>
        \/ text = <<>> /\ windows = <<>>
        \/ /\ text # <<>> /\ Len(text) <= window
           /\ windows = <<Emit(0, Len(text), HashOf(SubSeq(text, 1, Len(text))))>>
        \/ position + window = Len(text) /\ windows = Emitted

HashInv == HashTyped /\ HashProgress

LEMMA Multiples ==
  ASSUME NEW p \in Nat, NEW s \in Nat \ {0}
  PROVE  /\ p \div s \in Nat /\ (p \div s) * s \in Nat
         /\ (p \div s) * s <= p /\ p - (p \div s) * s < s
         /\ p % s = p - (p \div s) * s
<1>1. p % s \in 0..(s - 1) /\ p \div s \in Nat
  OBVIOUS
<1>2. p = (p \div s) * s + (p % s)
  OBVIOUS
<1>3. (p \div s) * s \in Nat
  BY <1>1
<1>. HIDE DEF \div, %
<1>. QED  BY <1>1, <1>2, <1>3

LEMMA Quotient ==
  ASSUME NEW p \in Nat, NEW s \in Nat \ {0}, NEW q \in Nat, NEW r \in 0..(s - 1), p = q * s + r
  PROVE  p \div s = q /\ p % s = r
<1>. DEFINE Q == p \div s  R == p % s
<1>0. Q \in Nat /\ Q * s \in Nat /\ Q * s <= p /\ p - Q * s < s /\ R = p - Q * s
  BY Multiples, Zenon
<1>. HIDE DEF Q, R
<1>1. Q \in Nat /\ R \in 0..(s - 1) /\ Q * s \in Nat /\ p = Q * s + R
  BY <1>0
<1>2. q * s \in Nat /\ (q - Q) * s = q * s - Q * s /\ q - Q \in Int
  BY <1>1
<1>3. R = r + (q - Q) * s
  BY <1>1, <1>2
<1>4. R = r
  BY <1>1, <1>2, <1>3, SameRemainder
<1>5. (q - Q) * s = 0
  BY <1>1, <1>2, <1>3, <1>4
<1>6. q = Q
  <2>1. CASE q > Q
    <3>1. (q - Q) * s >= 1
      BY <1>1, <2>1
    <3>. QED  BY <1>5, <3>1
  <2>2. CASE q < Q
    <3>1. (q - Q) * s <= -1
      BY <1>1, <2>2
    <3>. QED  BY <1>5, <3>1
  <2>. QED  BY <1>1, <2>1, <2>2
<1>. QED  BY <1>4, <1>6 DEF Q, R

LEMMA NextMultiple ==
  ASSUME NEW p \in Nat, NEW s \in Nat \ {0}
  PROVE  IF (p + 1) % s = 0
         THEN (p + 1) \div s = (p \div s) + 1 /\ ((p \div s) + 1) * s = p + 1
         ELSE (p + 1) \div s = p \div s
<1>. DEFINE q == p \div s  r == p % s
<1>0. q \in Nat /\ q * s \in Nat /\ q * s <= p /\ p - q * s < s /\ r = p - q * s
  BY Multiples, Zenon
<1>. HIDE DEF q, r
<1>1. q \in Nat /\ r \in 0..(s - 1) /\ q * s \in Nat /\ p = q * s + r /\ (q + 1) * s = q * s + s
  BY <1>0
<1>2. CASE r = s - 1
  <2>1. p + 1 = (q + 1) * s + 0 /\ p + 1 \in Nat /\ q + 1 \in Nat /\ 0 \in 0..(s - 1)
    BY <1>1, <1>2
  <2>2. (p + 1) \div s = q + 1 /\ (p + 1) % s = 0
    BY <2>1, Quotient
  <2>. QED  BY <1>1, <2>1, <2>2 DEF q
<1>3. CASE r # s - 1
  <2>1. p + 1 = q * s + (r + 1) /\ p + 1 \in Nat /\ r + 1 \in 0..(s - 1) /\ r + 1 # 0
    BY <1>1, <1>3
  <2>2. (p + 1) \div s = q /\ (p + 1) % s = r + 1
    BY <1>1, <2>1, Quotient
  <2>. QED  BY <2>1, <2>2 DEF q
<1>. QED  BY <1>2, <1>3

LEMMA InitHash == HashInit => HashInv
<1>. SUFFICES ASSUME HashInit PROVE HashInv
  OBVIOUS
<1>1. text \in Seq(Character)
  <2>1. PICK n \in 0..MaxLength, A \in Alphabets : text \in [1..n -> A]
    BY DEF HashInit
  <2>2. n \in Nat /\ A \subseteq Character
    BY <2>1, FingerprintingAssumption
  <2>3. text \in [1..n -> Character]
    BY <2>1, <2>2
  <2>. QED  BY <2>2, <2>3
<1>2. /\ options \in NormalizationOptions
      /\ window = 1 /\ stride = 1 /\ stage = "raw" /\ position = 0 /\ windows = <<>>
  BY DEF HashInit
<1>. QED  BY <1>1, <1>2 DEF HashInv, HashTyped, HashProgress

LEMMA BeginStep ==
  ASSUME HashInv, NEW c \in FingerprinterConfig, Begin(c)
  PROVE  HashInv'
<1>1. text' \in Seq(Character)
  <2>1. text \in Seq(Character) /\ options \in NormalizationOptions
    BY DEF HashInv, HashTyped
  <2>2. text' = Normalize(text, options)
    BY DEF Begin
  <2>. QED  BY <2>1, <2>2, NormalizeType
<1>2. /\ stage = "raw" /\ stage' = "normalized"
      /\ position' = position /\ windows' = windows /\ options' = options
      /\ window' = c.window /\ stride' = c.stride
  BY DEF Begin
<1>3. c.window \in Nat \ {0} /\ c.stride \in Nat \ {0}
  BY FingerprintingAssumption DEF FingerprinterConfig
<1>4. position = 0 /\ windows = <<>> /\ options \in NormalizationOptions
  BY <1>2 DEF HashInv, HashTyped, HashProgress
<1>. QED  BY <1>1, <1>2, <1>3, <1>4 DEF HashInv, HashTyped, HashProgress

LEMMA PrimeStep ==
  ASSUME HashInv, Prime
  PROVE  HashInv'
<1>1. /\ text \in Seq(Character) /\ options \in NormalizationOptions
      /\ window \in Nat \ {0} /\ stride \in Nat \ {0} /\ position = 0
      /\ text' = text /\ options' = options /\ window' = window /\ stride' = stride
      /\ position' = position
  BY DEF HashInv, HashTyped, HashProgress, Prime
<1>2. HashTyped'
  <2>1. stage' \in {"rolling", "done"}
    BY DEF Prime
  <2>. QED  BY <1>1, <2>1 DEF HashTyped
<1>3. CASE Len(text) <= window
  <2>1. stage' = "done"
    BY <1>3 DEF Prime
  <2>2. windows' = IF text = <<>> THEN <<>>
                   ELSE <<Emit(0, Len(text), HashOf(SubSeq(text, 1, Len(text))))>>
    BY <1>3, Zenon DEF Prime
  <2>3. Emit(0, Len(text), HashOf(SubSeq(text, 1, Len(text))))' =
        Emit(0, Len(text), HashOf(SubSeq(text, 1, Len(text))))
    BY <1>1, Zenon DEF Emit
  <2>4. \/ text' = <<>> /\ windows' = <<>>
        \/ /\ text' # <<>> /\ Len(text') <= window'
           /\ windows' = <<Emit(0, Len(text), HashOf(SubSeq(text, 1, Len(text))))>>'
    BY <1>1, <1>3, <2>2, <2>3, Zenon
  <2>. QED  BY <1>2, <2>1, <2>4 DEF HashInv, HashProgress
<1>4. CASE ~ (Len(text) <= window)
  <2>1. stage' = "rolling" /\ value' = HashOf(SubSeq(text, 1, window)) /\ text # <<>>
        /\ windows' = <<Emit(0, window, HashOf(SubSeq(text, 1, window)))>>
    <3>1. text # <<>>
      BY <1>1, <1>4
    <3>2. stage' = "rolling"
      BY <1>4, Zenon DEF Prime
    <3>3. value' = HashOf(SubSeq(text, 1, window))
      BY <1>4, Zenon DEF Prime
    <3>4. windows' = <<Emit(0, window, HashOf(SubSeq(text, 1, window)))>>
      BY <1>4, <3>1, Zenon DEF Prime
    <3>. QED  BY <3>1, <3>2, <3>3, <3>4
  <2>2. position' + window' < Len(text')
    BY <1>1, <1>4
  <2>3. value' = HashOf(SubSeq(text', position' + 1, position' + window'))
    <3>1. position' + 1 = 1 /\ position' + window' = window
      BY <1>1
    <3>. QED  BY <1>1, <2>1, <3>1, Zenon
  <2>4. windows' = Emitted'
    <3>1. (position' \div stride') + 1 = 1
      <4>1. 0 \in Nat /\ 0 \in 0..(stride - 1) /\ 0 = 0 * stride + 0
        BY <1>1
      <4>2. 0 \div stride = 0
        BY <1>1, <4>1, Quotient
      <4>. QED  BY <1>1, <4>2
    <3>. DEFINE k == 1
                E(j) == Emit((j - 1) * stride, window,
                          HashOf(SubSeq(text, (j - 1) * stride + 1, (j - 1) * stride + window)))'
    <3>2. Emitted' = [j \in 1..1 |-> E(j)]
      BY <3>1, Zenon DEF Emitted
    <3>3. E(1) = Emit(0, window, HashOf(SubSeq(text, 1, window)))
      <4>1. (1 - 1) * stride = 0 /\ 0 + 1 = 1 /\ 0 + window = window
        BY <1>1
      <4>. QED  BY <1>1, <4>1, Zenon DEF Emit
    <3>4. <<E(1)>> = [j \in 1..1 |-> E(j)]
      <4>. HIDE DEF E
      <4>. QED  OBVIOUS
    <3>. HIDE DEF E
    <3>. QED  BY <2>1, <3>2, <3>3, <3>4, Zenon
  <2>. QED  BY <1>2, <2>1, <2>2, <2>3, <2>4 DEF HashInv, HashProgress
<1>. QED  BY <1>3, <1>4

(* A window and the next one have all but their outer characters in common. *)
LEMMA Neighbours ==
  ASSUME NEW t \in Seq(Character), NEW p \in Nat, NEW w \in Nat \ {0}, p + w < Len(t)
  PROVE  \E v \in Seq(Character) :
            /\ Len(v) + 1 = w
            /\ SubSeq(t, p + 1, p + w) = <<t[p + 1]>> \o v
            /\ SubSeq(t, (p + 1) + 1, (p + 1) + w) = Append(v, t[p + w + 1])
            /\ t[p + 1] \in Character /\ t[p + w + 1] \in Character
<1>. DEFINE v == SubSeq(t, (p + 1) + 1, p + w)
            a == SubSeq(t, p + 1, p + w)
            b == SubSeq(t, (p + 1) + 1, (p + 1) + w)
<1>1. /\ p + 1 \in Nat /\ p + w \in Nat /\ (p + 1) + w \in Nat /\ w \in Nat
      /\ p <= p + w /\ p + 1 <= p + w /\ p + 1 <= (p + 1) + w
      /\ p + w <= Len(t) /\ (p + 1) + w <= Len(t) /\ Len(t) \in Nat
      /\ (p + w) - p = w /\ ((p + 1) + w) - (p + 1) = w /\ (p + w) - (p + 1) = w - 1
  OBVIOUS
<1>2. v \in Seq(Character) /\ Len(v) = w - 1 /\ \A i \in 1..(w - 1) : v[i] = t[(p + 1) + i]
  <2>1. /\ v \in Seq(Character) /\ Len(v) = (p + w) - (p + 1)
        /\ \A i \in 1..((p + w) - (p + 1)) : v[i] = t[(p + 1) + i]
    BY <1>1, PartOf
  <2>. HIDE DEF v
  <2>. QED  BY <1>1, <2>1
<1>3. a \in Seq(Character) /\ Len(a) = w /\ \A i \in 1..w : a[i] = t[p + i]
  <2>1. /\ a \in Seq(Character) /\ Len(a) = (p + w) - p
        /\ \A i \in 1..((p + w) - p) : a[i] = t[p + i]
    BY <1>1, PartOf
  <2>. HIDE DEF a
  <2>. QED  BY <1>1, <2>1
<1>4. b \in Seq(Character) /\ Len(b) = w /\ \A i \in 1..w : b[i] = t[(p + 1) + i]
  <2>1. /\ b \in Seq(Character) /\ Len(b) = ((p + 1) + w) - (p + 1)
        /\ \A i \in 1..(((p + 1) + w) - (p + 1)) : b[i] = t[(p + 1) + i]
    BY <1>1, PartOf
  <2>. HIDE DEF b
  <2>. QED  BY <1>1, <2>1
<1>5. t[p + 1] \in Character /\ t[p + w + 1] \in Character
  <2>1. p + 1 \in 1..Len(t) /\ p + w + 1 \in 1..Len(t)
    BY <1>1
  <2>. QED  BY <2>1, ElementOfSeq
<1>. HIDE DEF v, a, b
<1>6. a = <<t[p + 1]>> \o v
  <2>. DEFINE x == t[p + 1]  e == <<x>> \o v
  <2>1. e \in Seq(Character) /\ Len(e) = w /\ e[1] = x /\ \A i \in 1..(w - 1) : e[i + 1] = v[i]
    BY <1>1, <1>2, <1>5
  <2>. HIDE DEF x, e
  <2>2. ASSUME NEW i \in 1..w PROVE a[i] = e[i]
    <3>1. CASE i = 1
      BY <1>1, <1>3, <2>1, <3>1 DEF x
    <3>2. CASE i # 1
      <4>1. i - 1 \in 1..(w - 1) /\ (i - 1) + 1 = i /\ (p + 1) + (i - 1) = p + i
        BY <3>2
      <4>2. e[i] = v[i - 1] /\ v[i - 1] = t[p + i]
        BY <1>2, <2>1, <4>1
      <4>. QED  BY <1>3, <4>2
    <3>. QED  BY <3>1, <3>2
  <2>3. Len(a) = Len(e) /\ \A i \in 1..Len(a) : a[i] = e[i]
    BY <1>3, <2>1, <2>2, Zenon
  <2>4. a = e
    BY <1>3, <2>1, <2>3, SeqEqual, Zenon
  <2>. QED  BY <2>4 DEF e, x
<1>7. b = Append(v, t[p + w + 1])
  <2>. DEFINE x == t[p + w + 1]  e == Append(v, x)
  <2>1. e \in Seq(Character) /\ Len(e) = w /\ e[w] = x /\ \A i \in 1..(w - 1) : e[i] = v[i]
    BY <1>1, <1>2, <1>5
  <2>. HIDE DEF x, e
  <2>2. ASSUME NEW i \in 1..w PROVE b[i] = e[i]
    <3>1. CASE i = w
      <4>1. (p + 1) + w = p + w + 1
        OBVIOUS
      <4>. QED  BY <1>1, <1>4, <2>1, <3>1, <4>1 DEF x
    <3>2. CASE i # w
      <4>1. i \in 1..(w - 1)
        BY <3>2
      <4>. QED  BY <1>2, <1>4, <2>1, <4>1
    <3>. QED  BY <3>1, <3>2
  <2>3. Len(b) = Len(e) /\ \A i \in 1..Len(b) : b[i] = e[i]
    BY <1>4, <2>1, <2>2, Zenon
  <2>4. b = e
    BY <1>4, <2>1, <2>3, SeqEqual, Zenon
  <2>. QED  BY <2>4 DEF e, x
<1>8. Len(v) + 1 = w
  BY <1>1, <1>2
<1>. QED  BY <1>2, <1>5, <1>6, <1>7, <1>8 DEF a, b

LEMMA RollStep ==
  ASSUME HashInv, Roll
  PROVE  HashInv'
<1>1. /\ text \in Seq(Character) /\ options \in NormalizationOptions
      /\ window \in Nat \ {0} /\ stride \in Nat \ {0} /\ position \in Nat
      /\ position + window < Len(text)
      /\ value = HashOf(SubSeq(text, position + 1, position + window))
      /\ windows = Emitted
  BY DEF HashInv, HashTyped, HashProgress, Roll
<1>2. /\ text' = text /\ options' = options /\ window' = window /\ stride' = stride
      /\ position' = position + 1
      /\ stage' = IF position' = Len(text) - window THEN "done" ELSE "rolling"
      /\ value' = Rolled(value, window, text[position + 1], text[position + window + 1])
      /\ windows' = IF position' % stride = 0
                    THEN Append(windows, Emit(position', window, value')) ELSE windows
  BY DEF Roll
<1>3. HashTyped'
  <2>1. stage' \in {"rolling", "done"} /\ position' \in Nat
    BY <1>1, <1>2
  <2>. QED  BY <1>1, <1>2, <2>1 DEF HashTyped
<1>4. value' = HashOf(SubSeq(text, (position + 1) + 1, (position + 1) + window))
  <2>1. PICK v \in Seq(Character) :
            /\ Len(v) + 1 = window
            /\ SubSeq(text, position + 1, position + window) = <<text[position + 1]>> \o v
            /\ SubSeq(text, (position + 1) + 1, (position + 1) + window)
                 = Append(v, text[position + window + 1])
            /\ text[position + 1] \in Character /\ text[position + window + 1] \in Character
    BY <1>1, Neighbours
  <2>2. Rolled(HashOf(<<text[position + 1]>> \o v), Len(v) + 1, text[position + 1], text[position + window + 1])
          = HashOf(Append(v, text[position + window + 1]))
    BY <2>1, RollIsHash, Zenon
  <2>. QED  BY <1>1, <1>2, <2>1, <2>2, Zenon
<1>5. windows' = Emitted'
  <2>. DEFINE q == position \div stride
              E(j) == Emit((j - 1) * stride, window,
                        HashOf(SubSeq(text, (j - 1) * stride + 1, (j - 1) * stride + window)))
              F(j) == E(j)'
  <2>1. windows = [j \in 1..(q + 1) |-> E(j)]
    BY <1>1, Zenon DEF Emitted
  <2>2. Emitted' = [j \in 1..((position' \div stride') + 1) |-> E(j)']
    BY Zenon DEF Emitted
  <2>3. \A j : E(j)' = E(j)
    BY <1>2, Zenon DEF Emit
  <2>4. Emitted' = [j \in 1..(((position + 1) \div stride) + 1) |-> E(j)]
    BY <1>2, <2>2, <2>3, Zenon
  <2>5. IF (position + 1) % stride = 0
        THEN (position + 1) \div stride = q + 1 /\ (q + 1) * stride = position + 1
        ELSE (position + 1) \div stride = q
    BY <1>1, NextMultiple, Zenon
  <2>6. q \in Nat
    BY <1>1, Multiples, Zenon
  <2>7. CASE (position + 1) % stride = 0
    <3>1. windows' = Append(windows, Emit(position + 1, window, value'))
      BY <1>2, <2>7, Zenon
    <3>2. E(q + 2) = Emit(position + 1, window, value')
      <4>1. (q + 2) - 1 = q + 1
        BY <2>6
      <4>2. ((q + 2) - 1) * stride = position + 1
        BY <2>5, <2>7, <4>1, Zenon
      <4>. QED  BY <1>4, <4>2, Zenon
    <3>3. Emitted' = [j \in 1..(q + 2) |-> E(j)]
      <4>1. ((position + 1) \div stride) + 1 = q + 2
        BY <2>5, <2>6, <2>7
      <4>. QED  BY <2>4, <4>1, Zenon
    <3>4. Append([j \in 1..(q + 1) |-> E(j)], E(q + 2)) = [j \in 1..(q + 2) |-> E(j)]
      <4>. HIDE DEF E, q
      <4>. QED  BY <2>6
    <3>. HIDE DEF E
    <3>. QED  BY <2>1, <3>1, <3>2, <3>3, <3>4, Zenon
  <2>8. CASE (position + 1) % stride # 0
    <3>1. windows' = windows
      BY <1>2, <2>8, Zenon
    <3>2. (position + 1) \div stride = q
      BY <2>5, <2>8, Zenon
    <3>. QED  BY <2>1, <2>4, <3>1, <3>2, Zenon
  <2>. QED  BY <2>7, <2>8, Zenon
<1>6. CASE position' = Len(text) - window
  <2>1. position' + window' = Len(text') /\ stage' = "done"
    <3>1. Len(text) \in Nat
      BY <1>1
    <3>. QED  BY <1>1, <1>2, <1>6, <3>1
  <2>. QED  BY <1>3, <1>5, <2>1 DEF HashInv, HashProgress
<1>7. CASE position' # Len(text) - window
  <2>1. position' + window' < Len(text') /\ stage' = "rolling"
    <3>1. Len(text) \in Nat
      BY <1>1
    <3>. QED  BY <1>1, <1>2, <1>7, <3>1
  <2>2. value' = HashOf(SubSeq(text', position' + 1, position' + window'))
    BY <1>2, <1>4, Zenon
  <2>. QED  BY <1>3, <1>5, <2>1, <2>2 DEF HashInv, HashProgress
<1>. QED  BY <1>6, <1>7

LEMMA HashInvariant == HashSpec => []HashInv
<1>1. HashInv /\ [HashNext]_hashVars => HashInv'
  <2>. SUFFICES ASSUME HashInv, [HashNext]_hashVars PROVE HashInv'
    OBVIOUS
  <2>1. CASE UNCHANGED hashVars
    BY <2>1 DEF hashVars, HashInv, HashTyped, HashProgress, Emitted, Emit
  <2>2. CASE HashNext
    BY <2>2, BeginStep, PrimeStep, RollStep, Zenon DEF HashNext
  <2>. QED  BY <2>1, <2>2
<1>. QED  BY InitHash, <1>1, PTL DEF HashSpec

LEMMA EmitType ==
  ASSUME HashTyped, NEW a \in Nat, NEW n \in Nat \ {0}, a + n <= Len(text), NEW h \in Residue
  PROVE  /\ Emit(a, n, h) \in WindowHash
         /\ Emit(a, n, h).offset = a /\ Emit(a, n, h).length = n
         /\ Emit(a, n, h).fingerprint = SubSeq(text, a + 1, a + n)
<1>1. text \in Seq(Character)
  BY DEF HashTyped
<1>2. SubSeq(text, a + 1, a + n) \in Seq(Character)
  <2>1. a <= a + n /\ a + n \in Nat
    OBVIOUS
  <2>. QED  BY <1>1, <2>1, PartOf
<1>. DEFINE f == SubSeq(text, a + 1, a + n)
<1>. HIDE DEF f
<1>4. Emit(a, n, h) = [offset |-> a, length |-> n, rolling |-> h, fingerprint |-> f]
  BY DEF Emit, f
<1>5. f \in Seq(Character)
  BY <1>2 DEF f
<1>6. Emit(a, n, h) \in WindowHash
  <2>1. h \in 0..(Mod - 1)
    BY Zenon DEF Residue
  <2>2. [offset |-> a, length |-> n, rolling |-> h, fingerprint |-> f] \in WindowHash
    BY <1>5, <2>1, Zenon DEF WindowHash
  <2>. QED  BY <1>4, <2>2, Zenon
<1>7. /\ Emit(a, n, h).offset = a /\ Emit(a, n, h).length = n
      /\ Emit(a, n, h).fingerprint = f
  BY <1>4
<1>. QED  BY <1>6, <1>7, Zenon DEF f

(* The windows of a text that is longer than one, up to `position`.         *)
LEMMA EmittedIs ==
  ASSUME HashTyped, position + window <= Len(text), windows = Emitted
  PROVE  /\ windows \in Seq(WindowHash) /\ windows # <<>>
         /\ \A k \in DOMAIN windows :
              LET offset == (k - 1) * stride
              IN  /\ offset \in Nat /\ offset <= position
                  /\ windows[k] = Emit(offset, window, HashOf(SubSeq(text, offset + 1, offset + window)))
                  /\ windows[k] \in WindowHash
                  /\ windows[k].offset = offset /\ windows[k].length = window
                  /\ windows[k].fingerprint = SubSeq(text, offset + 1, offset + window)
         /\ position - (Len(windows) - 1) * stride < stride
<1>1. /\ text \in Seq(Character) /\ window \in Nat \ {0} /\ stride \in Nat \ {0}
      /\ position \in Nat /\ Len(text) \in Nat
  BY DEF HashTyped
<1>. DEFINE q == position \div stride
            E(j) == Emit((j - 1) * stride, window,
                      HashOf(SubSeq(text, (j - 1) * stride + 1, (j - 1) * stride + window)))
<1>2. windows = [j \in 1..(q + 1) |-> E(j)]
  BY Zenon DEF Emitted
<1>3. q \in Nat /\ q * stride <= position /\ position - q * stride < stride /\ q * stride \in Nat
  BY <1>1, Multiples, Zenon
<1>. HIDE DEF q
<1>4. ASSUME NEW k \in 1..(q + 1)
      PROVE  LET offset == (k - 1) * stride
             IN  /\ offset \in Nat /\ offset <= position
                 /\ windows[k] = Emit(offset, window, HashOf(SubSeq(text, offset + 1, offset + window)))
                 /\ windows[k] \in WindowHash
                 /\ windows[k].offset = offset /\ windows[k].length = window
                 /\ windows[k].fingerprint = SubSeq(text, offset + 1, offset + window)
  <2>. DEFINE a == (k - 1) * stride
              h == HashOf(SubSeq(text, a + 1, a + window))
  <2>1. a \in Nat /\ a <= position
    <3>1. k - 1 \in Nat /\ q - (k - 1) \in Nat
      BY <1>3
    <3>2. a \in Nat /\ (q - (k - 1)) * stride \in Nat
      BY <1>1, <3>1
    <3>3. q * stride = a + (q - (k - 1)) * stride
      BY <1>1, <1>3, <3>1
    <3>. HIDE DEF a
    <3>. QED  BY <1>1, <1>3, <3>2, <3>3
  <2>2. windows[k] = Emit(a, window, h)
    <3>. HIDE DEF E
    <3>1. windows[k] = E(k)
      BY <1>2
    <3>. QED  BY <3>1 DEF E
  <2>. HIDE DEF a
  <2>3. a + window <= Len(text) /\ a <= a + window /\ a + window \in Nat
    BY <1>1, <2>1
  <2>4. h \in Residue
    <3>1. SubSeq(text, a + 1, a + window) \in Seq(Character)
      BY <1>1, <2>1, <2>3, PartOf
    <3>. QED  BY <3>1, HashType
  <2>. HIDE DEF h
  <2>5. /\ Emit(a, window, h) \in WindowHash
        /\ Emit(a, window, h).offset = a /\ Emit(a, window, h).length = window
        /\ Emit(a, window, h).fingerprint = SubSeq(text, a + 1, a + window)
    BY <1>1, <2>1, <2>3, <2>4, EmitType
  <2>. QED  BY <2>1, <2>2, <2>5 DEF a, h
<1>5. windows \in Seq(WindowHash) /\ Len(windows) = q + 1 /\ DOMAIN windows = 1..(q + 1)
  <2>1. \A k \in 1..(q + 1) : windows[k] \in WindowHash
    BY <1>4
  <2>2. DOMAIN windows = 1..(q + 1) /\ windows = [j \in 1..(q + 1) |-> windows[j]]
    <3>. HIDE DEF E
    <3>. QED  BY <1>2
  <2>3. q + 1 \in Nat
    BY <1>3
  <2>4. windows \in [1..(q + 1) -> WindowHash]
    BY <2>1, <2>2
  <2>. QED  BY <2>3, <2>4
<1>6. windows # <<>> /\ Len(windows) - 1 = q
  BY <1>3, <1>5
<1>. QED  BY <1>3, <1>4, <1>5, <1>6

(* The windows are those at the multiples of the stride, in order and none  *)
(* missing, one for a text no longer than a window, and rolling never       *)
(* drifts from hashing: for every base, modulus, window size, stride and    *)
(* text.                                                                    *)
THEOREM EveryWindowIsExact == HashSpec => []WindowsAreExact
<1>1. ASSUME HashInv PROVE WindowsAreExact
  <2>. DEFINE length == IF Len(text) < window THEN Len(text) ELSE window
              W(k) == Emit((k - 1) * stride, length,
                        HashOf(SubSeq(text, (k - 1) * stride + 1, (k - 1) * stride + length)))
              Exact == /\ windows \in Seq(WindowHash)
                       /\ windows = [k \in 1..Len(windows) |-> W(k)]
                       /\ (text # <<>>) <=> (windows # <<>>)
                       /\ text # <<>> =>
                            Len(text) - (Last(windows).offset + Last(windows).length) < stride
  <2>1. /\ HashTyped /\ text \in Seq(Character) /\ Len(text) \in Nat
        /\ window \in Nat \ {0} /\ stride \in Nat \ {0} /\ position \in Nat
        /\ stage \in {"raw", "normalized", "rolling", "done"}
    BY <1>1 DEF HashInv, HashTyped
  <2>2. CASE stage \in {"raw", "normalized"}
    <3>1. windows = <<>>
      BY <1>1, <2>2 DEF HashInv, HashProgress
    <3>2. windows \in Seq(WindowHash)
      BY <3>1
    <3>. QED  BY <2>2, <3>2 DEF WindowsAreExact
  <2>3. CASE stage = "rolling"
    <3>1. /\ position + window < Len(text) /\ windows = Emitted
          /\ value = HashOf(SubSeq(text, position + 1, position + window))
      BY <1>1, <2>3 DEF HashInv, HashProgress
    <3>2. windows \in Seq(WindowHash)
      <4>1. position + window <= Len(text)
        BY <2>1, <3>1
      <4>. QED  BY <2>1, <3>1, <4>1, EmittedIs
    <3>. QED  BY <2>3, <3>1, <3>2 DEF WindowsAreExact
  <2>4. CASE stage = "done"
    <3>1. \/ text = <<>> /\ windows = <<>>
          \/ /\ text # <<>> /\ Len(text) <= window
             /\ windows = <<Emit(0, Len(text), HashOf(SubSeq(text, 1, Len(text))))>>
          \/ position + window = Len(text) /\ windows = Emitted
      BY <1>1, <2>4 DEF HashInv, HashProgress
    <3>2. ASSUME text = <<>> /\ windows = <<>> PROVE Exact
      <4>1. <<>> = [k \in 1..Len(<<>>) |-> W(k)] /\ <<>> \in Seq(WindowHash)
        <5>. HIDE DEF W
        <5>. QED  OBVIOUS
      <4>. HIDE DEF W
      <4>. QED  BY <3>2, <4>1
    <3>3. ASSUME /\ text # <<>> /\ Len(text) <= window
                 /\ windows = <<Emit(0, Len(text), HashOf(SubSeq(text, 1, Len(text))))>>
          PROVE  Exact
      <4>. DEFINE n == Len(text)
                  h == HashOf(SubSeq(text, 1, n))
                  e == Emit(0, n, h)
      <4>1. n \in Nat \ {0} /\ 0 + n <= Len(text) /\ 0 <= n /\ 0 + 1 = 1 /\ 0 \in Nat /\ n \in Nat /\ 0 + n = n
        BY <2>1, <3>3
      <4>2. h \in Residue
        <5>1. SubSeq(text, 0 + 1, n) \in Seq(Character)
          BY <2>1, <4>1, PartOf
        <5>. QED  BY <4>1, <5>1, HashType
      <4>3. length = n
        BY <2>1, <3>3
      <4>. HIDE DEF n, h
      <4>4. e \in WindowHash /\ e.offset = 0 /\ e.length = n
        BY <2>1, <4>1, <4>2, EmitType DEF n
      <4>5. W(1) = e
        <5>1. (1 - 1) * stride = 0
          BY <2>1
        <5>. HIDE DEF length
        <5>. QED  BY <4>1, <4>3, <5>1, Zenon DEF h
      <4>6. windows = <<e>>
        BY <3>3, Zenon DEF n, h
      <4>. HIDE DEF e, W
      <4>7. windows = [k \in 1..Len(windows) |-> W(k)]
        BY <4>5, <4>6
      <4>8. windows \in Seq(WindowHash) /\ windows # <<>> /\ Last(windows) = e
        BY <4>4, <4>6 DEF Last
      <4>9. n - (e.offset + e.length) < stride
        BY <2>1, <4>1, <4>4
      <4>. QED  BY <3>3, <4>7, <4>8, <4>9 DEF n
    <3>4. ASSUME position + window = Len(text) /\ windows = Emitted PROVE Exact
      <4>1. position + window <= Len(text) /\ length = window /\ text # <<>>
        BY <2>1, <3>4
      <4>2. /\ windows \in Seq(WindowHash) /\ windows # <<>>
            /\ \A k \in DOMAIN windows :
                 LET offset == (k - 1) * stride
                 IN  /\ offset \in Nat /\ offset <= position
                     /\ windows[k] = Emit(offset, window, HashOf(SubSeq(text, offset + 1, offset + window)))
                     /\ windows[k] \in WindowHash
                     /\ windows[k].offset = offset /\ windows[k].length = window
                     /\ windows[k].fingerprint = SubSeq(text, offset + 1, offset + window)
            /\ position - (Len(windows) - 1) * stride < stride
        BY <2>1, <3>4, <4>1, EmittedIs
      <4>. HIDE DEF length
      <4>3. \A k \in DOMAIN windows : windows[k] = W(k)
        BY <4>1, <4>2, Zenon
      <4>. HIDE DEF W
      <4>4. windows = [k \in 1..Len(windows) |-> W(k)]
        BY <4>2, <4>3
      <4>5. Len(windows) \in DOMAIN windows
        BY <4>2
      <4>6. /\ Last(windows).offset = (Len(windows) - 1) * stride
            /\ Last(windows).length = window
            /\ Last(windows).offset \in Nat
        BY <4>2, <4>5 DEF Last
      <4>7. Len(text) - (Last(windows).offset + Last(windows).length) < stride
        BY <2>1, <3>4, <4>2, <4>6
      <4>. QED  BY <4>1, <4>2, <4>4, <4>7
    <3>5. Exact
      <4>. HIDE DEF Exact
      <4>. QED  BY <3>1, <3>2, <3>3, <3>4
    <3>. QED  BY <2>4, <3>5 DEF WindowsAreExact
  <2>. QED  BY <2>1, <2>2, <2>3, <2>4
<1>. QED  BY <1>1, HashInvariant, PTL

-----------------------------------------------------------------------------
(* What a pass leaves alone.  A text is rough if it is as the pass writes   *)
(* it, the space at its end apart that strip() removes, and even without it.*)

Composed(t) == \A i \in 1..(Len(t) - 1) : <<t[i], t[i + 1]>> \notin Pairs
Visible(t) == \A i \in 1..Len(t) : t[i] # "zero_width"
Folded(t) == \A i \in 1..Len(t) : t[i] \notin Folds
Unexpanded(t) == \A i \in 1..Len(t) : t[i] \notin Expanding
Spaced(t) == /\ \A i \in 1..(Len(t) - 1) : ~ (t[i] = "space" /\ t[i + 1] = "space")
             /\ t # <<>> => t[1] # "space"

Rough(pass, t) ==
  /\ pass = "nfc" => Composed(t)
  /\ pass = "zeroWidth" => Visible(t)
  /\ pass = "caseFold" => Folded(t)
  /\ pass = "whitespace" => Spaced(t)

Even(pass, t) == Rough(pass, t) /\ (pass = "whitespace" /\ t # <<>> => Last(t) # "space")

LEMMA OneMore ==
  ASSUME NEW u \in Seq(Character), NEW c \in Character
  PROVE  /\ Append(u, c) \in Seq(Character) /\ Append(u, c) # <<>>
         /\ Len(u) \in Nat /\ Len(Append(u, c)) = Len(u) + 1
         /\ Append(u, c)[Len(u) + 1] = c /\ Last(Append(u, c)) = c
         /\ \A i \in 1..Len(u) : Append(u, c)[i] = u[i]
<1>1. /\ Append(u, c) \in Seq(Character) /\ Append(u, c) # <<>>
      /\ Len(u) \in Nat /\ Len(Append(u, c)) = Len(u) + 1
      /\ Append(u, c)[Len(u) + 1] = c
      /\ \A i \in 1..Len(u) : Append(u, c)[i] = u[i]
  OBVIOUS
<1>. QED  BY <1>1, Zenon DEF Last

LEMMA ComposedMore ==
  ASSUME NEW u \in Seq(Character), NEW c \in Character
  PROVE  Composed(Append(u, c)) <=> (Composed(u) /\ (u # <<>> => <<Last(u), c>> \notin Pairs))
<1>. DEFINE t == Append(u, c)  n == Len(u)
<1>1. n \in Nat /\ Len(t) = n + 1 /\ t[n + 1] = c /\ \A i \in 1..n : t[i] = u[i]
  BY OneMore
<1>2. u # <<>> <=> n # 0
  OBVIOUS
<1>3. Last(u) = u[n]
  BY DEF Last
<1>. HIDE DEF t, n
<1>4. Composed(t) <=> \A i \in 1..n : <<t[i], t[i + 1]>> \notin Pairs
  BY <1>1 DEF Composed
<1>5. Composed(u) <=> \A i \in 1..(n - 1) : <<u[i], u[i + 1]>> \notin Pairs
  BY <1>1 DEF Composed, n
<1>6. \A i \in 1..(n - 1) : i \in 1..n /\ t[i] = u[i] /\ t[i + 1] = u[i + 1]
  BY <1>1
<1>7. u # <<>> => n \in 1..n /\ t[n] = Last(u) /\ t[n + 1] = c
  <2>. SUFFICES ASSUME u # <<>> PROVE n \in 1..n /\ t[n] = Last(u) /\ t[n + 1] = c
    OBVIOUS
  <2>1. n \in 1..n
    BY <1>1, <1>2
  <2>. QED  BY <1>1, <1>3, <2>1
<1>8. ASSUME Composed(t) PROVE Composed(u) /\ (u # <<>> => <<Last(u), c>> \notin Pairs)
  <2>1. Composed(u)
    BY <1>4, <1>5, <1>6, <1>8, Zenon
  <2>2. u # <<>> => <<Last(u), c>> \notin Pairs
    BY <1>4, <1>7, <1>8, Zenon
  <2>. QED  BY <2>1, <2>2, Zenon
<1>9. ASSUME Composed(u), u # <<>> => <<Last(u), c>> \notin Pairs PROVE Composed(t)
  <2>. SUFFICES ASSUME NEW i \in 1..n PROVE <<t[i], t[i + 1]>> \notin Pairs
    BY <1>4, Zenon
  <2>1. CASE i = n
    <3>1. u # <<>>
      BY <1>1, <1>2, <2>1
    <3>. QED  BY <1>7, <1>9, <2>1, <3>1, Zenon
  <2>2. CASE i # n
    <3>1. i \in 1..(n - 1)
      BY <1>1, <2>2
    <3>. QED  BY <1>5, <1>6, <1>9, <3>1, Zenon
  <2>. QED  BY <2>1, <2>2, Zenon
<1>. QED  BY <1>8, <1>9, Zenon DEF t

LEMMA SpacedMore ==
  ASSUME NEW u \in Seq(Character), NEW c \in Character
  PROVE  Spaced(Append(u, c)) <=> (Spaced(u) /\ ~ (c = "space" /\ (u = <<>> \/ Last(u) = "space")))
<1>. DEFINE t == Append(u, c)  n == Len(u)
<1>1. n \in Nat /\ Len(t) = n + 1 /\ t[n + 1] = c /\ t # <<>> /\ \A i \in 1..n : t[i] = u[i]
  BY OneMore
<1>2. u # <<>> <=> n # 0
  OBVIOUS
<1>3. Last(u) = u[n]
  BY DEF Last
<1>. HIDE DEF t, n
<1>4. Spaced(t) <=> (\A i \in 1..n : ~ (t[i] = "space" /\ t[i + 1] = "space")) /\ t[1] # "space"
  BY <1>1 DEF Spaced
<1>5. Spaced(u) <=> /\ \A i \in 1..(n - 1) : ~ (u[i] = "space" /\ u[i + 1] = "space")
                    /\ u # <<>> => u[1] # "space"
  BY <1>1 DEF Spaced, n
<1>6. \A i \in 1..(n - 1) : t[i] = u[i] /\ t[i + 1] = u[i + 1]
  BY <1>1
<1>7. IF n = 0 THEN t[1] = c ELSE t[1] = u[1]
  BY <1>1
<1>8. ASSUME Spaced(t) PROVE Spaced(u) /\ ~ (c = "space" /\ (u = <<>> \/ Last(u) = "space"))
  <2>1. Spaced(u)
    BY <1>1, <1>2, <1>4, <1>5, <1>6, <1>7, <1>8
  <2>2. ASSUME c = "space" PROVE u # <<>> /\ Last(u) # "space"
    <3>1. n # 0
      BY <1>4, <1>7, <1>8, <2>2
    <3>2. n \in 1..n
      BY <1>1, <3>1
    <3>. QED  BY <1>1, <1>2, <1>3, <1>4, <1>8, <2>2, <3>1, <3>2
  <2>. QED  BY <2>1, <2>2
<1>9. ASSUME Spaced(u), ~ (c = "space" /\ (u = <<>> \/ Last(u) = "space")) PROVE Spaced(t)
  <2>1. t[1] # "space"
    BY <1>2, <1>5, <1>7, <1>9
  <2>2. ASSUME NEW i \in 1..n, t[i] = "space", t[i + 1] = "space" PROVE FALSE
    <3>1. CASE i = n
      BY <1>1, <1>2, <1>3, <1>9, <2>2, <3>1
    <3>2. CASE i # n
      <4>1. i \in 1..(n - 1)
        BY <1>1, <3>2
      <4>. QED  BY <1>5, <1>6, <1>9, <2>2, <4>1
    <3>. QED  BY <3>1, <3>2
  <2>. QED  BY <1>4, <2>1, <2>2
<1>. QED  BY <1>8, <1>9 DEF t

LEMMA VisibleMore ==
  ASSUME NEW u \in Seq(Character), NEW c \in Character
  PROVE  /\ Visible(Append(u, c)) <=> (Visible(u) /\ c # "zero_width")
         /\ Folded(Append(u, c)) <=> (Folded(u) /\ c \notin Folds)
         /\ Unexpanded(Append(u, c)) <=> (Unexpanded(u) /\ c \notin Expanding)
<1>. DEFINE t == Append(u, c)  n == Len(u)
<1>1. n \in Nat /\ Len(t) = n + 1 /\ t[n + 1] = c /\ \A i \in 1..n : t[i] = u[i]
  BY OneMore
<1>. HIDE DEF t, n
<1>2. /\ Visible(u) <=> \A i \in 1..n : u[i] # "zero_width"
      /\ Folded(u) <=> \A i \in 1..n : u[i] \notin Folds
      /\ Unexpanded(u) <=> \A i \in 1..n : u[i] \notin Expanding
  BY DEF Visible, Folded, Unexpanded, n
<1>3. /\ Visible(t) <=> \A i \in 1..(n + 1) : t[i] # "zero_width"
      /\ Folded(t) <=> \A i \in 1..(n + 1) : t[i] \notin Folds
      /\ Unexpanded(t) <=> \A i \in 1..(n + 1) : t[i] \notin Expanding
  BY <1>1 DEF Visible, Folded, Unexpanded
<1>4. 1..(n + 1) = (1..n) \cup {n + 1}
  BY <1>1
<1>. QED  BY <1>1, <1>2, <1>3, <1>4 DEF t

(* Case folding appends what folding leaves alone, and nothing invisible.   *)
LEMMA FoldWrites ==
  ASSUME NEW out \in Seq(Character), NEW c \in Character
  PROVE  /\ Folded(out) => Folded(Put("caseFold", out, c))
         /\ Visible(out) /\ c # "zero_width" => Visible(Put("caseFold", out, c))
<1>. DEFINE Fine(u) == (Folded(out) => Folded(u)) /\ (Visible(out) /\ c # "zero_width" => Visible(u))
<1>1. {"q", "s", "iota", "dots", "peri"} \subseteq Character
  BY DEF Character, Mark
<1>2. ASSUME NEW u \in Seq(Character), NEW d \in {"q", "s", "iota", "dots", "peri"}, Fine(u)
      PROVE  Append(u, d) \in Seq(Character) /\ Fine(Append(u, d))
  <2>1. d \in Character /\ d # "zero_width" /\ d \notin Folds
    BY <1>1 DEF Folds, Expanding
  <2>2. /\ Visible(Append(u, d)) <=> (Visible(u) /\ d # "zero_width")
        /\ Folded(Append(u, d)) <=> (Folded(u) /\ d \notin Folds)
        /\ Append(u, d) \in Seq(Character)
    BY <2>1, VisibleMore, OneMore
  <2>. QED  BY <1>2, <2>1, <2>2, Zenon
<1>3. Fine(out)
  OBVIOUS
<1>. HIDE DEF Fine
<1>4. /\ Fine(Append(out, "q"))
      /\ Append(out, "s") \in Seq(Character) /\ Fine(Append(out, "s"))
      /\ Append(out, "iota") \in Seq(Character) /\ Fine(Append(out, "iota"))
  BY <1>2, <1>3
<1>5. /\ Fine(Append(Append(out, "s"), "s")) /\ Fine(Append(Append(out, "iota"), "peri"))
      /\ Append(Append(out, "iota"), "dots") \in Seq(Character)
      /\ Fine(Append(Append(out, "iota"), "dots"))
  BY <1>2, <1>4
<1>6. Fine(Append(Append(Append(out, "iota"), "dots"), "peri"))
  BY <1>2, <1>5
<1>7. CASE c \notin Folds
  <2>1. /\ Visible(Append(out, c)) <=> (Visible(out) /\ c # "zero_width")
        /\ Folded(Append(out, c)) <=> (Folded(out) /\ c \notin Folds)
    BY VisibleMore
  <2>2. Fine(Append(out, c))
    BY <1>7, <2>1, Zenon DEF Fine
  <2>3. Fine(Put("caseFold", out, c))
    BY <1>7, <2>2, FoldIs, Zenon
  <2>. QED  BY <2>3, Zenon DEF Fine
<1>8. CASE c \in Folds
  <2>1. c = "Q" \/ c = "sharp_s" \/ c = "iota_peri" \/ c = "full"
    BY <1>8 DEF Folds, Expanding
  <2>2. Fine(Put("caseFold", out, c))
    BY <1>4, <1>5, <1>6, <2>1, FoldIs, Zenon
  <2>. QED  BY <2>2, Zenon DEF Fine
<1>. QED  BY <1>7, <1>8, Zenon

(* What composing writes.                                                   *)
Composes(out, c, f, l, x) ==
  /\ out = Append(f, l) /\ Front(out) = f /\ Last(out) = l
  /\ x = Composite[<<Last(out), c>>] /\ Put("nfc", out, c) = Append(f, x)
  /\ c \in Mark /\ c # "zero_width" /\ l # "zero_width" /\ x # "zero_width"
  /\ \A a : <<a, x>> \notin Pairs

LEMMA ComposeIs ==
  ASSUME NEW out \in Seq(Character), NEW c \in Character, out # <<>>, <<Last(out), c>> \in Pairs
  PROVE  \E f \in Seq(Character), l \in Character, x \in Character : Composes(out, c, f, l, x)
<1>. DEFINE f == Front(out)  l == Last(out)  x == Composite[<<Last(out), c>>]
<1>1. f \in Seq(Character) /\ l \in Character /\ out = Append(f, l)
  BY FrontLast
<1>2. x \in {"s_mark", "iota_dots", "iota_peri", "full"}
  BY CompositeIs
<1>3. Put("nfc", out, c) = Append(f, x)
  BY PutIs, Zenon
<1>. HIDE DEF x
<1>4. x \in Character /\ x # "zero_width" /\ x \notin {"mark", "dots", "peri"}
  BY <1>2 DEF Character
<1>5. \A a : <<a, x>> \notin Pairs
  BY <1>4, PairIs
<1>6. c \in Mark /\ c # "zero_width" /\ l # "zero_width"
  BY PairIs DEF Mark, l
<1>7. Composes(out, c, f, l, x)
  BY <1>1, <1>3, <1>4, <1>5, <1>6, Zenon DEF Composes, x
<1>. HIDE DEF f, l
<1>. QED  BY <1>1, <1>4, <1>7

LEMMA RoughEmpty == \A pass : Rough(pass, <<>>)
BY DEF Rough, Composed, Visible, Folded, Spaced

(* A text is rough exactly if the pass copies it.                           *)
LEMMA RoughMore ==
  ASSUME NEW pass \in Passes, NEW u \in Seq(Character), NEW c \in Character
  PROVE  Rough(pass, Append(u, c)) <=> (Rough(pass, u) /\ Put(pass, u, c) = Append(u, c))
<1>0. Append(u, c) # u
  <2>1. Len(Append(u, c)) = Len(u) + 1 /\ Len(u) \in Nat
    OBVIOUS
  <2>. QED  BY <2>1
<1>1. CASE pass = "nfc"
  <2>1. \A t : Rough(pass, t) <=> Composed(t)
    BY <1>1 DEF Rough
  <2>2. Composed(Append(u, c)) <=> (Composed(u) /\ (u # <<>> => <<Last(u), c>> \notin Pairs))
    BY ComposedMore
  <2>3. CASE u # <<>> /\ <<Last(u), c>> \in Pairs
    <3>0. PICK f \in Seq(Character), l \in Character, x \in Character : Composes(u, c, f, l, x)
      BY <2>3, ComposeIs
    <3>1. u = Append(f, l) /\ Put("nfc", u, c) = Append(f, x)
      BY <3>0 DEF Composes
    <3>2. /\ Len(Append(f, x)) = Len(f) + 1 /\ Len(u) = Len(f) + 1 /\ Len(f) \in Nat
          /\ Len(Append(u, c)) = Len(u) + 1
      BY <3>1, OneMore
    <3>3. Append(f, x) # Append(u, c)
      BY <3>2
    <3>. QED  BY <1>1, <2>1, <2>2, <2>3, <3>1, <3>3, Zenon
  <2>4. CASE ~ (u # <<>> /\ <<Last(u), c>> \in Pairs)
    <3>1. Put(pass, u, c) = Append(u, c)
      BY <1>1, <2>4, PutIs, Zenon
    <3>. QED  BY <2>1, <2>2, <2>4, <3>1, Zenon
  <2>. QED  BY <2>3, <2>4, Zenon
<1>2. CASE pass = "zeroWidth"
  <2>1. \A t : Rough(pass, t) <=> Visible(t)
    BY <1>2 DEF Rough
  <2>2. Put(pass, u, c) = IF c = "zero_width" THEN u ELSE Append(u, c)
    BY <1>2, PutIs, Zenon
  <2>. QED  BY <1>0, <2>1, <2>2, VisibleMore, Zenon
<1>3. CASE pass = "caseFold"
  <2>1. \A t : Rough(pass, t) <=> Folded(t)
    BY <1>3 DEF Rough
  <2>2. Folded(Append(u, c)) <=> (Folded(u) /\ c \notin Folds)
    BY VisibleMore
  <2>3. CASE c \notin Folds
    <3>1. Put(pass, u, c) = Append(u, c)
      BY <1>3, <2>3, FoldIs, Zenon
    <3>. QED  BY <2>1, <2>2, <2>3, <3>1, Zenon
  <2>4. CASE c \in Folds
    <3>1. c = "Q" \/ c = "sharp_s" \/ c = "iota_peri" \/ c = "full"
      BY <2>4 DEF Folds, Expanding
    <3>2. {"q", "s", "iota", "dots", "peri"} \subseteq Character
      BY DEF Character, Mark
    <3>3. ASSUME NEW v \in Seq(Character), NEW d \in {"q", "s", "iota", "dots", "peri"}
          PROVE  /\ Append(v, d) \in Seq(Character) /\ Len(Append(v, d)) = Len(v) + 1
                 /\ Len(v) \in Nat /\ Last(Append(v, d)) = d
      BY <3>2, OneMore
    <3>4. Len(Append(u, c)) = Len(u) + 1 /\ Len(u) \in Nat /\ Last(Append(u, c)) = c
      BY OneMore
    <3>5. CASE c = "Q"
      <4>1. Last(Append(u, "q")) = "q" /\ "q" # "Q"
        BY <3>3
      <4>2. Put(pass, u, c) = Append(u, "q")
        BY <1>3, <3>5, FoldIs, Zenon
      <4>3. Put(pass, u, c) # Append(u, c)
        BY <3>4, <3>5, <4>1, <4>2, Zenon
      <4>. QED  BY <2>1, <2>2, <2>4, <4>3, Zenon
    <3>6. CASE c # "Q"
      <4>1. /\ Append(u, "s") \in Seq(Character) /\ Len(Append(u, "s")) = Len(u) + 1
            /\ Append(u, "iota") \in Seq(Character) /\ Len(Append(u, "iota")) = Len(u) + 1
        BY <3>3
      <4>2. /\ Len(Append(Append(u, "s"), "s")) = Len(u) + 1 + 1
            /\ Len(Append(Append(u, "iota"), "peri")) = Len(u) + 1 + 1
            /\ Append(Append(u, "iota"), "dots") \in Seq(Character)
            /\ Len(Append(Append(u, "iota"), "dots")) = Len(u) + 1 + 1
        BY <3>3, <4>1
      <4>3. Len(Append(Append(Append(u, "iota"), "dots"), "peri")) = Len(u) + 1 + 1 + 1
        BY <3>3, <4>2
      <4>4. /\ Append(Append(u, "s"), "s") # Append(u, c)
            /\ Append(Append(u, "iota"), "peri") # Append(u, c)
            /\ Append(Append(Append(u, "iota"), "dots"), "peri") # Append(u, c)
        BY <3>4, <4>2, <4>3
      <4>5. Put(pass, u, c) # Append(u, c)
        BY <1>3, <3>1, <3>6, <4>4, FoldIs, Zenon
      <4>. QED  BY <2>1, <2>2, <2>4, <4>5, Zenon
    <3>. QED  BY <3>5, <3>6, Zenon
  <2>. QED  BY <2>3, <2>4, Zenon
<1>4. CASE pass = "whitespace"
  <2>1. \A t : Rough(pass, t) <=> Spaced(t)
    BY <1>4 DEF Rough
  <2>2. Put(pass, u, c) = IF c = "space" /\ (u = <<>> \/ Last(u) = "space") THEN u ELSE Append(u, c)
    BY <1>4, PutIs, Zenon
  <2>. QED  BY <1>0, <2>1, <2>2, SpacedMore, Zenon
<1>. QED  BY <1>1, <1>2, <1>3, <1>4 DEF Passes

LEMMA PutRough ==
  ASSUME NEW pass \in Passes, NEW out \in Seq(Character), NEW c \in Character, Rough(pass, out)
  PROVE  Rough(pass, Put(pass, out, c))
<1>1. CASE Put(pass, out, c) = Append(out, c) /\ pass # "caseFold"
  BY <1>1, RoughMore
<1>2. CASE Put(pass, out, c) = out
  BY <1>2
<1>3. CASE pass = "nfc" /\ out # <<>> /\ <<Last(out), c>> \in Pairs
  <2>0. PICK f \in Seq(Character), l \in Character, x \in Character : Composes(out, c, f, l, x)
    BY <1>3, ComposeIs
  <2>1. /\ out = Append(f, l) /\ Put("nfc", out, c) = Append(f, x)
        /\ \A a : <<a, x>> \notin Pairs
    BY <2>0 DEF Composes
  <2>2. Composed(out)
    BY <1>3 DEF Rough
  <2>3. Composed(f)
    BY <2>1, <2>2, ComposedMore
  <2>4. Composed(Append(f, x))
    BY <2>1, <2>3, ComposedMore
  <2>. QED  BY <1>3, <2>1, <2>4 DEF Rough
<1>4. CASE pass = "caseFold"
  <2>1. Folded(out)
    BY <1>4 DEF Rough
  <2>2. Folded(Put("caseFold", out, c))
    BY <2>1, FoldWrites
  <2>. QED  BY <1>4, <2>2 DEF Rough
<1>. QED
  <2>1. \/ pass = "nfc" \/ pass = "zeroWidth" \/ pass = "caseFold" \/ pass = "whitespace"
    BY DEF Passes
  <2>2. pass = "nfc" => \/ Put(pass, out, c) = Append(out, c)
                        \/ out # <<>> /\ <<Last(out), c>> \in Pairs
    BY PutIs, Zenon
  <2>3. pass = "zeroWidth" => Put(pass, out, c) \in {out, Append(out, c)}
    BY PutIs, Zenon
  <2>4. pass = "whitespace" => Put(pass, out, c) \in {out, Append(out, c)}
    BY PutIs, Zenon
  <2>. QED  BY <1>1, <1>2, <1>3, <1>4, <2>1, <2>2, <2>3, <2>4

LEMMA PassedRough ==
  ASSUME NEW pass \in Passes, NEW t \in Seq(Character)
  PROVE  Rough(pass, Passed(pass, t)) /\ (Rough(pass, t) => Passed(pass, t) = t)
<1>. DEFINE S == {u \in Seq(Character) :
                    /\ Rough(pass, Passed(pass, u))
                    /\ Rough(pass, u) => Passed(pass, u) = u}
<1>1. <<>> \in S
  <2>1. <<>> \in Seq(Character)
    OBVIOUS
  <2>. QED  BY <2>1, PassedEmpty, RoughEmpty
<1>2. ASSUME NEW u \in Seq(Character), NEW c \in Character, u \in S PROVE Append(u, c) \in S
  <2>1. Passed(pass, u) \in Seq(Character) /\ Passed(pass, Append(u, c)) = Put(pass, Passed(pass, u), c)
    BY PassedType, PassedStep
  <2>2. Rough(pass, Passed(pass, u)) /\ (Rough(pass, u) => Passed(pass, u) = u)
    BY <1>2
  <2>3. Rough(pass, Put(pass, Passed(pass, u), c))
    BY <2>1, <2>2, PutRough
  <2>4. ASSUME Rough(pass, Append(u, c)) PROVE Passed(pass, Append(u, c)) = Append(u, c)
    <3>1. Rough(pass, u) /\ Put(pass, u, c) = Append(u, c)
      BY <2>4, RoughMore
    <3>. QED  BY <2>1, <2>2, <3>1, Zenon
  <2>5. Append(u, c) \in Seq(Character)
    OBVIOUS
  <2>. QED  BY <2>1, <2>3, <2>4, <2>5
<1>3. t \in S
  <2>. HIDE DEF S
  <2>. QED  BY <1>1, <1>2, EverySequence
<1>. QED  BY <1>3

(* A pass writes even texts and copies them: it is idempotent.              *)
LEMMA PassEven ==
  ASSUME NEW pass \in Passes, NEW t \in Seq(Character)
  PROVE  Even(pass, Pass(pass, t)) /\ (Even(pass, t) => Pass(pass, t) = t)
<1>. DEFINE out == Passed(pass, t)
<1>1. out \in Seq(Character) /\ Rough(pass, out) /\ (Rough(pass, t) => out = t)
  BY PassedType, PassedRough
<1>2. Pass(pass, t) = IF pass = "whitespace" /\ out # <<>> /\ Last(out) = "space" THEN Front(out) ELSE out
  BY DEF Pass
<1>. HIDE DEF out
<1>3. CASE pass = "whitespace" /\ out # <<>> /\ Last(out) = "space"
  <2>1. /\ Front(out) \in Seq(Character) /\ Last(out) \in Character
        /\ out = Append(Front(out), Last(out))
    BY <1>1, <1>3, FrontLast
  <2>2. Spaced(out)
    BY <1>1, <1>3 DEF Rough
  <2>3. Spaced(Front(out)) /\ ~ (Last(out) = "space" /\ (Front(out) = <<>> \/ Last(Front(out)) = "space"))
    BY <2>1, <2>2, SpacedMore
  <2>4. Even(pass, Front(out))
    BY <1>3, <2>3 DEF Even, Rough
  <2>5. ~ Even(pass, t)
    BY <1>1, <1>3, Zenon DEF Even
  <2>. QED  BY <1>2, <1>3, <2>4, <2>5, Zenon
<1>4. CASE ~ (pass = "whitespace" /\ out # <<>> /\ Last(out) = "space")
  <2>1. Pass(pass, t) = out
    BY <1>2, <1>4, Zenon
  <2>2. Even(pass, out)
    BY <1>1, <1>4, Zenon DEF Even
  <2>. QED  BY <1>1, <2>1, <2>2, Zenon DEF Even
<1>. QED  BY <1>3, <1>4, Zenon

-----------------------------------------------------------------------------
(* The passes after one do not undo it.                                    *)

(* Collapsing puts no mark next to another character, and neither does      *)
(* folding unless it expands one.                                           *)
Copied(pass, t) == pass = "caseFold" => Unexpanded(t)

LEMMA PassedKeeps ==
  ASSUME NEW pass \in {"caseFold", "whitespace"}, NEW t \in Seq(Character)
  PROVE  LET out == Passed(pass, t)
         IN  /\ Copied(pass, t) /\ Composed(t) => Composed(out)
             /\ Visible(t) => Visible(out)
             /\ pass = "whitespace" /\ Folded(t) => Folded(out)
<1>. DEFINE P(u) == Passed(pass, u)
            Linked(u) == Copied(pass, u) /\ P(u) # <<>> =>
                            u # <<>> /\ Last(P(u)) \in {"q", Last(u)}
            Kept(u) == /\ Copied(pass, u) /\ Composed(u) => Composed(P(u))
                       /\ Visible(u) => Visible(P(u))
                       /\ pass = "whitespace" /\ Folded(u) => Folded(P(u))
            S == {u \in Seq(Character) : Linked(u) /\ Kept(u)}
<1>0. pass \in Passes
  BY DEF Passes
<1>1. <<>> \in S
  <2>1. P(<<>>) = <<>> /\ <<>> \in Seq(Character)
    BY <1>0, PassedEmpty
  <2>. QED  BY <2>1, Zenon
<1>2. ASSUME NEW u \in Seq(Character), NEW c \in Character, u \in S PROVE Append(u, c) \in S
  <2>. DEFINE out == P(u)  t2 == Append(u, c)
  <2>1. out \in Seq(Character) /\ P(t2) = Put(pass, out, c)
    BY <1>0, PassedType, PassedStep
  <2>2. /\ Copied(pass, u) /\ out # <<>> => u # <<>> /\ Last(out) \in {"q", Last(u)}
        /\ Copied(pass, u) /\ Composed(u) => Composed(out)
        /\ Visible(u) => Visible(out)
        /\ pass = "whitespace" /\ Folded(u) => Folded(out)
    BY <1>2
  <2>3. /\ Composed(t2) <=> (Composed(u) /\ (u # <<>> => <<Last(u), c>> \notin Pairs))
        /\ Visible(t2) <=> (Visible(u) /\ c # "zero_width")
        /\ Folded(t2) <=> (Folded(u) /\ c \notin Folds)
        /\ Unexpanded(t2) <=> (Unexpanded(u) /\ c \notin Expanding)
        /\ t2 \in Seq(Character) /\ t2 # <<>> /\ Last(t2) = c
    BY ComposedMore, VisibleMore, OneMore
  <2>. HIDE DEF out, t2, P
  <2>4. ASSUME NEW d \in Character, d = c \/ (pass = "caseFold" /\ c = "Q" /\ d = "q"), P(t2) = Append(out, d)
        PROVE  Linked(t2) /\ Kept(t2)
    <3>1. /\ Composed(Append(out, d)) <=> (Composed(out) /\ (out # <<>> => <<Last(out), d>> \notin Pairs))
          /\ Visible(Append(out, d)) <=> (Visible(out) /\ d # "zero_width")
          /\ Folded(Append(out, d)) <=> (Folded(out) /\ d \notin Folds)
          /\ Last(Append(out, d)) = d
      BY <2>1, ComposedMore, VisibleMore, OneMore
    <3>2. d = "zero_width" => c = "zero_width"
      BY <2>4
    <3>3. d \in {"q", c} /\ (pass = "whitespace" => d = c)
      BY <2>4
    <3>4. Linked(t2)
      BY <2>3, <2>4, <3>1, <3>3, Zenon
    <3>5. ASSUME Copied(pass, t2), Composed(t2) PROVE Composed(P(t2))
      <4>1. Copied(pass, u)
        BY <2>3, <3>5, Zenon DEF Copied
      <4>2. Composed(u) /\ (u # <<>> => <<Last(u), c>> \notin Pairs)
        BY <2>3, <3>5, Zenon
      <4>3. ASSUME out # <<>>, <<Last(out), d>> \in Pairs PROVE FALSE
        <5>1. u # <<>> /\ Last(out) \in {"q", Last(u)}
          BY <2>2, <4>1, <4>3, Zenon
        <5>2. Last(out) # "q" /\ d # "q"
          BY <4>3, PairIs
        <5>3. d = c /\ Last(out) = Last(u)
          BY <3>3, <5>1, <5>2
        <5>. QED  BY <4>2, <4>3, <5>1, <5>3
      <4>. QED  BY <2>2, <2>4, <3>1, <4>1, <4>2, <4>3, Zenon
    <3>6. Visible(t2) => Visible(P(t2))
      BY <2>2, <2>3, <2>4, <3>1, <3>2, Zenon
    <3>7. pass = "whitespace" /\ Folded(t2) => Folded(P(t2))
      BY <2>2, <2>3, <2>4, <3>1, <3>3, Zenon
    <3>. QED  BY <3>4, <3>5, <3>6, <3>7, Zenon
  <2>5. ASSUME P(t2) = out, c = "space", out = <<>> \/ Last(out) = "space", pass = "whitespace"
        PROVE  Linked(t2) /\ Kept(t2)
    <3>1. Linked(t2)
      BY <2>3, <2>5, Zenon
    <3>2. Copied(pass, u)
      BY <2>5 DEF Copied
    <3>3. Kept(t2)
      BY <2>2, <2>3, <2>5, <3>2, Zenon
    <3>. QED  BY <3>1, <3>3
  <2>6. ASSUME pass = "caseFold", c \in Expanding
        PROVE  Linked(t2) /\ Kept(t2)
    <3>1. ~ Copied(pass, t2) /\ pass # "whitespace"
      BY <2>3, <2>6 DEF Copied
    <3>2. Visible(out) /\ c # "zero_width" => Visible(P(t2))
      BY <2>1, <2>6, FoldWrites
    <3>. QED  BY <2>2, <2>3, <3>1, <3>2, Zenon
  <2>7. Linked(t2) /\ Kept(t2)
    <3>1. CASE pass = "caseFold" /\ c \notin Expanding
      <4>. DEFINE d == IF c = "Q" THEN "q" ELSE c
      <4>1. d \in Character
        BY DEF Character
      <4>2. Put(pass, out, c) = Append(out, d)
        <5>1. c = "Q" \/ c \notin Folds
          BY <3>1 DEF Folds
        <5>2. c = "Q" => Put(pass, out, c) = Append(out, "q")
          BY <2>1, <3>1, FoldIs, Zenon
        <5>3. c \notin Folds => Put(pass, out, c) = Append(out, c)
          BY <2>1, <3>1, FoldIs, Zenon
        <5>4. c \notin Folds => c # "Q"
          BY DEF Folds
        <5>. QED  BY <5>1, <5>2, <5>3, <5>4, Zenon
      <4>3. d = c \/ (pass = "caseFold" /\ c = "Q" /\ d = "q")
        BY <3>1
      <4>. HIDE DEF d, Linked, Kept
      <4>. QED  BY <2>1, <2>4, <4>1, <4>2, <4>3
    <3>2. CASE pass = "caseFold" /\ c \in Expanding
      <4>. HIDE DEF Linked, Kept
      <4>. QED  BY <2>6, <3>2
    <3>3. CASE pass = "whitespace"
      <4>1. Put(pass, out, c) = IF c = "space" /\ (out = <<>> \/ Last(out) = "space")
                                THEN out ELSE Append(out, c)
        BY <3>3, PutIs, Zenon
      <4>. HIDE DEF Linked, Kept
      <4>. QED  BY <2>1, <2>4, <2>5, <3>3, <4>1
    <3>. QED  BY <3>1, <3>2, <3>3
  <2>. HIDE DEF Linked, Kept
  <2>. QED  BY <2>3, <2>7 DEF t2
<1>3. t \in S
  <2>. HIDE DEF S
  <2>. QED  BY <1>1, <1>2, EverySequence
<1>. QED  BY <1>3

LEMMA PassKeeps ==
  ASSUME NEW pass \in {"caseFold", "whitespace"}, NEW t \in Seq(Character)
  PROVE  /\ Copied(pass, t) /\ Even("nfc", t) => Even("nfc", Pass(pass, t))
         /\ Even("zeroWidth", t) => Even("zeroWidth", Pass(pass, t))
         /\ pass = "whitespace" /\ Even("caseFold", t) => Even("caseFold", Pass(pass, t))
<1>. DEFINE out == Passed(pass, t)
<1>1. /\ out \in Seq(Character)
      /\ Copied(pass, t) /\ Composed(t) => Composed(out)
      /\ Visible(t) => Visible(out)
      /\ pass = "whitespace" /\ Folded(t) => Folded(out)
  <2>1. pass \in Passes
    BY DEF Passes
  <2>. QED  BY <2>1, PassedType, PassedKeeps
<1>2. Pass(pass, t) = out \/ (out # <<>> /\ Pass(pass, t) = Front(out))
  BY Zenon DEF Pass
<1>. HIDE DEF out
<1>3. out # <<>> => /\ Composed(out) => Composed(Front(out))
                    /\ Visible(out) => Visible(Front(out))
                    /\ Folded(out) => Folded(Front(out))
  <2>. SUFFICES ASSUME out # <<>>
                PROVE  /\ Composed(out) => Composed(Front(out))
                       /\ Visible(out) => Visible(Front(out))
                       /\ Folded(out) => Folded(Front(out))
    OBVIOUS
  <2>1. /\ Front(out) \in Seq(Character) /\ Last(out) \in Character
        /\ out = Append(Front(out), Last(out))
    BY <1>1, FrontLast
  <2>. DEFINE f == Front(out)  l == Last(out)
  <2>. HIDE DEF f, l
  <2>2. f \in Seq(Character) /\ l \in Character /\ out = Append(f, l)
    BY <2>1 DEF f, l
  <2>3. /\ Composed(Append(f, l)) => Composed(f)
        /\ Visible(Append(f, l)) => Visible(f)
        /\ Folded(Append(f, l)) => Folded(f)
    BY <2>2, ComposedMore, VisibleMore
  <2>. QED  BY <2>2, <2>3 DEF f
<1>4. \A u : /\ Even("nfc", u) <=> Composed(u)
             /\ Even("zeroWidth", u) <=> Visible(u)
             /\ Even("caseFold", u) <=> Folded(u)
  BY DEF Even, Rough
<1>5. /\ Copied(pass, t) /\ Composed(t) => Composed(Pass(pass, t))
      /\ Visible(t) => Visible(Pass(pass, t))
      /\ pass = "whitespace" /\ Folded(t) => Folded(Pass(pass, t))
  BY <1>1, <1>2, <1>3, Zenon
<1>. QED  BY <1>4, <1>5, Zenon

(* Composing brings no zero-width character back.                           *)
LEMMA ComposingKeepsVisible ==
  ASSUME NEW t \in Seq(Character), Visible(t)
  PROVE  Visible(Passed("nfc", t))
<1>. DEFINE S == {u \in Seq(Character) : Visible(u) => Visible(Passed("nfc", u))}
<1>0. "nfc" \in Passes
  BY DEF Passes
<1>1. <<>> \in S
  BY <1>0, PassedEmpty
<1>2. ASSUME NEW u \in Seq(Character), NEW c \in Character, u \in S PROVE Append(u, c) \in S
  <2>. DEFINE out == Passed("nfc", u)
  <2>1. out \in Seq(Character) /\ Passed("nfc", Append(u, c)) = Put("nfc", out, c)
    BY <1>0, PassedType, PassedStep
  <2>2. Visible(u) => Visible(out)
    BY <1>2
  <2>. HIDE DEF out
  <2>3. Visible(Append(u, c)) <=> (Visible(u) /\ c # "zero_width")
    BY VisibleMore
  <2>4. Visible(Append(out, c)) <=> (Visible(out) /\ c # "zero_width")
    BY <2>1, VisibleMore
  <2>7. Append(u, c) \in Seq(Character)
    OBVIOUS
  <2>5. CASE out # <<>> /\ <<Last(out), c>> \in Pairs
    <3>0. PICK f \in Seq(Character), l \in Character, x \in Character : Composes(out, c, f, l, x)
      BY <2>1, <2>5, ComposeIs
    <3>1. out = Append(f, l) /\ Put("nfc", out, c) = Append(f, x) /\ x # "zero_width"
      BY <3>0 DEF Composes
    <3>2. /\ Visible(Append(f, l)) <=> (Visible(f) /\ l # "zero_width")
          /\ Visible(Append(f, x)) <=> (Visible(f) /\ x # "zero_width")
      BY <3>1, VisibleMore
    <3>3. Visible(Append(u, c)) => Visible(Passed("nfc", Append(u, c)))
      BY <2>1, <2>2, <2>3, <3>1, <3>2, Zenon
    <3>. QED  BY <2>7, <3>3
  <2>6. CASE ~ (out # <<>> /\ <<Last(out), c>> \in Pairs)
    <3>1. Put("nfc", out, c) = Append(out, c)
      BY <2>6, PutIs, Zenon
    <3>2. Visible(Append(u, c)) => Visible(Passed("nfc", Append(u, c)))
      BY <2>1, <2>2, <2>3, <2>4, <3>1, Zenon
    <3>. QED  BY <2>7, <3>2
  <2>. QED  BY <2>5, <2>6, Zenon
<1>3. t \in S
  <2>. HIDE DEF S
  <2>. QED  BY <1>1, <1>2, EverySequence
<1>. QED  BY <1>3

(* Stripping brings no character back.                                      *)
LEMMA StrippingKeepsUnexpanded ==
  ASSUME NEW t \in Seq(Character), Unexpanded(t)
  PROVE  Unexpanded(Passed("zeroWidth", t))
<1>. DEFINE S == {u \in Seq(Character) : Unexpanded(u) => Unexpanded(Passed("zeroWidth", u))}
<1>0. "zeroWidth" \in Passes
  BY DEF Passes
<1>1. <<>> \in S
  BY <1>0, PassedEmpty
<1>2. ASSUME NEW u \in Seq(Character), NEW c \in Character, u \in S PROVE Append(u, c) \in S
  <2>. DEFINE out == Passed("zeroWidth", u)
  <2>1. out \in Seq(Character) /\ Passed("zeroWidth", Append(u, c)) = Put("zeroWidth", out, c)
    BY <1>0, PassedType, PassedStep
  <2>2. Unexpanded(u) => Unexpanded(out)
    BY <1>2
  <2>. HIDE DEF out
  <2>3. /\ Unexpanded(Append(u, c)) <=> (Unexpanded(u) /\ c \notin Expanding)
        /\ Unexpanded(Append(out, c)) <=> (Unexpanded(out) /\ c \notin Expanding)
    BY <2>1, VisibleMore
  <2>4. Put("zeroWidth", out, c) = IF c = "zero_width" THEN out ELSE Append(out, c)
    BY PutIs, Zenon
  <2>5. Unexpanded(Append(u, c)) => Unexpanded(Passed("zeroWidth", Append(u, c)))
    BY <2>1, <2>2, <2>3, <2>4, Zenon
  <2>6. Append(u, c) \in Seq(Character)
    OBVIOUS
  <2>. QED  BY <2>5, <2>6
<1>3. t \in S
  <2>. HIDE DEF S
  <2>. QED  BY <1>1, <1>2, EverySequence
<1>. QED  BY <1>3

-----------------------------------------------------------------------------
(* Without a zero-width character in front of a mark, it makes no           *)
(* difference whether these are stripped before or after composing.         *)

LEMMA SplitMore ==
  ASSUME NEW u \in Seq(Character), NEW c \in Character, ~ Split(Append(u, c))
  PROVE  ~ Split(u) /\ (c \in Mark /\ u # <<>> => Last(u) # "zero_width")
<1>. DEFINE t == Append(u, c)  n == Len(u)
<1>1. n \in Nat /\ Len(t) = n + 1 /\ t[n + 1] = c /\ \A i \in 1..n : t[i] = u[i]
  BY OneMore
<1>2. u # <<>> => n # 0
  OBVIOUS
<1>3. Last(u) = u[n]
  BY DEF Last
<1>4. Split(u) <=> \E i \in 2..n : u[i - 1] = "zero_width" /\ u[i] \in Mark
  BY DEF Split
<1>5. ~ \E i \in 2..Len(t) : t[i - 1] = "zero_width" /\ t[i] \in Mark
  BY DEF Split
<1>. HIDE DEF t, n
<1>6. \A i \in 2..(n + 1) : ~ (t[i - 1] = "zero_width" /\ t[i] \in Mark)
  BY <1>1, <1>5
<1>7. \A i \in 2..n : i \in 2..(n + 1) /\ t[i - 1] = u[i - 1] /\ t[i] = u[i]
  BY <1>1
<1>8. ~ Split(u)
  BY <1>4, <1>6, <1>7, Zenon
<1>9. ASSUME c \in Mark, u # <<>>, Last(u) = "zero_width" PROVE FALSE
  <2>1. n + 1 \in 2..(n + 1) /\ (n + 1) - 1 = n /\ n \in 1..n
    BY <1>1, <1>2, <1>9
  <2>. QED  BY <1>1, <1>3, <1>6, <1>9, <2>1
<1>. QED  BY <1>8, <1>9, Zenon

LEMMA FrontOfMore ==
  ASSUME NEW u \in Seq(Character), NEW c \in Character
  PROVE  Front(Append(u, c)) = u
<1>. DEFINE t == Append(u, c)  f == Front(t)
<1>1. t \in Seq(Character) /\ t # <<>> /\ Len(t) = Len(u) + 1 /\ \A i \in 1..Len(u) : t[i] = u[i]
  BY OneMore
<1>. HIDE DEF t
<1>2. f \in Seq(Character) /\ Len(f) = Len(t) - 1 /\ \A i \in 1..(Len(t) - 1) : f[i] = t[i]
  BY <1>1, FrontLast
<1>. HIDE DEF f
<1>3. Len(u) \in Nat
  OBVIOUS
<1>4. Len(f) = Len(u) /\ \A i \in 1..Len(u) : f[i] = u[i]
  BY <1>1, <1>2, <1>3
<1>5. f = u
  BY <1>2, <1>4
<1>. QED  BY <1>5 DEF f, t

LEMMA StripAndCompose ==
  ASSUME NEW t \in Seq(Character), ~ Split(t)
  PROVE  Passed("zeroWidth", Passed("nfc", t)) = Passed("nfc", Passed("zeroWidth", t))
<1>. DEFINE N(u) == Passed("nfc", u)
            Z(u) == Passed("zeroWidth", u)
            Good(u) == /\ u = <<>> => N(u) = <<>>
                       /\ u # <<>> /\ Last(u) # "zero_width" =>
                             N(u) # <<>> /\ Last(N(u)) # "zero_width"
                       /\ ~ Split(u) => Z(N(u)) = N(Z(u))
            S == {u \in Seq(Character) : Good(u)}
<1>0. "nfc" \in Passes /\ "zeroWidth" \in Passes
  BY DEF Passes
<1>1. <<>> \in S
  <2>1. N(<<>>) = <<>> /\ Z(<<>>) = <<>> /\ <<>> \in Seq(Character)
    BY <1>0, PassedEmpty
  <2>2. Good(<<>>)
    BY <2>1, Zenon
  <2>. HIDE DEF Good
  <2>. QED  BY <2>1, <2>2
<1>2. ASSUME NEW u \in Seq(Character), NEW c \in Character, u \in S PROVE Append(u, c) \in S
  <2>. DEFINE A == N(u)  B == Z(A)  V == Z(u)  uc == Append(u, c)
  <2>1. /\ A \in Seq(Character) /\ V \in Seq(Character) /\ B \in Seq(Character)
    <3>1. A \in Seq(Character) /\ V \in Seq(Character)
      BY <1>0, PassedType
    <3>. HIDE DEF A
    <3>. QED  BY <1>0, <3>1, PassedType
  <2>2. /\ N(uc) = Put("nfc", A, c) /\ Z(uc) = Put("zeroWidth", V, c)
        /\ uc \in Seq(Character) /\ uc # <<>> /\ Last(uc) = c
    BY <1>0, PassedStep, OneMore
  <2>3. /\ u = <<>> => A = <<>>
        /\ u # <<>> /\ Last(u) # "zero_width" => A # <<>> /\ Last(A) # "zero_width"
        /\ ~ Split(u) => B = N(V)
    BY <1>2
  <2>. HIDE DEF A, B, V
  <2>4. ASSUME NEW x \in Seq(Character), NEW d \in Character
        PROVE  /\ N(Append(x, d)) = Put("nfc", N(x), d)
               /\ Z(Append(x, d)) = IF d = "zero_width" THEN Z(x) ELSE Append(Z(x), d)
               /\ Append(x, d) \in Seq(Character) /\ Append(x, d) # <<>> /\ Last(Append(x, d)) = d
               /\ Z(x) \in Seq(Character)
    <3>1. Z(Append(x, d)) = Put("zeroWidth", Z(x), d)
      BY <1>0, PassedStep
    <3>2. Z(Append(x, d)) = IF d = "zero_width" THEN Z(x) ELSE Append(Z(x), d)
      BY <3>1, PutIs, Zenon
    <3>3. N(Append(x, d)) = Put("nfc", N(x), d) /\ Z(x) \in Seq(Character)
      BY <1>0, PassedStep, PassedType
    <3>4. Append(x, d) \in Seq(Character) /\ Append(x, d) # <<>> /\ Last(Append(x, d)) = d
      BY OneMore
    <3>. HIDE DEF N, Z
    <3>. QED  BY <3>2, <3>3, <3>4, Zenon
  <2>5. Z(A) = B
    BY DEF B
  <2>6. ~ Split(uc) => ~ Split(u) /\ (c \in Mark /\ u # <<>> => Last(u) # "zero_width")
    BY SplitMore
  <2>. HIDE DEF N, Z, uc
  <2>7. Z(uc) = IF c = "zero_width" THEN V ELSE Append(V, c)
    BY <2>2, PutIs, Zenon
  <2>8. Good(uc)
    <3>1. CASE A # <<>> /\ <<Last(A), c>> \in Pairs
      <4>0. PICK f \in Seq(Character), l \in Character, x \in Character : Composes(A, c, f, l, x)
        BY <2>1, <3>1, ComposeIs
      <4>1. /\ A = Append(f, l) /\ Last(A) = l
            /\ x = Composite[<<Last(A), c>>] /\ Put("nfc", A, c) = Append(f, x)
            /\ c # "zero_width" /\ l # "zero_width" /\ x # "zero_width"
        BY <4>0 DEF Composes
      <4>. DEFINE G == Z(f)
      <4>2. G \in Seq(Character)
        BY <2>4, <4>1
      <4>3. B = Append(G, l) /\ Z(N(uc)) = Append(G, x)
        <5>1. Z(Append(f, l)) = Append(Z(f), l) /\ Z(Append(f, x)) = Append(Z(f), x)
          BY <2>4, <4>1
        <5>. QED  BY <2>2, <2>5, <4>1, <5>1
      <4>. HIDE DEF G
      <4>4. Last(Append(f, x)) = x /\ Append(f, x) # <<>>
        BY <2>4, <4>1
      <4>5. ASSUME ~ Split(uc) PROVE Z(N(uc)) = N(Z(uc))
        <5>1. B = N(V) /\ Z(uc) = Append(V, c)
          BY <2>3, <2>6, <2>7, <4>1, <4>5, Zenon
        <5>2. N(Append(V, c)) = Put("nfc", B, c)
          BY <2>1, <2>4, <5>1
        <5>3. B # <<>> /\ Last(B) = l /\ Front(B) = G
          BY <2>4, <4>1, <4>2, <4>3, FrontOfMore
        <5>4. Put("nfc", B, c) = Append(Front(B), Composite[<<Last(B), c>>])
          BY <3>1, <4>1, <5>3, PutIs, Zenon
        <5>. QED  BY <4>1, <4>3, <5>1, <5>2, <5>3, <5>4, Zenon
      <4>. QED  BY <2>2, <4>1, <4>4, <4>5, Zenon
    <3>2. CASE ~ (A # <<>> /\ <<Last(A), c>> \in Pairs)
      <4>1. N(uc) = Append(A, c)
        BY <2>2, <3>2, PutIs, Zenon
      <4>2. Z(N(uc)) = IF c = "zero_width" THEN B ELSE Append(B, c)
        <5>1. Z(Append(A, c)) = IF c = "zero_width" THEN Z(A) ELSE Append(Z(A), c)
          BY <2>1, <2>4
        <5>. QED  BY <2>5, <4>1, <5>1
      <4>3. Last(Append(A, c)) = c /\ Append(A, c) # <<>>
        BY <2>1, <2>4
      <4>4. ASSUME ~ Split(uc), c # "zero_width" PROVE Z(N(uc)) = N(Z(uc))
        <5>1. B = N(V) /\ Z(uc) = Append(V, c)
          BY <2>3, <2>6, <2>7, <4>4, Zenon
        <5>2. N(Append(V, c)) = Put("nfc", B, c)
          BY <2>1, <2>4, <5>1
        <5>3. ASSUME B # <<>>, <<Last(B), c>> \in Pairs PROVE FALSE
          <6>1. c \in Mark
            BY <5>3, PairIs DEF Mark
          <6>2. A # <<>>
            <7>1. Z(<<>>) = <<>>
              BY <1>0, PassedEmpty DEF Z
            <7>. QED  BY <2>5, <5>3, <7>1, Zenon
          <6>3. Last(A) # "zero_width"
            BY <2>3, <2>6, <4>4, <6>1, <6>2, Zenon
          <6>4. /\ Front(A) \in Seq(Character) /\ Last(A) \in Character
                /\ A = Append(Front(A), Last(A))
            BY <2>1, <6>2, FrontLast
          <6>5. B = Append(Z(Front(A)), Last(A))
            <7>1. Z(Append(Front(A), Last(A))) = Append(Z(Front(A)), Last(A))
              BY <2>4, <6>3, <6>4
            <7>. QED  BY <2>5, <6>4, <7>1, Zenon
          <6>6. Last(B) = Last(A)
            BY <2>4, <6>4, <6>5
          <6>. QED  BY <3>2, <5>3, <6>2, <6>6, Zenon
        <5>4. Put("nfc", B, c) = Append(B, c)
          BY <5>3, PutIs, Zenon
        <5>. QED  BY <4>2, <4>4, <5>1, <5>2, <5>4, Zenon
      <4>5. ASSUME ~ Split(uc), c = "zero_width" PROVE Z(N(uc)) = N(Z(uc))
        BY <2>3, <2>6, <2>7, <4>2, <4>5, Zenon
      <4>. QED  BY <2>2, <4>1, <4>3, <4>4, <4>5, Zenon
    <3>. HIDE DEF Good
    <3>. QED  BY <3>1, <3>2
  <2>. HIDE DEF Good
  <2>. QED  BY <2>2, <2>8 DEF uc
<1>3. t \in S
  <2>. HIDE DEF S
  <2>. QED  BY <1>1, <1>2, EverySequence
<1>. QED  BY <1>3

-----------------------------------------------------------------------------
(* The normal form.                                                        *)

LEMMA PassIs ==
  ASSUME NEW pass \in Passes, pass # "whitespace", NEW t
  PROVE  Pass(pass, t) = Passed(pass, t)
BY Zenon DEF Pass

LEMMA IfIs ==
  ASSUME NEW o, NEW pass, NEW t
  PROVE  /\ o[pass] => If(o, pass, t) = Pass(pass, t)
         /\ ~ o[pass] => If(o, pass, t) = t
BY Zenon DEF If

LEMMA IfPassed ==
  ASSUME NEW pass \in Passes, pass # "whitespace", NEW t, NEW o, o[pass]
  PROVE  If(o, pass, t) = Passed(pass, t)
<1>1. If(o, pass, t) = Pass(pass, t)
  BY IfIs, Zenon
<1>2. Pass(pass, t) = Passed(pass, t)
  BY PassIs, Zenon
<1>. QED  BY <1>1, <1>2, Zenon

LEMMA NormalizeIs ==
  ASSUME NEW t, NEW o
  PROVE  Normalize(t, o) =
           If(o, "whitespace", If(o, "caseFold", If(o, "zeroWidth", If(o, "nfc", t))))
BY Zenon DEF Normalize

LEMMA IfKeeps ==
  ASSUME NEW pass \in {"caseFold", "whitespace"}, NEW t \in Seq(Character), NEW o
  PROVE  /\ (o[pass] => Copied(pass, t)) /\ Even("nfc", t) => Even("nfc", If(o, pass, t))
         /\ Even("zeroWidth", t) => Even("zeroWidth", If(o, pass, t))
         /\ pass = "whitespace" /\ Even("caseFold", t) => Even("caseFold", If(o, pass, t))
<1>1. CASE o[pass]
  BY <1>1, IfIs, PassKeeps, Zenon
<1>2. CASE ~ o[pass]
  BY <1>2, IfIs, Zenon
<1>. QED  BY <1>1, <1>2, Zenon

LEMMA IfEven ==
  ASSUME NEW pass \in Passes, NEW t \in Seq(Character), NEW o
  PROVE  /\ o[pass] => Even(pass, If(o, pass, t))
         /\ (o[pass] => Even(pass, t)) => If(o, pass, t) = t
<1>1. CASE o[pass]
  <2>1. If(o, pass, t) = Pass(pass, t)
    BY <1>1, IfIs, Zenon
  <2>2. Even(pass, Pass(pass, t)) /\ (Even(pass, t) => Pass(pass, t) = t)
    BY PassEven
  <2>. QED  BY <1>1, <2>1, <2>2, Zenon
<1>2. CASE ~ o[pass]
  BY <1>2, IfIs, Zenon
<1>. QED  BY <1>1, <1>2, Zenon

LEMMA NormalFormIsEven ==
  ASSUME NEW t \in Seq(Character), NEW o \in NormalizationOptions,
         ~ (o["nfc"] /\ o["zeroWidth"] /\ Split(t)),
         ~ (o["nfc"] /\ o["caseFold"] /\ Expands(t)), NEW pass \in Passes, o[pass]
  PROVE  Even(pass, Normalize(t, o))
<1>. DEFINE a == If(o, "nfc", t)
            b == If(o, "zeroWidth", a)
            f == If(o, "caseFold", b)
            n == If(o, "whitespace", f)
<1>0. {"nfc", "zeroWidth", "caseFold", "whitespace"} \subseteq Passes
      /\ {"caseFold", "whitespace"} \subseteq Passes
      /\ "whitespace" \in {"caseFold", "whitespace"} /\ "caseFold" \in {"caseFold", "whitespace"}
      /\ "nfc" \in Passes /\ "zeroWidth" \in Passes /\ "caseFold" \in Passes /\ "whitespace" \in Passes
      /\ "zeroWidth" # "whitespace"
  BY DEF Passes
<1>1. a \in Seq(Character) /\ (o["nfc"] => Even("nfc", a))
  BY <1>0, IfType, IfEven
<1>2. b \in Seq(Character) /\ (o["zeroWidth"] => Even("zeroWidth", b))
  <2>. HIDE DEF a
  <2>. QED  BY <1>0, <1>1, IfType, IfEven
<1>3. o["nfc"] => Even("nfc", b)
  <2>1. CASE ~ o["zeroWidth"]
    <3>1. b = a
      BY <2>1, IfIs, Zenon
    <3>. QED  BY <1>1, <3>1, Zenon
  <2>2. CASE o["zeroWidth"] /\ o["nfc"]
    <3>1. ~ Split(t)
      BY <2>2, Zenon
    <3>2. b = Passed("zeroWidth", Passed("nfc", t))
      <4>1. "nfc" # "whitespace" /\ "zeroWidth" # "whitespace"
        OBVIOUS
      <4>2. a = Passed("nfc", t)
        BY <1>0, <2>2, <4>1, IfPassed, Zenon
      <4>3. b = Passed("zeroWidth", a)
        <5>. HIDE DEF a
        <5>. QED  BY <1>0, <2>2, <4>1, IfPassed, Zenon
      <4>. QED  BY <4>2, <4>3, Zenon
    <3>3. b = Passed("nfc", Passed("zeroWidth", t))
      BY <3>1, <3>2, StripAndCompose, Zenon
    <3>4. Passed("zeroWidth", t) \in Seq(Character)
      BY <1>0, PassedType
    <3>5. Rough("nfc", b)
      <4>1. Rough("nfc", Passed("nfc", Passed("zeroWidth", t)))
        BY <1>0, <3>4, PassedRough, Zenon
      <4>. QED  BY <3>3, <4>1, Zenon
    <3>6. "nfc" # "whitespace"
      OBVIOUS
    <3>. QED  BY <3>5, <3>6, Zenon DEF Even
  <2>. QED  BY <2>1, <2>2, Zenon
<1>3a. o["nfc"] /\ o["caseFold"] => Unexpanded(b)
  <2>. SUFFICES ASSUME o["nfc"], o["caseFold"] PROVE Unexpanded(b)
    OBVIOUS
  <2>1. a = Pass("nfc", t)
    BY IfIs, Zenon
  <2>2. ~ Expands(t)
    BY Zenon
  <2>3. Unexpanded(a)
    <3>1. \A i \in 1..Len(a) : ~ (Len(Folding[a[i]]) > 1)
      BY <2>1, <2>2, Zenon DEF Expands
    <3>. HIDE DEF a
    <3>2. ASSUME NEW i \in 1..Len(a) PROVE a[i] \notin Expanding
      <4>1. a[i] \in Character
        BY <1>1, ElementOfSeq
      <4>. QED  BY <3>1, <4>1, ExpandingIs, Zenon
    <3>. QED  BY <3>2, Zenon DEF Unexpanded
  <2>. HIDE DEF a
  <2>4. CASE o["zeroWidth"]
    <3>1. b = Passed("zeroWidth", a)
      BY <1>0, <2>4, IfPassed, Zenon
    <3>2. Unexpanded(Passed("zeroWidth", a))
      BY <1>1, <2>3, StrippingKeepsUnexpanded, Zenon
    <3>. QED  BY <3>1, <3>2, Zenon
  <2>5. CASE ~ o["zeroWidth"]
    BY <2>3, <2>5, IfIs, Zenon
  <2>. QED  BY <2>4, <2>5, Zenon
<1>4. /\ f \in Seq(Character) /\ (o["caseFold"] => Even("caseFold", f))
      /\ o["nfc"] => Even("nfc", f)
      /\ o["zeroWidth"] => Even("zeroWidth", f)
  <2>. HIDE DEF b
  <2>1. f \in Seq(Character) /\ (o["caseFold"] => Even("caseFold", f))
    BY <1>0, <1>2, IfType, IfEven
  <2>2. /\ (o["caseFold"] => Copied("caseFold", b)) /\ Even("nfc", b) => Even("nfc", f)
        /\ Even("zeroWidth", b) => Even("zeroWidth", f)
    BY <1>0, <1>2, IfKeeps, Zenon
  <2>3. Unexpanded(b) => Copied("caseFold", b)
    BY Zenon DEF Copied
  <2>. QED  BY <1>2, <1>3, <1>3a, <2>1, <2>2, <2>3, Zenon
<1>5. /\ n \in Seq(Character) /\ (o["whitespace"] => Even("whitespace", n))
      /\ o["nfc"] => Even("nfc", n)
      /\ o["zeroWidth"] => Even("zeroWidth", n)
      /\ o["caseFold"] => Even("caseFold", n)
  <2>. HIDE DEF f
  <2>1. n \in Seq(Character) /\ (o["whitespace"] => Even("whitespace", n))
    BY <1>0, <1>4, IfType, IfEven
  <2>0. Copied("whitespace", f)
    BY DEF Copied
  <2>2. /\ Even("nfc", f) => Even("nfc", n)
        /\ Even("zeroWidth", f) => Even("zeroWidth", n)
        /\ Even("caseFold", f) => Even("caseFold", n)
    BY <1>0, <1>4, <2>0, IfKeeps, Zenon
  <2>. QED  BY <1>4, <2>1, <2>2, Zenon
<1>6. Normalize(t, o) = n
  BY NormalizeIs
<1>. HIDE DEF n
<1>. QED
  <2>1. pass = "nfc" \/ pass = "zeroWidth" \/ pass = "caseFold" \/ pass = "whitespace"
    BY DEF Passes
  <2>. QED  BY <1>5, <1>6, <2>1, Zenon

LEMMA EvenIsNormalForm ==
  ASSUME NEW t \in Seq(Character), NEW o \in NormalizationOptions,
         \A pass \in Passes : o[pass] => Even(pass, t)
  PROVE  Normalize(t, o) = t
<1>0. "nfc" \in Passes /\ "zeroWidth" \in Passes /\ "caseFold" \in Passes /\ "whitespace" \in Passes
  BY DEF Passes
<1>1. \A pass \in Passes : If(o, pass, t) = t
  BY IfEven, Zenon
<1>. QED  BY <1>0, <1>1, NormalizeIs, Zenon

LEMMA StrippedFirst ==
  ASSUME NEW t \in Seq(Character), NEW o \in NormalizationOptions,
         ~ (o["nfc"] /\ o["zeroWidth"] /\ Split(t)), o["zeroWidth"]
  PROVE  Normalize(Pass("zeroWidth", t), o) = Normalize(t, o)
<1>. DEFINE s == Pass("zeroWidth", t)
<1>0. /\ "nfc" \in Passes /\ "zeroWidth" \in Passes
      /\ "nfc" # "whitespace" /\ "zeroWidth" # "whitespace"
  BY DEF Passes
<1>1. s \in Seq(Character) /\ Even("zeroWidth", s) /\ Pass("zeroWidth", s) = s
  <2>1. s \in Seq(Character) /\ Even("zeroWidth", s)
    BY <1>0, PassType, PassEven
  <2>. HIDE DEF s
  <2>. QED  BY <1>0, <2>1, PassEven
<1>2. If(o, "zeroWidth", If(o, "nfc", s)) = If(o, "zeroWidth", If(o, "nfc", t))
  <2>1. CASE ~ o["nfc"]
    <3>1. If(o, "nfc", s) = s /\ If(o, "nfc", t) = t
      BY <2>1, IfIs, Zenon
    <3>2. If(o, "zeroWidth", s) = Pass("zeroWidth", s) /\ If(o, "zeroWidth", t) = s
      BY IfIs, Zenon
    <3>. QED  BY <1>1, <3>1, <3>2, Zenon
  <2>2. CASE o["nfc"]
    <3>. DEFINE w == Passed("nfc", s)
    <3>1. If(o, "nfc", s) = w /\ If(o, "nfc", t) = Passed("nfc", t)
      <4>1. If(o, "nfc", t) = Passed("nfc", t)
        BY <1>0, <2>2, IfPassed, Zenon
      <4>2. If(o, "nfc", s) = w
        BY <1>0, <2>2, IfPassed, Zenon
      <4>. QED  BY <4>1, <4>2
    <3>2. s = Passed("zeroWidth", t)
      BY <1>0, PassIs, Zenon
    <3>3. If(o, "zeroWidth", Passed("nfc", t)) = Passed("zeroWidth", Passed("nfc", t))
      BY <1>0, IfPassed, Zenon
    <3>4. ~ Split(t)
      BY <2>2, Zenon
    <3>5. Passed("zeroWidth", Passed("nfc", t)) = w
      BY <3>2, <3>4, StripAndCompose, Zenon
    <3>6. w \in Seq(Character)
      <4>. HIDE DEF s
      <4>. QED  BY <1>0, <1>1, PassedType
    <3>7. Visible(s)
      BY <1>1 DEF Even, Rough
    <3>8. Visible(w)
      <4>. HIDE DEF s
      <4>. QED  BY <1>1, <3>7, ComposingKeepsVisible
    <3>9. Even("zeroWidth", w)
      BY <3>8 DEF Even, Rough
    <3>10. Pass("zeroWidth", w) = w
      <4>. HIDE DEF w
      <4>. QED  BY <1>0, <3>6, <3>9, PassEven
    <3>11. If(o, "zeroWidth", w) = w
      <4>1. If(o, "zeroWidth", w) = Pass("zeroWidth", w)
        <5>. HIDE DEF w
        <5>. QED  BY IfIs, Zenon
      <4>. QED  BY <3>10, <4>1, Zenon
    <3>. QED  BY <3>1, <3>3, <3>5, <3>11, Zenon
  <2>. QED  BY <2>1, <2>2, Zenon
<1>. QED  BY <1>2, NormalizeIs, Zenon

LEMMA ComposedFirst ==
  ASSUME NEW t \in Seq(Character), NEW o \in NormalizationOptions, o["nfc"]
  PROVE  Normalize(Pass("nfc", t), o) = Normalize(t, o)
<1>. DEFINE s == Pass("nfc", t)
<1>0. "nfc" \in Passes
  BY DEF Passes
<1>1. s \in Seq(Character) /\ Even("nfc", s)
  BY <1>0, PassType, PassEven
<1>2. Pass("nfc", s) = s
  <2>. HIDE DEF s
  <2>. QED  BY <1>0, <1>1, PassEven
<1>3. If(o, "nfc", s) = If(o, "nfc", t)
  <2>1. If(o, "nfc", s) = Pass("nfc", s)
    BY IfIs, Zenon
  <2>2. If(o, "nfc", t) = s
    BY IfIs, Zenon
  <2>. QED  BY <1>2, <2>1, <2>2, Zenon
<1>. QED  BY <1>3, NormalizeIs, Zenon

(* A text without a zero-width character in front of a mark has one normal  *)
(* form, with zero-width characters or without, in either spelling, and,    *)
(* unless composing is followed by a folding that expands a character, the  *)
(* form is its own: for a text of any length in these characters and every  *)
(* combination of options.                                                  *)
THEOREM NormalFormsAreStable == HashSpec => []NormalFormIsStable
<1>1. ASSUME HashInv PROVE NormalFormIsStable
  <2>. SUFFICES ASSUME stage = "raw", ~ (options.nfc /\ options.zeroWidth /\ Split(text))
                PROVE  LET normal == Normalize(text, options)
                       IN  /\ ~ (options.nfc /\ options.caseFold /\ Expands(text)) =>
                                 Normalize(normal, options) = normal
                           /\ options.zeroWidth => Normalize(Pass("zeroWidth", text), options) = normal
                           /\ options.nfc => Normalize(Pass("nfc", text), options) = normal
    BY DEF NormalFormIsStable
  <2>1. text \in Seq(Character) /\ options \in NormalizationOptions
    BY <1>1 DEF HashInv, HashTyped
  <2>2. ~ (options["nfc"] /\ options["zeroWidth"] /\ Split(text))
    OBVIOUS
  <2>3. Normalize(text, options) \in Seq(Character)
    BY <2>1, NormalizeType
  <2>4. ~ (options["nfc"] /\ options["caseFold"] /\ Expands(text)) =>
           \A pass \in Passes : options[pass] => Even(pass, Normalize(text, options))
    BY <2>1, <2>2, NormalFormIsEven, Zenon
  <2>5. ~ (options["nfc"] /\ options["caseFold"] /\ Expands(text)) =>
           Normalize(Normalize(text, options), options) = Normalize(text, options)
    BY <2>1, <2>3, <2>4, EvenIsNormalForm, Zenon
  <2>6. options["zeroWidth"] => Normalize(Pass("zeroWidth", text), options) = Normalize(text, options)
    BY <2>1, <2>2, StrippedFirst, Zenon
  <2>7. options["nfc"] => Normalize(Pass("nfc", text), options) = Normalize(text, options)
    BY <2>1, ComposedFirst, Zenon
  <2>. QED  BY <2>5, <2>6, <2>7
<1>. QED  BY <1>1, HashInvariant, PTL

-----------------------------------------------------------------------------
(* Looking a window up.                                                    *)

(* A part of an even text is as even as the text, its two ends apart.       *)
LEMMA PartsAreEven ==
  ASSUME NEW t \in Seq(Character), NEW a \in Nat, NEW n \in Nat \ {0}, a + n <= Len(t),
         NEW pass \in Passes, Even(pass, t)
  PROVE  LET w == SubSeq(t, a + 1, a + n)
         IN  Even(pass, w) <=> (pass = "whitespace" => Head(w) # "space" /\ Last(w) # "space")
<1>. DEFINE w == SubSeq(t, a + 1, a + n)
<1>1. w \in Seq(Character) /\ Len(w) = n /\ \A i \in 1..n : w[i] = t[a + i]
  <2>1. a + n \in Nat /\ a <= a + n /\ (a + n) - a = n
    OBVIOUS
  <2>2. /\ w \in Seq(Character) /\ Len(w) = (a + n) - a
        /\ \A i \in 1..((a + n) - a) : w[i] = t[a + i]
    BY <2>1, PartOf
  <2>. HIDE DEF w
  <2>. QED  BY <2>1, <2>2
<1>. HIDE DEF w
<1>2. w # <<>> /\ Head(w) = w[1] /\ Last(w) = w[n]
  BY <1>1 DEF Last
<1>3. \A i \in 1..n : a + i \in 1..Len(t)
  OBVIOUS
<1>4. \A i \in 1..(n - 1) : /\ a + i \in 1..(Len(t) - 1) /\ i \in 1..n /\ i + 1 \in 1..n
                            /\ a + (i + 1) = (a + i) + 1
  OBVIOUS
<1>5. CASE pass = "nfc"
  <2>1. \A i \in 1..(Len(t) - 1) : <<t[i], t[i + 1]>> \notin Pairs
    BY <1>5 DEF Even, Rough, Composed
  <2>2. \A i \in 1..(n - 1) : <<w[i], w[i + 1]>> \notin Pairs
    <3>. SUFFICES ASSUME NEW i \in 1..(n - 1) PROVE <<w[i], w[i + 1]>> \notin Pairs
      OBVIOUS
    <3>1. w[i] = t[a + i] /\ w[i + 1] = t[(a + i) + 1]
      BY <1>1, <1>4
    <3>2. <<t[a + i], t[(a + i) + 1]>> \notin Pairs
      BY <1>4, <2>1
    <3>. QED  BY <3>1, <3>2
  <2>3. Composed(w)
    BY <1>1, <2>2, Zenon DEF Composed
  <2>. QED  BY <1>5, <2>3 DEF Even, Rough, w
<1>6. CASE pass = "zeroWidth"
  <2>1. \A i \in 1..Len(t) : t[i] # "zero_width"
    BY <1>6 DEF Even, Rough, Visible
  <2>2. \A i \in 1..n : w[i] # "zero_width"
    BY <1>1, <1>3, <2>1
  <2>3. Visible(w)
    BY <1>1, <2>2, Zenon DEF Visible
  <2>. QED  BY <1>6, <2>3 DEF Even, Rough, w
<1>7. CASE pass = "caseFold"
  <2>1. \A i \in 1..Len(t) : t[i] \notin Folds
    BY <1>7 DEF Even, Rough, Folded
  <2>2. \A i \in 1..n : w[i] \notin Folds
    BY <1>1, <1>3, <2>1
  <2>3. Folded(w)
    BY <1>1, <2>2, Zenon DEF Folded
  <2>. QED  BY <1>7, <2>3 DEF Even, Rough, w
<1>8. CASE pass = "whitespace"
  <2>1. \A i \in 1..(Len(t) - 1) : ~ (t[i] = "space" /\ t[i + 1] = "space")
    BY <1>8 DEF Even, Rough, Spaced
  <2>2. \A i \in 1..(n - 1) : ~ (w[i] = "space" /\ w[i + 1] = "space")
    <3>. SUFFICES ASSUME NEW i \in 1..(n - 1) PROVE ~ (w[i] = "space" /\ w[i + 1] = "space")
      OBVIOUS
    <3>1. w[i] = t[a + i] /\ w[i + 1] = t[(a + i) + 1]
      BY <1>1, <1>4
    <3>2. ~ (t[a + i] = "space" /\ t[(a + i) + 1] = "space")
      BY <1>4, <2>1
    <3>. QED  BY <3>1, <3>2
  <2>3. Spaced(w) <=> w[1] # "space"
    BY <1>1, <1>2, <2>2, Zenon DEF Spaced
  <2>4. Even(pass, w) <=> (Spaced(w) /\ Last(w) # "space")
    <3>1. Rough(pass, w) <=> Spaced(w)
      BY <1>8 DEF Rough
    <3>. QED  BY <1>2, <1>8, <3>1, Zenon DEF Even
  <2>. QED  BY <1>2, <1>8, <2>3, <2>4, Zenon DEF w
<1>. QED  BY <1>5, <1>6, <1>7, <1>8 DEF Passes

(* Every window of a text that no enabled pass changes any more is found    *)
(* under its fingerprint, unless it starts or ends in a space, and then it  *)
(* is not: for a text of any length in these characters, any window and any *)
(* stride.                                                                  *)
THEOREM WindowsAreFound == HashSpec => []WindowIsFound
<1>1. ASSUME HashInv PROVE WindowIsFound
  <2>. SUFFICES ASSUME stage = "done", options.whitespace,
                       \A pass \in DOMAIN options : options[pass] => Pass(pass, text) = text,
                       NEW k \in DOMAIN windows
                PROVE  LET w == windows[k].fingerprint
                       IN  FingerprintChunk(w) = w <=> (Head(w) # "space" /\ Last(w) # "space")
    BY DEF WindowIsFound
  <2>1. /\ HashTyped /\ text \in Seq(Character) /\ Len(text) \in Nat
        /\ options \in NormalizationOptions
        /\ window \in Nat \ {0} /\ stride \in Nat \ {0} /\ position \in Nat
    BY <1>1 DEF HashInv, HashTyped
  <2>2. PICK a \in Nat, n \in Nat \ {0} :
          a + n <= Len(text) /\ windows[k].fingerprint = SubSeq(text, a + 1, a + n)
    <3>1. \/ text = <<>> /\ windows = <<>>
          \/ /\ text # <<>> /\ Len(text) <= window
             /\ windows = <<Emit(0, Len(text), HashOf(SubSeq(text, 1, Len(text))))>>
          \/ position + window = Len(text) /\ windows = Emitted
      BY <1>1 DEF HashInv, HashProgress
    <3>2. CASE text = <<>> /\ windows = <<>>
      BY <3>2
    <3>3. CASE /\ text # <<>> /\ Len(text) <= window
               /\ windows = <<Emit(0, Len(text), HashOf(SubSeq(text, 1, Len(text))))>>
      <4>. DEFINE n == Len(text)
                  e == Emit(0, n, HashOf(SubSeq(text, 1, n)))
      <4>1. n \in Nat \ {0} /\ 0 + n <= Len(text) /\ 0 \in Nat
        BY <2>1, <3>3
      <4>2. windows = <<e>>
        BY <3>3
      <4>3. e.fingerprint = SubSeq(text, 0 + 1, 0 + n)
        BY DEF Emit
      <4>. HIDE DEF e, n
      <4>4. windows[k] = e
        BY <4>2
      <4>. QED  BY <4>1, <4>3, <4>4
    <3>4. CASE position + window = Len(text) /\ windows = Emitted
      <4>1. position + window <= Len(text)
        BY <2>1, <3>4
      <4>2. LET offset == (k - 1) * stride
            IN  /\ offset \in Nat /\ offset <= position
                /\ windows[k] = Emit(offset, window, HashOf(SubSeq(text, offset + 1, offset + window)))
                /\ windows[k] \in WindowHash
                /\ windows[k].offset = offset /\ windows[k].length = window
                /\ windows[k].fingerprint = SubSeq(text, offset + 1, offset + window)
        BY <2>1, <3>4, <4>1, EmittedIs
      <4>. DEFINE a == (k - 1) * stride
      <4>3. a \in Nat /\ a <= position /\ windows[k].fingerprint = SubSeq(text, a + 1, a + window)
        BY <4>2, Zenon
      <4>. HIDE DEF a
      <4>4. a + window <= Len(text)
        BY <2>1, <4>1, <4>3
      <4>. QED  BY <2>1, <4>3, <4>4
    <3>. QED  BY <3>1, <3>2, <3>3, <3>4, Zenon
  <2>. DEFINE w == SubSeq(text, a + 1, a + n)
  <2>3. w \in Seq(Character)
    <3>1. a + n \in Nat /\ a <= a + n
      OBVIOUS
    <3>. QED  BY <2>1, <2>2, <3>1, PartOf
  <2>4. \A pass \in Passes : options[pass] => Even(pass, text)
    <3>1. DOMAIN options = Passes
      BY <2>1 DEF NormalizationOptions, Passes
    <3>2. \A pass \in Passes : Even(pass, Pass(pass, text))
      BY <2>1, PassEven, Zenon
    <3>. QED  BY <3>1, <3>2, Zenon
  <2>5. \A pass \in Passes : options[pass] =>
          (Even(pass, w) <=> (pass = "whitespace" => Head(w) # "space" /\ Last(w) # "space"))
    BY <2>1, <2>2, <2>4, PartsAreEven
  <2>6. "whitespace" \in Passes /\ options["whitespace"]
    BY DEF Passes
  <2>. HIDE DEF w
  <2>7. ASSUME Normalize(w, options) = w PROVE Head(w) # "space" /\ Last(w) # "space"
    <3>1. Even("whitespace", w)
      <4>. DEFINE f == If(options, "caseFold", If(options, "zeroWidth", If(options, "nfc", w)))
      <4>1. "nfc" \in Passes /\ "zeroWidth" \in Passes /\ "caseFold" \in Passes
        BY DEF Passes
      <4>2. If(options, "nfc", w) \in Seq(Character)
        BY <2>1, <2>3, <4>1, IfType
      <4>3. If(options, "zeroWidth", If(options, "nfc", w)) \in Seq(Character)
        BY <2>1, <4>1, <4>2, IfType
      <4>4. f \in Seq(Character)
        BY <2>1, <4>1, <4>3, IfType
      <4>5. w = If(options, "whitespace", f)
        BY <2>7, NormalizeIs, Zenon
      <4>. HIDE DEF f
      <4>. QED  BY <2>6, <4>4, <4>5, IfEven, Zenon
    <3>. QED  BY <2>5, <2>6, <3>1, Zenon
  <2>8. ASSUME Head(w) # "space", Last(w) # "space" PROVE Normalize(w, options) = w
    <3>1. \A pass \in Passes : options[pass] => Even(pass, w)
      BY <2>5, <2>8, Zenon
    <3>. QED  BY <2>1, <2>3, <3>1, EvenIsNormalForm, Zenon
  <2>9. FingerprintChunk(w) = w <=> (Head(w) # "space" /\ Last(w) # "space")
    BY <2>7, <2>8, Zenon DEF FingerprintChunk
  <2>. QED  BY <2>2, <2>9, Zenon DEF w
<1>. QED  BY <1>1, HashInvariant, PTL
=============================================================================
