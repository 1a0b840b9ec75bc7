---------------------------- MODULE RebaseEngine ----------------------------
(***************************************************************************)
(* The rebase engine: the semantic diff of two versions of an intent, the  *)
(* risk analysis of the diff, the plan made of the analysis, and the gate  *)
(* that decides from the plan whether a rebase is applied without a human. *)
(*                                                                         *)
(* All of it is pure.  The state is the pair of versions a caller compares *)
(* and the plan he gets; every pair up to MaxClauses clauses is reached by *)
(* writing clauses into either version.                                    *)
(*                                                                         *)
(* Strings of the scope are naturals, which compare as the strings do.     *)
(* Every other clause is a key (clause_id, action and target, or rule_id), *)
(* whether its priority is Must, and a text that stands for the fields the *)
(* comparison looks at besides.                                            *)
(***************************************************************************)
EXTENDS Naturals, Sequences, FiniteSets, FiniteSetsExt

CONSTANTS
    Absent,         \* the id, clause, plan or checkpoint there is none of
    ClauseIds,      \* clause_ids, actions and rule_ids
    Texts,          \* the other fields of a constraint or criterion
    Descriptions,   \* the other field of an approval rule
    Strings,        \* items of the scope
    Written,        \* the lists the callers write into
    MaxClauses      \* clauses of the two versions together

VARIABLES
    base,           \* the version rebased from: a sequence of clauses per list
    head,           \* the version rebased to
    plan            \* the RebasePlan, or Absent

engineVars == <<base, head, plan>>

ScopeLists == {"in_scope", "out_of_scope"}
ConstraintLists == {"functional", "non_functional", "policy", "budget", "time"}
CriteriaLists == {"required", "optional"}
ActionLists == {"allowed_actions", "forbidden_actions"}
RuleLists == {"approval_requirements"}

\* The four sections of an intent that are compared, and their lists.
ListsOf == [scope |-> ScopeLists, constraints |-> ConstraintLists,
            acceptance_criteria |-> CriteriaLists,
            authority |-> ActionLists \union RuleLists]
Sections == DOMAIN ListsOf
Lists == UNION {ListsOf[s] : s \in Sections}

Clause(keys, musts, texts) == [key : keys, must : musts, text : texts]

\* What a list may hold.  A string or an action is nothing but its key, and a
\* rule has no priority.
Clauses(l) ==
    CASE l \in ScopeLists -> Clause(Strings, {FALSE}, {Absent})
      [] l \in ConstraintLists \union CriteriaLists ->
            Clause(ClauseIds \union {Absent}, BOOLEAN, Texts)
      [] l \in ActionLists -> Clause(ClauseIds, {FALSE}, {Absent})
      [] l \in RuleLists -> Clause(ClauseIds, {FALSE}, Descriptions)

\* What there is none of is not taken for something.
ASSUME EngineAssumption ==
    /\ Absent \notin ClauseIds /\ \A l \in Lists : Absent \notin Clauses(l)
    /\ Strings \subseteq Nat
    /\ Written \subseteq Lists
    /\ MaxClauses \in Nat

Blank == [l \in Lists |-> <<>>]

Size(v) == Cardinality(UNION {{<<l, i>> : i \in DOMAIN v[l]} : l \in Written})
-----------------------------------------------------------------------------
(* The diff.  An entry has the place it was found at, so that equal entries *)
(* of a list stay apart.                                                    *)

Entry(change, at, before, after) ==
    [change |-> change, at |-> at, before |-> before, after |-> after]

\* The place of the clause k in the sorted list; equal strings keep their order.
Place(s, k) ==
    Cardinality({i \in DOMAIN s : s[i].key < s[k].key \/ (s[i].key = s[k].key /\ i <= k)})

Sorted(s) == [n \in DOMAIN s |-> s[CHOOSE k \in DOMAIN s : Place(s, k) = n]]

\* The i-th clause of s comes before what is left of t from its j-th on.
Precedes(s, i, t, j) == i <= Len(s) /\ (j > Len(t) \/ s[i].key < t[j].key)

\* Two sorted lists are merged; what only one of them has is a change.
Merge(b, a) ==
    LET Rest[at \in (1 .. Len(b) + 1) \X (1 .. Len(a) + 1)] ==
            LET i == at[1]
                j == at[2]
            IN  CASE Precedes(b, i, a, j) ->
                        Rest[<<i + 1, j>>] \union {Entry("Removed", i, b[i], Absent)}
                  [] Precedes(a, j, b, i) ->
                        Rest[<<i, j + 1>>] \union {Entry("Added", j, Absent, a[j])}
                  [] i <= Len(b) /\ j <= Len(a) /\ b[i].key = a[j].key -> Rest[<<i + 1, j + 1>>]
                  [] OTHER -> {}
    IN  Rest[<<1, 1>>]

\* diff_string_lists.
DiffStrings(before, after) == Merge(Sorted(before), Sorted(after))

\* Keys that are given, whether or not they are unique.
UniqueOrNot(s) == {i \in DOMAIN s : s[i].key # Absent}

\* The places of clauses whose key identifies them in their list.
Unique(s) ==
    {i \in DOMAIN s : s[i].key # Absent /\ \A k \in DOMAIN s : s[k].key = s[i].key => k = i}

\* Clauses are matched by keys unique in both lists; all others were removed from the
\* one version and added to the other.
DiffKeyed(before, after) ==
    LET pairs == {p \in Unique(before) \X Unique(after) : before[p[1]].key = after[p[2]].key}
    IN  {Entry("Modified", p[1], before[p[1]], after[p[2]])
            : p \in {q \in pairs : before[q[1]] # after[q[2]]}}
        \union {Entry("Removed", i, before[i], Absent)
            : i \in {k \in DOMAIN before : \A p \in pairs : p[1] # k}}
        \union {Entry("Added", j, Absent, after[j])
            : j \in {k \in DOMAIN after : \A p \in pairs : p[2] # k}}

\* diff_intent_version.
Diff(before, after) ==
    [l \in Lists |-> IF l \in ScopeLists THEN DiffStrings(before[l], after[l])
                                         ELSE DiffKeyed(before[l], after[l])]
-----------------------------------------------------------------------------
(* The risk of a diff.                                                      *)

Low == 0
Medium == 1
High == 2
Critical == 3

Highest(S) == Max(S \union {Low})

AtLeast(floor, changed, severity) == IF changed THEN Highest({floor, severity}) ELSE severity

\* compute_constraint_severity, compute_acceptance_criterion_severity.
ClauseSeverity(e) == IF e.change # "Removed" /\ e.after.must THEN High ELSE Medium

\* The clause a policy entry is judged by: the old one, the new one when there is none.
Judged(e) == IF e.before # Absent THEN e.before ELSE e.after

PolicySeverity(d) ==
    IF \E e \in d : Judged(e).must
      THEN Critical
      ELSE AtLeast(High, d # {}, Highest({ClauseSeverity(e) : e \in d}))

\* analyze_constraint_category.
ConstraintSeverity(l, d) ==
    IF l = "policy" THEN PolicySeverity(d) ELSE Highest({ClauseSeverity(e) : e \in d})

\* analyze_acceptance_criterion_category.
CriterionSeverity(l, d) ==
    AtLeast(Medium, l = "required" /\ d # {}, Highest({ClauseSeverity(e) : e \in d}))

ActionSeverity(l, e) ==
    CASE e.change = "Removed" /\ l = "forbidden_actions" -> Critical
      [] e.change = "Removed" /\ l # "forbidden_actions" -> High
      [] OTHER -> Medium

RuleSeverity(e) ==
    CASE e.change = "Added" -> Medium
      [] e.change = "Removed" -> Critical
      [] e.change = "Modified" -> High

\* Without the floor: additions to the authority are Medium.
AuthoritySeverityUnraised(D) ==
    Highest({RuleSeverity(e) : e \in D["approval_requirements"]}
        \union UNION {{ActionSeverity(l, e) : e \in D[l]} : l \in ActionLists})

\* analyze_authority_risk: any change of the authority is High.
AuthoritySeverity(D) ==
    AtLeast(High, \E l \in ListsOf.authority : D[l] # {},
            Highest({RuleSeverity(e) : e \in D["approval_requirements"]}
                \union UNION {{ActionSeverity(l, e) : e \in D[l]} : l \in ActionLists}))

SectionSeverity(s, D) ==
    CASE s = "scope" -> AtLeast(Medium, \E l \in ScopeLists : D[l] # {}, Low)
      [] s = "constraints" -> Highest({ConstraintSeverity(l, D[l]) : l \in ConstraintLists})
      [] s = "acceptance_criteria" -> Highest({CriterionSeverity(l, D[l]) : l \in CriteriaLists})
      [] s = "authority" -> AuthoritySeverity(D)

\* MatchingStats: a modified clause was matched; a string, and a clause without an
\* id, is ambiguous; every other addition or removal has no match.
Match(l, e) ==
    CASE e.change = "Modified" -> "unique"
      [] l \in ScopeLists /\ e.change # "Modified" -> "ambiguous"
      [] l \in ConstraintLists \union CriteriaLists /\ e.change # "Modified"
            /\ Judged(e).key = Absent -> "ambiguous"
      [] OTHER -> "no_match"

Changes(D) == UNION {{<<l, e>> : e \in D[l]} : l \in Lists}

Matched(D, quality) == Cardinality({c \in Changes(D) : Match(c[1], c[2]) = quality})

\* compute_confidence in tenths of a change: 1.0, 0.5 and 0.8 for the three kinds.
Confidence(D) ==
    10 * Matched(D, "unique") + 5 * Matched(D, "ambiguous") + 8 * Matched(D, "no_match")

\* At the threshold itself, too.
LowConfidenceAtThreshold(D) == Confidence(D) <= 7 * Cardinality(Changes(D)) /\ Changes(D) # {}

\* Below the threshold of 0.7; no change is full confidence.
LowConfidence(D) == Confidence(D) < 7 * Cardinality(Changes(D))

ChangedSections(D) == {s \in Sections : \E l \in ListsOf[s] : D[l] # {}}

\* should_manual_review, of the overall severity and the number of sections that are
\* High or Critical.
ManualReview(D, severity, high) ==
    \/ severity = Critical
    \/ LowConfidence(D)
    \/ D["policy"] # {}
    \/ high >= 3
    \/ \E e \in D["approval_requirements"] : e.change = "Removed"

\* analyze_diff_risk.
Risk(D) ==
    LET of == [s \in Sections |-> SectionSeverity(s, D)]
        severity == Highest({of[s] : s \in Sections})
        high == Cardinality({s \in Sections : of[s] >= High})
    IN  [severity |-> severity, high_sections |-> high,
         changed_sections |-> Cardinality(ChangedSections(D)),
         manual_review |-> ManualReview(D, severity, high)]
-----------------------------------------------------------------------------
(* The plan.                                                                *)

\* The authority is left out of the comparison.
IsDiffEmptyButAuthority(D) == \A l \in Lists \ ListsOf.authority : D[l] = {}

IsDiffEmpty(D) == \A l \in Lists : D[l] = {}

\* compute_decision_class.
DecisionClass(D, risk) ==
    IF IsDiffEmpty(D) THEN "A"
    ELSE CASE risk.severity = Critical \/ risk.high_sections >= 3 -> "E"
           [] risk.severity = High /\ risk.high_sections < 3 ->
                 IF risk.manual_review \/ risk.high_sections = 2 THEN "D" ELSE "C"
           [] risk.severity = Medium /\ risk.high_sections < 3 ->
                 CASE risk.manual_review \/ risk.changed_sections >= 3 -> "D"
                   [] ~risk.manual_review /\ risk.changed_sections = 2 -> "C"
                   [] OTHER -> "B"
           [] OTHER -> "B"

RiskLevel(D, class) ==
    CASE class = "A" -> 1
      [] class = "B" -> IF Confidence(D) < 5 * Cardinality(Changes(D)) THEN 3 ELSE 2
      [] class = "C" -> 3
      [] class = "D" -> 4
      [] class = "E" -> 5

\* compute_checkpoint_candidates; the plan is made before the graph is asked, so that
\* there are no affected items yet.
Candidates(class) ==
    IF class = "A" THEN {}
    ELSE {"most_recent"} \union (IF class \in {"D", "E"} THEN {"before_side_effects"} ELSE {})
                         \union (IF class = "E" THEN {"last_known_good"} ELSE {})
                         \union (IF class = "C" THEN {"minimal"} ELSE {})

\* select_best_checkpoint.
Preferred(class) ==
    CASE class = "B" -> <<"most_recent">>
      [] class = "C" -> <<"minimal", "most_recent">>
      [] class = "D" -> <<"before_side_effects", "before_invalidation", "most_recent">>
      [] class = "E" -> <<"last_known_good", "before_side_effects", "most_recent">>

Selected(class) ==
    IF class = "A" THEN Absent
    ELSE LET offered == {i \in DOMAIN Preferred(class) : Preferred(class)[i] \in Candidates(class)}
         IN  Preferred(class)[Min(offered)]

\* with_affected_approvals.
Strategy(class) ==
    CASE class \in {"A", "B"} -> "Drop"
      [] class = "C" -> "Incremental"
      [] OTHER -> "Full"

\* RiskTierGuard: the tier decides, class A is a no-op whatever the tier.
Gate(tier, class) ==
    CASE class = "A" -> "no_op"
      [] class # "A" /\ tier <= Medium -> "proceed"
      [] OTHER -> "blocked"

\* from_diff_and_risk.
PlanOf(D) ==
    LET risk == Risk(D)
        class == DecisionClass(D, risk)
    IN  [diff |-> D, tier |-> risk.severity, decision_class |-> class,
         sections |-> ChangedSections(D),
         manual_review_recommended |-> risk.manual_review \/ risk.severity >= High \/ class # "A",
         risk_level |-> RiskLevel(D, class), selected |-> Selected(class),
         strategy |-> Strategy(class), gate |-> Gate(risk.severity, class)]
-----------------------------------------------------------------------------
EngineInit == base = Blank /\ head = Blank /\ plan = Absent

\* The authors of the two versions.
WriteBase(l, c) ==
    /\ plan = Absent /\ Size(base) + Size(head) < MaxClauses
    /\ base' = [base EXCEPT ![l] = Append(@, c)]
    /\ UNCHANGED <<head, plan>>

WriteHead(l, c) ==
    /\ plan = Absent /\ Size(base) + Size(head) < MaxClauses
    /\ head' = [head EXCEPT ![l] = Append(@, c)]
    /\ UNCHANGED <<base, plan>>

\* compute_rebase_preview.
ComputePlan ==
    /\ plan = Absent
    /\ plan' = PlanOf(Diff(base, head))
    /\ UNCHANGED <<base, head>>

EngineNext ==
    \/ \E l \in Written : \E c \in Clauses(l) : WriteBase(l, c) \/ WriteHead(l, c)
    \/ ComputePlan

EngineSpec == EngineInit /\ [][EngineNext]_engineVars
-----------------------------------------------------------------------------
Planned == plan # Absent

\* The clauses of either version, and how often a version holds one.
Held(l) == {base[l][i] : i \in DOMAIN base[l]} \union {head[l][j] : j \in DOMAIN head[l]}

Times(v, l, c) == Cardinality({i \in DOMAIN v[l] : v[l][i] = c})

Same(l) == \A c \in Held(l) : Times(base, l, c) = Times(head, l, c)

Lost(l, c) == Times(head, l, c) < Times(base, l, c)

(* The diff tells the whole truth: whoever applies its entries to the base gets
   the clauses of the head, each as often as the head has it.  Sorting, matching
   by unique key and the fallback for ambiguous keys lose nothing and invent
   nothing. *)
DiffReplays ==
    Planned =>
        \A l \in Lists :
            /\ \A e \in plan.diff[l] : {e.before, e.after} \subseteq Held(l) \union {Absent}
            /\ \A c \in Held(l) :
                   Times(head, l, c) + Cardinality({e \in plan.diff[l] : e.before = c})
                       = Times(base, l, c) + Cardinality({e \in plan.diff[l] : e.after = c})

(* A plan of class A, which the gate turns into a no-op, is made only of versions
   that agree clause by clause in all four sections. *)
NoOpMeansSame ==
    Planned => (plan.gate = "no_op" => \A l \in Lists : Same(l))

(* Nothing that widens what an intent may do is applied without a human: neither
   any change of a policy constraint or of the authority, nor (class E) the loss
   of a forbidden action or of an approval rule. *)
WideningIsGated ==
    Planned =>
        /\ (\E l \in ListsOf.authority \union {"policy"} : ~Same(l)) => plan.gate = "blocked"
        /\ (\E c \in Held("forbidden_actions") : Lost("forbidden_actions", c))
              => plan.decision_class = "E"
        /\ (\E i \in DOMAIN base["approval_requirements"] :
                \A j \in DOMAIN head["approval_requirements"] :
                    head["approval_requirements"][j].key # base["approval_requirements"][i].key)
              => plan.decision_class = "E"

\* The changes that could not be told apart: strings and clauses without an id.  All
\* others are either matched to the clause they edit or have an id of their own.
Doubtful(D) ==
    {x \in Changes(D) :
        /\ x[2].change # "Modified"
        /\ \/ x[1] \in ScopeLists
           \/ x[1] \in ConstraintLists \union CriteriaLists /\ Judged(x[2]).key = Absent}

Edited(D) == {x \in Changes(D) : x[2].change = "Modified"}

Clear(D) == Changes(D) \ (Doubtful(D) \union Edited(D))

\* A doubtful change is outweighed by two clear ones, three by two edits; what is not
\* outweighed leaves the plan in doubt.
InDoubt(D) ==
    2 * Cardinality(Doubtful(D)) > Cardinality(Clear(D)) + 3 * Cardinality(Edited(D))

(* A plan that proceeds alone revalidates every approval exactly when it is in doubt
   or touches three sections, and then it resumes before side effects.  The weights of
   compute_confidence and its strict comparison with the threshold of 0.7 put the line
   there: a doubtful change with two clear ones is exactly 0.7, and not in doubt. *)
DoubtIsCareful ==
    Planned /\ plan.gate = "proceed" =>
        /\ plan.strategy = "Full" <=> InDoubt(plan.diff) \/ Cardinality(plan.sections) >= 3
        /\ plan.strategy = "Full" => plan.selected = "before_side_effects"
=============================================================================
