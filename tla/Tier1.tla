------------------------------- MODULE Tier1 -------------------------------
(***************************************************************************)
(* orchestration/supervisor_tier1.py: the rule-based router.  Of a task's  *)
(* description it uses how many keywords of each category it holds, how    *)
(* many times 40 words it is long, and its markers of a complex task.      *)
(***************************************************************************)
EXTENDS Naturals, SequencesExt

CONSTANTS
    MaxHits,        \* keywords of one category in a description
    MaxForties,
    MaxMarkers

ASSUME Tier1Assumption == {MaxHits, MaxForties, MaxMarkers} \subseteq Nat

\* WRONG: the most common category comes first.
WrongPriority == <<"coding", "security_defensive", "audit", "security_offensive">>

\* _PRIORITY: the most sensitive category first.
Priority == <<"security_offensive", "audit", "security_defensive", "coding">>

Categories == ToSet(Priority) \cup {"general"}

\* _ROLE_BY_CATEGORY
RoleOf(category) ==
    CASE category = "security_offensive" -> "sec_offensive"
      [] category = "audit" -> "auditor"
      [] category = "security_defensive" -> "sec_defensive"
      [] category \in {"coding", "general"} -> "coder"

\* _CATEGORY_BASE_COMPLEXITY
BaseComplexity(category) ==
    CASE category = "security_offensive" -> 3
      [] category = "audit" -> 2
      [] category = "security_defensive" -> 1
      [] category \in {"coding", "general"} -> 0

MaxComplexity == 10
Threshold == 7      \* escalation_threshold

\* Every keyword set of _CATEGORY_KEYWORDS and of _COMPLEX_MARKERS is a number
\* of hits; a " then " is a marker as well.
Descriptions ==
    [hits : [ToSet(Priority) -> 0..MaxHits], forties : 0..MaxForties, markers : 0..MaxMarkers]

\* classify: the category with the most hits, the first of them by priority.
Classify(text) ==
    LET best == Max(Range(text.hits)) IN
    IF best = 0 THEN "general"
    ELSE Priority[SelectInSeq(Priority, LAMBDA c : text.hits[c] = best)]

\* WRONG: the length of a description counts without limit.
WrongScore(text, category) ==
    Min({MaxComplexity, BaseComplexity(category) + text.forties + text.markers})

\* score_complexity
Score(text, category) ==
    Min({MaxComplexity,
         BaseComplexity(category) + Min({4, text.forties}) + text.markers})

\* route
TargetRole(text) == RoleOf(Classify(text))
Escalates(text) == Score(text, Classify(text)) >= Threshold
=============================================================================
