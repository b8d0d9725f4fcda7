---- MODULE PolicyEngine ----
(***************************************************************************)
(* The rules of policy_engine/: what a condition, a rule and a list of     *)
(* templates say about a payload, and how the answers of context hooks are *)
(* merged into one.                                                        *)
(*                                                                         *)
(* A payload is a function from the fields it has to values.  A value is a *)
(* number (a Boolean is 0 or 1, as in Python), a text or null; rank orders *)
(* the values of a kind.  Lists and objects in a payload are left out.  A  *)
(* condition's value is a set: the items of a list, or the one scalar.     *)
(***************************************************************************)
EXTENDS Integers, Sequences, SequencesExt

CONSTANT Parts  \* <<operator, text, value>>: the text contains, starts with,
                \* ends with the value

NullValue == [kind |-> "null", rank |-> 0]

\* payload.get(field)
Get(payload, field) == IF field \in DOMAIN payload THEN payload[field] ELSE NullValue

\* dict.update
Update(payload, answer) ==
    [f \in DOMAIN payload \cup DOMAIN answer |->
        IF f \in DOMAIN answer THEN answer[f] ELSE payload[f]]

\* enriched of resolve: the payload updated by one answer after the other
Enriched(payload, answers) ==
    LET enriched[n \in 0..Len(answers)] ==
          IF n = 0 THEN payload ELSE Update(enriched[n - 1], answers[n])
    IN enriched[Len(answers)]

\* Comparing a text with a number raises TypeError, which is no match.
Compares(operator, a, b) ==
    \/ /\ a.kind = b.kind
       /\ \/ operator = "gt" /\ a.rank > b.rank
          \/ operator = "gte" /\ a.rank >= b.rank
          \/ operator = "lt" /\ a.rank < b.rank
          \/ operator = "lte" /\ a.rank <= b.rank
          \/ operator = "eq" /\ a.rank = b.rank
    \/ operator \in {"contains", "starts_with", "ends_with"} /\ <<operator, a, b>> \in Parts

\* Mutant: a field the payload lacks is compared like any other.
MatchesNull(cond, payload) ==
    LET a == Get(payload, cond.field)
    IN \/ cond.operator = "in" /\ a \in cond.values
       \/ cond.operator = "not_in" /\ a \notin cond.values
       \/ cond.operator = "neq" /\ (cond.list \/ a \notin cond.values)
       \/ ~cond.list /\ \E b \in cond.values : Compares(cond.operator, a, b)

\* An unknown operator is no match.
SingleConditionMatches(cond, payload) ==
    LET a == Get(payload, cond.field)
    IN /\ a # NullValue
       /\ \/ cond.operator = "in" /\ a \in cond.values
          \/ cond.operator = "not_in" /\ a \notin cond.values
          \/ cond.operator = "neq" /\ (cond.list \/ a \notin cond.values)
          \/ ~cond.list /\ \E b \in cond.values : Compares(cond.operator, a, b)

AllConditionsMatch(conditions, payload) ==
    \A i \in DOMAIN conditions : SingleConditionMatches(conditions[i], payload)

\* A rule without any_of has the empty sequence there.
Applies(rule, payload) ==
    /\ AllConditionsMatch(rule.conditions, payload)
    /\ \/ rule.any_of = <<>>
       \/ \E i \in DOMAIN rule.any_of : SingleConditionMatches(rule.any_of[i], payload)

\* The rules of one template for the action type
OfType(action_type, rules) ==
    LET applicable_rules[n \in 0..Len(rules)] ==
          IF n = 0 THEN <<>>
          ELSE IF rules[n].action_type = action_type
               THEN Append(applicable_rules[n - 1], rules[n])
               ELSE applicable_rules[n - 1]
    IN applicable_rules[Len(rules)]

\* templates[i] is the rules of the i-th template that is loaded.
GetRulesForAction(action_type, templates) ==
    LET applicable_rules[n \in 0..Len(templates)] ==
          IF n = 0 THEN <<>>
          ELSE applicable_rules[n - 1] \o OfType(action_type, templates[n])
    IN applicable_rules[Len(templates)]

\* Mutant: the last rule that applies decides.
EvaluateLast(payload, rules) ==
    LET i == SelectLastInSeq(rules, LAMBDA rule : Applies(rule, payload))
    IN IF i = 0 THEN [status |-> "BLOCK", by |-> "NO_POLICY_MATCHED"]
       ELSE [status |-> rules[i].action, by |-> rules[i].rule_id]

\* PolicyEngine.evaluate on the rules of the action type
Evaluate(payload, rules) ==
    LET i == SelectInSeq(rules, LAMBDA rule : Applies(rule, payload))
    IN IF i = 0 THEN [status |-> "BLOCK", by |-> "NO_POLICY_MATCHED"]
       ELSE [status |-> rules[i].action, by |-> rules[i].rule_id]

Decide(action_type, payload, templates) ==
    LET rules == GetRulesForAction(action_type, templates)
    IN IF rules = <<>> THEN [status |-> "BLOCK", by |-> "NO_POLICY_DEFINED"]
       ELSE Evaluate(payload, rules)

====
