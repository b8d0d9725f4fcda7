---- MODULE MCPolicy ----
(* PolicyEvaluation with two template files and a few rules, payloads and
   answers. Calls and workers are interchangeable. *)
EXTENDS PolicyEvaluation, TLC

Symmetry == Permutations(Calls) \cup Permutations(Workers)

Number(n) == [kind |-> "number", rank |-> n]

Text(n) == [kind |-> "text", rank |-> n]

Condition(field, operator, values) ==
    [field |-> field, operator |-> operator, values |-> values,
     list |-> operator \in {"in", "not_in"}]

RuleOf(id, type, conditions, any_of, action) ==
    [rule_id |-> id, action_type |-> type, conditions |-> conditions, any_of |-> any_of,
     action |-> action]

HighAmount ==
    RuleOf("high", "loan", <<Condition("amount", "gt", {Number(1)})>>, <<>>, "BLOCK")

Known == RuleOf("known", "loan", <<Condition("amount", "not_in", {Number(3)})>>, <<>>, "APPROVE")

Doubtful ==
    RuleOf("doubtful", "loan", <<>>,
           <<Condition("amount", "neq", {Number(1)}), Condition("name", "starts_with", {Text(4)})>>,
           "ESCALATE")

Data == RuleOf("data", "access", <<>>, <<>>, "BLOCK")

MCParts == {<<"starts_with", Text(5), Text(4)>>}

Loans == <<HighAmount, Known>>

Doubts == <<Data, Doubtful>>

MCContents == {Loans, Doubts}

MCShipped == {<<Broken, Loans>>}

MCPayloads == {[amount |-> Number(1)]}

MCAnswers == {<<>>, [amount |-> Number(2)], [amount |-> NullValue, name |-> Text(5)]}

====
