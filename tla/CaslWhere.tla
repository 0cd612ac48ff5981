----------------------------- MODULE CaslWhere -----------------------------
(***************************************************************************)
(* buildWhereNode of src/src/casl/where.ts: which rows the condition       *)
(* admits that is made of the rules of an ability for one action on one    *)
(* subject, highest priority first.  The condition of a rule is the set of *)
(* the rows that meet it, an unconditional rule has Always.                *)
(***************************************************************************)
EXTENDS Integers, Sequences

CONSTANTS
    Rows,               \* the rows of the tables
    Always              \* the condition of a rule without conditions

Can(condition)    == [inverted |-> FALSE, condition |-> condition]
Cannot(condition) == [inverted |-> TRUE, condition |-> condition]

\* The condition: none at all (forbidden), the literal TRUE, or one that admits rows.
Null         == [kind |-> "null", admits |-> {}]
True         == [kind |-> "true", admits |-> Rows]
Where(admits) == [kind |-> "where", admits |-> admits]

\* The rules before the first unconditional one: those that count.
Conditional(rules) ==
    {i \in DOMAIN rules : \A k \in 1 .. i : rules[k].condition # Always}

Conditions(rules, inverted) ==
    {rules[i].condition : i \in {k \in Conditional(rules) : rules[k].inverted = inverted}}

\* An unconditional can ends the walk and admits what is not subtracted.
EndsInCan(rules) ==
    \E i \in DOMAIN rules : /\ rules[i] = Can(Always)
                            /\ \A k \in 1 .. i - 1 : rules[k].condition # Always

Combine(rules) ==
    LET positive == Conditions(rules, FALSE)
        inverted == Conditions(rules, TRUE)
    IN  IF EndsInCan(rules) THEN IF inverted = {} THEN True ELSE Where(Rows \ (UNION inverted))
        ELSE IF positive # {} THEN Where((UNION positive) \ (UNION inverted))
        ELSE IF inverted # {} THEN Where(Rows \ (UNION inverted))
        ELSE Null

\* Mutant: the walk goes on past an unconditional cannot.
BuildWherePastCannot(rules) == Combine(SelectSeq(rules, LAMBDA r : r # Cannot(Always)))

BuildWhereNode(rules) == Combine(rules)

\* CASL's own answer: the first rule that matches a row decides, and without
\* one the row is forbidden.
Permitted(rules) ==
    LET Matches(r) == {i \in DOMAIN rules : rules[i].condition = Always \/ r \in rules[i].condition}
    IN  {r \in Rows : \E i \in Matches(r) : ~rules[i].inverted /\ \A k \in Matches(r) : i <= k}

=============================================================================
