---------------------------- MODULE StrategyRules ---------------------------
(***************************************************************************)
(* What a strategy definition makes of a market row, and what the decision  *)
(* engine makes of the strategies' results (strategy_rules.py, decision.py). *)
(* Values are integers, weights and scores percents.                        *)
(***************************************************************************)
EXTENDS Integers, Sequences, FiniteSetsExt, Totals

CONSTANTS
    Features,      \* FEATURES, with the data tier of each: 0, 1 or 2
    Nodes,         \* the conditions definitions are made of, with their parts
    NoField,       \* an absent or unknown "field", "other_field" or "stop_anchor"
    MinScore, MinEvidence, MinExpectedR, MinSeparation

ASSUME ThresholdAssumption == {MinScore, MinEvidence, MinExpectedR, MinSeparation} \subseteq Nat
ASSUME NodesAssumption ==
    \A node \in Nodes : node.kind \in {"all", "any"} => node.nodes \in Seq(Nodes)

\* A value the row does not have.
None == -1
NoPrevious == [f \in DOMAIN Features |-> None]

LONG == 1
SHORT == -1
Groups == {"all", "any"}
Crossings == {"crosses_above", "crosses_below"}

Abs(x) == IF x < 0 THEN -x ELSE x
Clamp(x) == IF x < 0 THEN 0 ELSE IF x > 100 THEN 100 ELSE x

-----------------------------------------------------------------------------
(* RuleInterpreter.  A node is a group of nodes or compares a field with a   *)
(* value, with a range or with another field.                               *)

Fields[node \in Nodes] ==
    IF node.kind \in Groups THEN UNION {Fields[node.nodes[i]] : i \in DOMAIN node.nodes}
    ELSE {node.field, node.other} \ {NoField}

ValidNode[node \in Nodes] ==
    IF node.kind \in Groups
    THEN node.nodes # <<>> /\ \A i \in DOMAIN node.nodes : ValidNode[node.nodes[i]]
    ELSE node.field # NoField

ValidSide(side) ==
    /\ ValidNode[side.conditions]
    /\ \A i \in DOMAIN side.score : ValidNode[side.score[i].when]
    /\ side.anchor # NoField
    /\ side.target >= side.minimum

ValidDefinition(d) == ValidSide(d.long) /\ ValidSide(d.short)

\* No node asks for a field between another field: validation lets it pass, and
\* its evaluation raises.
Compares(node, row, previous) ==
    LET other == node.other # NoField
        left == row[node.field]
        right == IF other THEN row[node.other] ELSE node.low
        before == previous[node.field]
        beforeRight == IF other THEN previous[node.other] ELSE node.low
    IN /\ left # None /\ right # None
       /\ CASE node.kind = "gt" -> left > right
            [] node.kind = "between" -> node.low <= left /\ left <= node.high
            [] node.kind = "crosses_above" -> /\ before # None /\ beforeRight # None
                                              /\ before <= beforeRight /\ left > right
            [] node.kind = "crosses_below" -> /\ before # None /\ beforeRight # None
                                              /\ before >= beforeRight /\ left < right

Evaluate(node, row, previous) ==
    LET holds[n \in Nodes] ==
          CASE n.kind = "all" -> \A i \in DOMAIN n.nodes : holds[n.nodes[i]]
            [] n.kind = "any" -> \E i \in DOMAIN n.nodes : holds[n.nodes[i]]
            [] OTHER -> Compares(n, row, previous)
    IN holds[node]

-----------------------------------------------------------------------------
(* DeclarativeStrategy.evaluate *)

SideOf(d, direction) == IF direction = LONG THEN d.long ELSE d.short

SideFields(side) == Fields[side.conditions]
                    \cup UNION {Fields[side.score[i].when] : i \in DOMAIN side.score}

Tier(d) == Max({0} \cup {Features[f] : f \in SideFields(d.long) \cup SideFields(d.short)})

Matched(side, row) == {i \in DOMAIN side.score : Evaluate(side.score[i].when, row, NoPrevious)}

\* The sum of the numbers of w that S picks.
Picked(w, S) == Total([i \in DOMAIN w |-> IF i \in S THEN w[i] ELSE 0], Len(w))

Weight(side, S) == Picked([i \in DOMAIN side.score |-> side.score[i].weight], S)

Evidence(side, row) ==
    LET M == Matched(side, row)
        family == [i \in DOMAIN side.score |->
                     Abs(Weight(side, {j \in M : side.score[j].family = side.score[i].family}))]
        active == {i \in M : /\ family[i] >= 20
                             /\ \A j \in M : side.score[j].family = side.score[i].family => i <= j}
    IN IF active = {} THEN 0 ELSE Clamp(Picked(family, active) \div Cardinality(active))

StrategyResult == [strategy : STRING, direction : {LONG, SHORT}, eligible : BOOLEAN,
                   score : 0..100, evidence : 0..100, expected : Int, urgency : Int]

\* A missing stop anchor raises, and a result that raised is not eligible.
Result(s, d, direction, row, mode) ==
    LET side == SideOf(d, direction) IN
    [strategy |-> s, direction |-> direction,
     eligible |-> /\ Evaluate(side.conditions, row, NoPrevious)
                  /\ \A f \in SideFields(side) \cup {side.anchor, "close"} : row[f] # None
                  /\ mode >= Tier(d),
     score |-> Clamp(side.base + Weight(side, Matched(side, row))),
     evidence |-> Evidence(side, row),
     expected |-> side.target, urgency |-> side.urgency]

-----------------------------------------------------------------------------
(* StrategyDecisionEngine.select: results in the order of the strategies     *)

NoWinner == 0

\* The first of the eligible results of a direction with the highest score.
Best(results, direction) ==
    LET S == {i \in DOMAIN results : results[i].eligible /\ results[i].direction = direction}
        top == {i \in S : \A j \in S : results[j].score <= results[i].score}
    IN IF S = {} THEN NoWinner ELSE Min(top)

\* Slip: the winner is compared with the best of its own direction.
SelectOwnSide(results) ==
    LET long == Best(results, LONG)
        short == Best(results, SHORT)
        winner == IF short = NoWinner THEN long
                  ELSE IF long = NoWinner \/ results[long].score < results[short].score
                  THEN short ELSE long
    IN IF winner = NoWinner \/ results[winner].score < MinScore
       THEN [winner |-> NoWinner, reason |-> "LOW_SCORE"]
       ELSE [winner |-> winner, reason |-> "WINNER"]

Select(results) ==
    LET long == Best(results, LONG)
        short == Best(results, SHORT)
        leads == \/ short = NoWinner
                 \/ long # NoWinner /\ results[long].score >= results[short].score
        winner == IF leads THEN long ELSE short
        other == IF leads THEN short ELSE long
        No(reason) == [winner |-> NoWinner, reason |-> reason]
    IN IF winner = NoWinner THEN No("INSUFFICIENT_DATA")
       ELSE IF results[winner].score < MinScore THEN No("LOW_SCORE")
       ELSE IF results[winner].evidence < MinEvidence THEN No("LOW_EVIDENCE")
       ELSE IF results[winner].expected < MinExpectedR THEN No("LOW_RR")
       ELSE IF other # NoWinner /\ results[winner].score - results[other].score < MinSeparation
            THEN No("CONFLICT")
       ELSE [winner |-> winner, reason |-> "WINNER"]

ExecutionMode(result) ==
    CASE result.strategy = "RB" -> "PASSIVE"
      [] result.strategy \in {"LC", "VB"} /\ result.urgency >= 90 -> "MARKET"
      [] result.urgency >= 60 -> "AGGRESSIVE"
      [] OTHER -> "PASSIVE"

=============================================================================
