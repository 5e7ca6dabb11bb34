--------------------------- MODULE MCStrategyJobs ---------------------------
(* Instances of StrategyJobs: three definitions, four markets.               *)
EXTENDS StrategyJobs, TLC

\* close and ema come with the candles, ofi with the recorded books.
FewFeatures == [close |-> 0, ema |-> 0, ofi |-> 2]

Leaf(kind, field, other, low, high) ==
    [kind |-> kind, field |-> field, other |-> other, low |-> low, high |-> high]
Group(kind, nodes) == [kind |-> kind, nodes |-> nodes]
Item(when, weight, family) == [when |-> when, weight |-> weight, family |-> family]
Side(conditions, score, target) ==
    [conditions |-> conditions, score |-> score, base |-> 25, anchor |-> "ema",
     target |-> target, minimum |-> 1, urgency |-> 70]

Above == Leaf("gt", "close", "ema", None, None)
Below == Leaf("gt", "ema", "close", None, None)
Quiet == Leaf("between", "close", NoField, 4, 6)
Bid == Leaf("gt", "ofi", NoField, 5, None)
Crossed == Leaf("crosses_above", "close", "ema", None, None)

\* Follows the average; with recorded books, fades a quiet market or a bid; and one
\* whose short side aims too low.
Pushed == Group("any", <<Bid, Above, Crossed>>)
Follow == Group("all", <<Above, Pushed>>)
Reverse == Group("any", <<Quiet, Bid>>)
SomeNodes == {Above, Below, Quiet, Bid, Crossed, Pushed, Follow, Reverse}

Trend == [long |-> Side(Follow,
                        <<Item(Above, 50, "momentum"), Item(Quiet, 10, "range")>>, 2),
          short |-> Side(Below, <<Item(Below, 50, "momentum")>>, 2)]
Fade == [long |-> Side(Crossed, <<Item(Quiet, 60, "range")>>, 2),
         short |-> Side(Reverse, <<Item(Quiet, 60, "range"), Item(Bid, 20, "flow")>>, 1)]
Broken == [Trend EXCEPT !.short.target = 0]

SomeDefinitions == {Trend, Fade, Broken}
SomeValid == {d \in SomeDefinitions : ValidDefinition(d)}

Candle(close, ema, ofi, mode) == [row |-> [close |-> close, ema |-> ema, ofi |-> ofi],
                                  mode |-> mode]
FewMarkets == {Candle(5, 4, None, 0), Candle(9, 4, 7, 2), Candle(5, 7, 3, 2),
               Candle(5, None, 7, 2)}

Answer(eligible, score) ==
    [d \in {LONG, SHORT} |-> [strategy |-> "RB", direction |-> d, eligible |-> eligible,
                              score |-> IF d = LONG THEN score ELSE 80 - score,
                              evidence |-> 60, expected |-> 2, urgency |-> 70]]
FewAnswers == {Answer(TRUE, 8), Answer(TRUE, 72)}

Ask(s, v) == [strategy |-> s, version |-> v]
CONSTANTS v1, v2, h1, h2
HandlerSymmetry == Permutations({h1, h2})
FewRequests == {<<Ask("TC", v1)>>, <<Ask("RB", "RB"), Ask("TC", v1)>>,
                <<Ask("TC", v1), Ask("LC", v2)>>}
=============================================================================
