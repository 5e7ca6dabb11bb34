----------------------------- MODULE MCBacktest -----------------------------
(* Instances of Backtest: two symbols and a handful of bars, each made to     *)
(* reach another branch of the fills and of the exits.                        *)
EXTENDS Backtest

TwoSymbols == <<"BTC", "ETH">>

Candle(o, h, l, c, pick) == [open |-> o, high |-> h, low |-> l, close |-> c, atr |-> 4, pick |-> pick]
Wanted(dir, margin, stop, reward, mode) ==
    [dir |-> dir, margin |-> margin, stop |-> stop, reward |-> reward, mode |-> mode,
     cmode |-> (mode = "aggressive")]

(* A quiet bar with a market signal; one that reaches TP1 and gives a       *)
(* passive signal without a stop; one that reaches everything; one that     *)
(* runs to the target, opposes a long and gives a short.                    *)
FewRows == {
    Candle(100, 101,  99, 100, Wanted(LONG, 0, 95, 1, "market")),
    Candle(101, 107, 101, 101, Wanted(LONG, 3, NoStop, 2, "passive")),
    Candle(100, 120,  80, 101, NoPick),
    Candle(103, 112, 102, 104, Wanted(SHORT, 9, 107, 2, "aggressive"))
}
=============================================================================
