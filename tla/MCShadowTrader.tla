--------------------------- MODULE MCShadowTrader ---------------------------
(* Instances of ShadowTrader: bars that fill, stop, reach the target, miss a
   limit and open beyond a stop.                                             *)
EXTENDS ShadowTrader, TLC

Candle(o, h, l, c, pick) == [open |-> o, high |-> h, low |-> l, close |-> c, pick |-> pick]
Wanted(dir, stop, reward, mode) == [dir |-> dir, stop |-> stop, reward |-> reward, mode |-> mode]

CONSTANTS BTC, ETH
SymbolSymmetry == Permutations({BTC, ETH})

FewRows == {Candle(100, 101, 99, 100, Wanted(LONG, 95, 1, "market")),
            Candle(101, 107, 101, 102, Wanted(SHORT, 108, 2, "passive")),
            Candle(97, 120, 93, 97, Wanted(LONG, 92, 2, "aggressive")),
            Candle(91, 94, 90, 93, NoPick)}
=============================================================================
