--------------------------- MODULE BacktestProofs ---------------------------
(* Proofs about Backtest, for every list of symbols, every set of bars and    *)
(* every configuration the assumption allows: the types, that a trade sells   *)
(* what it bought, that no result of a trade that spans a gap is booked as    *)
(* valid, that the books balance, that the risk cap holds and that the stop   *)
(* comes first.                                                               *)
EXTENDS Backtest, TotalsProofs

(* Positions only grow, the last gap is not after the last row, a handler  *)
(* past "bar" has a row, and nothing is being handled after the end.       *)
Positions ==
    /\ \A s \in Symbol : idx[s] >= -1 /\ since[s] <= Larger(idx[s], 0)
    /\ loop.phase \in {"fill", "manage", "decide"} => idx[Here] >= 0
    /\ loop.now > Bars => loop.phase = "bar"

(* OpenTradesSpanNoGap holds earlier than it says: already when the symbol *)
(* is being managed, if its bar is not one after a gap.                    *)
NoGapInside ==
    \A s \in Symbol : open[s] # NoTrade /\ (Unmanaged(s) => ~bar[s].gap)
                      => open[s].entryAt >= since[s]

(* TradesAreWhole needs to know that the partial exit comes once.          *)
Unsold == \A s \in Symbol : open[s] # NoTrade /\ ~open[s].tp1 => open[s].closed = 0

IInv == TypeOK /\ Positions /\ NoGapInside /\ TradesAreWhole /\ Unsold
-----------------------------------------------------------------------------
LEMMA HereIsSymbol == ASSUME TypeOK PROVE Here \in Symbol
BY DEF TypeOK, LoopType, Here, Symbol

LEMMA LoopTypes ==
    ASSUME TypeOK
    PROVE  /\ AfterManage \in LoopType
           /\ AfterManage.now = loop.now /\ AfterManage.phase \in {"bar", "signal"}
           /\ loop.now <= Bars =>
                /\ AfterSignal \in LoopType
                /\ AfterSignal.phase \in {"bar", loop.phase}
                /\ AfterSignal.now > Bars => AfterSignal.phase = "bar"
<1>1. Len(Order) \in Nat \ {0} /\ DOMAIN Order = 1..Len(Order) /\ Bars \in Nat \ {0}
  BY BacktestAssumption DEF Symbol
<1>2. /\ loop \in LoopType /\ loop.now \in 1..Bars + 1 /\ loop.at \in 1..Len(Order)
  BY <1>1 DEF TypeOK, LoopType
<1>3. CASE loop.at < Len(Order)
  <2>1. /\ AfterManage = [loop EXCEPT !.at = @ + 1, !.phase = "bar"]
        /\ AfterSignal = [loop EXCEPT !.at = @ + 1]
    BY <1>3 DEF AfterManage, AfterSignal
  <2>2. loop.at + 1 \in DOMAIN Order
    BY <1>1, <1>2, <1>3
  <2>3. /\ AfterManage = [now |-> loop.now, at |-> loop.at + 1, phase |-> "bar"]
        /\ AfterSignal = [now |-> loop.now, at |-> loop.at + 1, phase |-> loop.phase]
    BY <1>2, <2>1 DEF LoopType
  <2>4. AfterManage \in LoopType /\ AfterSignal \in LoopType
    BY <1>2, <2>2, <2>3 DEF LoopType
  <2> QED BY <1>1, <1>2, <2>3, <2>4
<1>4. CASE ~(loop.at < Len(Order))
  <2>1. /\ AfterManage = [loop EXCEPT !.at = 1, !.phase = "signal"]
        /\ AfterSignal = [now |-> loop.now + 1, at |-> 1, phase |-> "bar"]
    BY <1>4 DEF AfterManage, AfterSignal
  <2>2. 1 \in DOMAIN Order
    BY <1>1
  <2>3. loop.now <= Bars => loop.now + 1 \in 1..Bars + 1
    BY <1>1, <1>2
  <2> QED BY <1>2, <2>1, <2>2, <2>3 DEF LoopType
<1> QED BY <1>3, <1>4

LEMMA ConstantTypes ==
    /\ NormalRisk \in Nat /\ CModeRisk \in Nat /\ CorrelatedPct \in Nat /\ NotionalPct \in Nat \ {0}
    /\ PassiveTtl \in Nat \ {0} /\ MaxHold \in Nat /\ TP1R \in Nat
    /\ MarketSlip \in Nat /\ AggressiveSlip \in Nat /\ PassiveOffset \in Nat
    /\ MakerFee \in Nat /\ TakerFee \in Nat /\ MaxHoles \in Nat /\ TP1Pct \in 1..99
    /\ InitialEquity \in Nat /\ Bars \in Nat \ {0} /\ Breakeven \in BOOLEAN
BY BacktestAssumption

LEMMA RowTypes ==
    ASSUME NEW r \in Rows
    PROVE  /\ r.open \in Nat /\ r.high \in Nat /\ r.low \in Nat /\ r.close \in Nat
           /\ r.atr \in Nat \ {0} /\ r.pick \in Pick \cup {NoPick}
           /\ \A slip \in {MarketSlip, AggressiveSlip, PassiveOffset} :
                slip < r.open /\ slip < r.close
<1>1. {r.open, r.high, r.low, r.close, r.atr} \subseteq Nat \ {0}
  BY BacktestAssumption
<1>2. r.low <= r.open /\ r.low <= r.close /\ r.pick \in Pick \cup {NoPick}
  BY BacktestAssumption
<1>3. \A slip \in {MarketSlip, AggressiveSlip, PassiveOffset} : slip < r.low
  BY BacktestAssumption
<1> QED BY <1>1, <1>2, <1>3, ConstantTypes

LEMMA RealisedType ==
    ASSUME NEW t \in TradeType, NEW price \in Int, NEW q \in Int
    PROVE  Realised(t, price, q) \in Int
<1>1. TakerFee \in Int
  BY ConstantTypes
<1>2. (price * q * TakerFee) \div 10000 \in Int
  BY <1>1
<1>3. t.dir * (price - t.entry) * q \in Int
  BY DEF TradeType, Direction, LONG, SHORT
<1> QED BY <1>2, <1>3 DEF Realised, Fee

(* A division by a positive number is an integer. *)
LEMMA Quotient ==
    ASSUME NEW a \in Int, NEW b \in Nat \ {0}
    PROVE  a \div b \in Int /\ (a >= 0 => a \div b >= 0)
OBVIOUS

(* What fits a quotient, times the divisor, fits the dividend. *)
LEMMA DivisorTimes ==
    ASSUME NEW a \in Int, NEW b \in Nat \ {0}, NEW q \in Int, q <= a \div b
    PROVE  q * b <= a
<1> DEFINE d == a \div b
<1>1. d \in Int /\ d * b <= a
  BY Quotient
<1> HIDE DEF d
<1>2. d - q \in Nat /\ (d - q) * b \in Nat
  BY <1>1 DEF d
<1>3. (d - q) * b = d * b - q * b
  BY <1>1
<1> QED BY <1>1, <1>2, <1>3

LEMMA FillTypes ==
    ASSUME NEW p \in OrderType, NEW r \in Rows
    PROVE  FillPrice(p, r) \in Nat \ {0}
<1>1. p.price \in Nat /\ PassiveOffset < p.price
  BY RowTypes DEF OrderType
<1>2. p.dir \in {1, -1} /\ p.mode \in {"market", "aggressive", "passive"}
  BY DEF OrderType, Direction, LONG, SHORT, Mode
<1> QED BY <1>1, <1>2, RowTypes, ConstantTypes DEF FillPrice, Limit

LEMMA StopTypes ==
    ASSUME NEW p \in OrderType, NEW r \in Rows, NEW fill \in Nat \ {0}
    PROVE  StopOf(p, r, fill) \in Int /\ StopOf(p, r, fill) # fill
<1>1. p.price \in Nat /\ p.stop \in Nat /\ p.dir \in {1, -1}
  BY RowTypes DEF OrderType, Direction, LONG, SHORT
<1>2. (fill * 15) \div 10000 \in Int
  OBVIOUS
<1>3. Larger(r.atr, (fill * 15) \div 10000) \in Nat \ {0}
  BY <1>2, RowTypes DEF Larger
<1> QED BY <1>1, <1>3 DEF StopOf

(* The stop of a short lies above a price. *)
LEMMA ShortStop ==
    ASSUME NEW p \in OrderType, NEW r \in Rows, NEW fill \in Nat \ {0}, p.dir = SHORT
    PROVE  StopOf(p, r, fill) > 0
<1>1. p.price \in Nat /\ p.stop \in Nat /\ p.dir = -1
  BY RowTypes DEF OrderType, SHORT
<1>2. (fill * 15) \div 10000 \in Int
  OBVIOUS
<1>3. Larger(r.atr, (fill * 15) \div 10000) \in Nat \ {0}
  BY <1>2, RowTypes DEF Larger
<1> QED BY <1>1, <1>3 DEF StopOf

(* What a filled order becomes. *)
LEMMA OpenedType ==
    ASSUME TypeOK, Positions, Running("fill"), NEW p \in OrderType, NEW r \in Rows,
           Opened(p, r).qty > 0
    PROVE  /\ Opened(p, r) \in TradeType
           /\ Opened(p, r).rem = Opened(p, r).qty /\ Opened(p, r).closed = 0
           /\ Opened(p, r).entryAt = idx[Here]
           /\ 10000 * AtRisk(Opened(p, r)) <= cash * p.risk
           /\ Opened(p, r).dir = SHORT => Opened(p, r).stop > 0
<1> DEFINE fill == FillPrice(p, r)
           stop == StopOf(p, r, fill)
           dist == Distance(fill, stop)
           q    == Quantity(p, fill, dist)
<1>1. fill \in Nat \ {0}
  BY FillTypes
<1>2. stop \in Int /\ stop # fill
  BY <1>1, StopTypes
<1>3. dist \in Nat \ {0}
  BY <1>1, <1>2 DEF Distance
<1>4. p.risk \in Int /\ p.reward \in Nat /\ p.dir \in Direction
  BY DEF OrderType
<1>5. q \in Int
  <2>1. cash * p.risk \in Int /\ 10000 * dist \in Nat \ {0}
    BY <1>3, <1>4 DEF TypeOK
  <2>2. cash * NotionalPct \in Int /\ 100 * fill \in Nat \ {0}
    BY <1>1, ConstantTypes DEF TypeOK
  <2>3. (cash * p.risk) \div (10000 * dist) \in Int
    BY <2>1, Quotient
  <2>4. (cash * NotionalPct) \div (100 * fill) \in Int
    BY <2>2, Quotient
  <2> HIDE DEF fill, stop, dist
  <2> QED BY <2>3, <2>4 DEF Quantity, Smaller
<1>6. Fee(fill, q, EntryFee(p)) \in Int
  <2>1. EntryFee(p) \in Int
    BY ConstantTypes DEF EntryFee
  <2> HIDE DEF fill, stop, dist, q
  <2>2. fill * q * EntryFee(p) \in Int
    BY <1>1, <1>5, <2>1
  <2> QED BY <2>2, Quotient DEF Fee
<1>7. fill + p.dir * Larger(p.reward, 1) * dist \in Int
  <2> HIDE DEF fill, stop, dist, q
  <2> QED BY <1>1, <1>3, <1>4 DEF Larger, Direction, LONG, SHORT
<1>8. idx[Here] \in Nat
  BY HereIsSymbol DEF TypeOK, Positions, Running
<1>9. Opened(p, r) = [dir |-> p.dir, entry |-> fill, stop0 |-> stop, stop |-> stop,
         target |-> fill + p.dir * Larger(p.reward, 1) * dist, qty |-> q, rem |-> q,
         closed |-> 0, tp1 |-> FALSE, entryAt |-> idx[Here],
         net |-> -Fee(fill, q, EntryFee(p))]
  BY DEF Opened
<1> HIDE DEF fill, stop, dist, q
<1>10. q \in Nat \ {0}
  BY <1>5, <1>9
<1>11. Opened(p, r) \in TradeType
  BY <1>1, <1>2, <1>4, <1>6, <1>7, <1>8, <1>9, <1>10 DEF TradeType
<1>12. 10000 * AtRisk(Opened(p, r)) <= cash * p.risk
  <2>1. cash * p.risk \in Int /\ 10000 * dist \in Nat \ {0}
    BY <1>3, <1>4 DEF TypeOK
  <2>2. q <= (cash * p.risk) \div (10000 * dist)
    <3>1. cash * NotionalPct \in Int /\ 100 * fill \in Nat \ {0}
      BY <1>1, ConstantTypes DEF TypeOK
    <3>2. (cash * NotionalPct) \div (100 * fill) \in Int /\ (cash * p.risk) \div (10000 * dist) \in Int
      BY <2>1, <3>1, Quotient
    <3> QED BY <3>2 DEF q, Quantity, Smaller
  <2>3. q * (10000 * dist) <= cash * p.risk
    BY <1>10, <2>1, <2>2, Quotient, DivisorTimes
  <2>4. 10000 * (q * dist) = q * (10000 * dist)
    BY <1>3, <1>10
  <2>5. AtRisk(Opened(p, r)) = q * dist
    <3>1. Opened(p, r) # NoTrade
      BY <1>11 DEF TradeType, NoTrade
    <3> QED BY <1>9, <3>1 DEF AtRisk, dist
  <2> QED BY <2>3, <2>4, <2>5
<1>13. p.dir = SHORT => stop > 0
  BY <1>1, ShortStop DEF stop
<1> QED BY <1>9, <1>11, <1>12, <1>13
-----------------------------------------------------------------------------
(* The steps. *)

LEMMA InitHolds == Init => IInv
<1> SUFFICES ASSUME Init PROVE IInv
  OBVIOUS
<1>1. 1 \in DOMAIN Order
  BY BacktestAssumption DEF Symbol
<1>2. loop \in LoopType
  BY <1>1, ConstantTypes DEF Init, LoopType
<1>3. seen \in [Symbol -> 0..Bars \cup {NotYet}]
  BY ConstantTypes DEF Init, NotYet
<1>4. bar \in [Symbol -> [row : Rows, gap : BOOLEAN] \cup {NoRow}]
  BY DEF Init
<1>5. pending \in [Symbol -> OrderType \cup {NoOrder}] /\ open \in [Symbol -> TradeType \cup {NoTrade}]
  BY DEF Init
<1>6. TypeOK
  BY <1>2, <1>3, <1>4, <1>5, ConstantTypes DEF Init, TypeOK
<1>7. Positions
  BY <1>6, ConstantTypes DEF Init, Positions, Larger, TypeOK
<1> QED BY <1>6, <1>7 DEF Init, IInv, NoGapInside, TradesAreWhole, Unsold

(* Steps that move the program counter only. *)
LEMMA IdleStep ==
    ASSUME IInv,
           UNCHANGED <<data, cash, pending, open, booked, peak>>,
           loop' \in LoopType,
           loop'.phase \in {"fill", "manage", "decide"}
             => loop.phase \in {"fill", "manage", "decide"} /\ loop'.at = loop.at,
           loop'.phase = "decide" => open[Here] # NoTrade,
           loop'.now > Bars => loop'.phase = "bar",
           Unmanaged(Here) /\ ~(loop'.phase \in {"fill", "manage"})
             => open[Here] = NoTrade \/ ~bar[Here].gap
    PROVE  IInv'
<1> USE DEF IInv, data
<1>1. TypeOK'
  BY DEF TypeOK, Here
<1>2. Positions'
  BY DEF Positions, Here
<1>3. NoGapInside'
  BY DEF NoGapInside, Unmanaged, Here
<1>4. TradesAreWhole' /\ Unsold'
  BY DEF TradesAreWhole, Unsold
<1> QED BY <1>1, <1>2, <1>3, <1>4

(* A trade ends. *)
LEMMA ExitStep ==
    ASSUME IInv, NEW s \in Symbol, NEW price \in Int, NEW kind \in {"valid", "invalid"},
           open[s] # NoTrade, Exit(s, price, kind),
           UNCHANGED <<data, pending>>,
           loop' \in LoopType, loop'.phase \in {"bar", "signal"},
           loop'.now > Bars => loop'.phase = "bar",
           Unmanaged(Here) => s = Here
    PROVE  IInv'
<1> USE DEF IInv, data
<1>1. open[s] \in TradeType
  BY DEF TypeOK
<1>2. open' = [open EXCEPT ![s] = NoTrade]
  BY DEF Exit
<1>3. TypeOK'
  <2>1. open[s].rem \in Int /\ open[s].net \in Int
    BY <1>1 DEF TradeType
  <2>2. Realised(open[s], price, open[s].rem) \in Int
    BY <1>1, <2>1, RealisedType
  <2>3. cash' \in Int /\ peak' \in Int
    BY <2>2 DEF Exit, Pay, Larger, TypeOK
  <2>4. CloseQty(open[s], price, open[s].rem).net
          = open[s].net + Realised(open[s], price, open[s].rem)
    BY <1>1 DEF CloseQty, TradeType
  <2>5. booked' \in [valid : Int, invalid : Int]
    BY <2>1, <2>2, <2>4 DEF Exit, TypeOK
  <2> QED BY <1>2, <2>3, <2>5 DEF TypeOK, Here
<1>4. Positions'
  BY DEF Positions, Here
<1>5. NoGapInside'
  BY <1>2 DEF NoGapInside, Unmanaged, Here, TypeOK
<1>6. TradesAreWhole' /\ Unsold'
  BY <1>2 DEF TradesAreWhole, Unsold, TypeOK
<1> QED BY <1>3, <1>4, <1>5, <1>6

(* A bar arrives, or does not. *)
LEMMA NoBarStep == IInv /\ NoBar => IInv'
<1> SUFFICES ASSUME IInv, NoBar PROVE IInv'
  OBVIOUS
<1> USE DEF IInv
<1>1. loop.phase = "bar" /\ loop.now <= Bars /\ Here \in Symbol
  BY HereIsSymbol DEF NoBar, Running
<1>2. /\ loop' \in LoopType /\ loop'.phase \in {"bar", "signal"}
      /\ loop'.now > Bars => loop'.phase = "bar"
  BY <1>1, LoopTypes, ConstantTypes DEF NoBar, TypeOK, LoopType
<1>3. TypeOK'
  <2>1. holes' \in 0..MaxHoles
    BY ConstantTypes DEF NoBar, TypeOK
  <2>2. bar' \in [Symbol -> [row : Rows, gap : BOOLEAN] \cup {NoRow}]
    BY DEF NoBar, TypeOK
  <2> QED BY <1>2, <2>1, <2>2 DEF NoBar, TypeOK
<1>4. Positions'
  BY <1>2 DEF NoBar, Positions
<1>5. NoGapInside'
  BY <1>1, <1>2 DEF NoBar, NoGapInside, Unmanaged
<1>6. TradesAreWhole' /\ Unsold'
  BY DEF NoBar, TradesAreWhole, Unsold
<1> QED BY <1>3, <1>4, <1>5, <1>6

LEMMA BarStep ==
    ASSUME IInv, NEW r \in Rows, NEW flagged \in BOOLEAN, Bar(r, flagged)
    PROVE  IInv'
<1> USE DEF IInv
<1>1. loop.phase = "bar" /\ loop.now \in 1..Bars /\ Here \in Symbol
  BY HereIsSymbol, ConstantTypes DEF Bar, Running, TypeOK, LoopType
<1>2. /\ loop' = [loop EXCEPT !.phase = "fill"]
      /\ loop' \in LoopType /\ loop'.now = loop.now /\ loop'.phase = "fill" /\ Here' = Here
  BY DEF Bar, TypeOK, LoopType, Here
<1> DEFINE gap == flagged \/ (seen[Here] # NotYet /\ seen[Here] < loop.now - 1)
<1>3. /\ bar' = [bar EXCEPT ![Here] = [row |-> r, gap |-> gap]]
      /\ idx' = [idx EXCEPT ![Here] = idx[Here] + 1]
      /\ seen' = [seen EXCEPT ![Here] = loop.now]
      /\ close' = [close EXCEPT ![Here] = r.close]
      /\ since' = [since EXCEPT ![Here] = IF gap THEN idx[Here] + 1 ELSE since[Here]]
  BY DEF Bar
<1>4. gap \in BOOLEAN
  OBVIOUS
<1> HIDE DEF gap
<1>5. TypeOK'
  <2>1. holes' \in 0..MaxHoles
    BY ConstantTypes DEF Bar, TypeOK
  <2>2. bar' \in [Symbol -> [row : Rows, gap : BOOLEAN] \cup {NoRow}]
    BY <1>3, <1>4 DEF TypeOK
  <2>3. bar'[Here] # NoRow
    <3>1. bar'[Here] = [row |-> r, gap |-> gap]
      BY <1>1, <1>3 DEF TypeOK
    <3>2. DOMAIN bar'[Here] = {"row", "gap"} /\ DOMAIN NoRow = {"gap"}
      BY <3>1 DEF NoRow
    <3> QED BY <3>2
  <2>4. idx' \in [Symbol -> Int] /\ since' \in [Symbol -> Nat]
    BY <1>1, <1>3, <1>4 DEF TypeOK, Positions
  <2>5. seen' \in [Symbol -> 0..Bars \cup {NotYet}] /\ close' \in [Symbol -> Nat]
    BY <1>1, <1>3, RowTypes DEF TypeOK
  <2> QED BY <1>2, <2>1, <2>2, <2>3, <2>4, <2>5 DEF Bar, TypeOK
<1>6. Positions'
  <2>1. ASSUME NEW s \in Symbol
        PROVE  idx'[s] >= -1 /\ since'[s] <= Larger(idx'[s], 0)
    BY <1>1, <1>3, <1>4 DEF TypeOK, Positions, Larger
  <2>2. idx'[Here] >= 0
    BY <1>1, <1>3 DEF TypeOK, Positions
  <2> QED BY <1>1, <1>2, <2>1, <2>2, ConstantTypes DEF Positions, TypeOK, LoopType
<1>7. NoGapInside'
  <2> SUFFICES ASSUME NEW s \in Symbol, open'[s] # NoTrade,
                      Unmanaged(s)' => ~bar'[s].gap
               PROVE  open'[s].entryAt >= since'[s]
    BY DEF NoGapInside
  <2>1. CASE s = Here
    <3>1. Unmanaged(s)'
      BY <1>2, <2>1 DEF Unmanaged
    <3>2. ~gap
      BY <1>1, <1>3, <2>1, <3>1 DEF TypeOK
    <3> QED BY <1>1, <1>3, <2>1, <3>2 DEF Bar, NoGapInside, Unmanaged, TypeOK
  <2>2. CASE s # Here
    BY <1>1, <1>3, <2>2 DEF Bar, NoGapInside, Unmanaged, TypeOK
  <2> QED BY <2>1, <2>2
<1>8. TradesAreWhole' /\ Unsold'
  BY DEF Bar, TradesAreWhole, Unsold
<1> QED BY <1>5, <1>6, <1>7, <1>8

(* The book of orders changes. *)
LEMMA OrderStep ==
    ASSUME IInv, UNCHANGED <<data, cash, open, booked, peak>>,
           pending' \in [Symbol -> OrderType \cup {NoOrder}],
           loop' \in LoopType, loop'.now > Bars => loop'.phase = "bar",
           \/ loop'.at = loop.at /\ loop.phase = "fill" /\ loop'.phase = "manage"
           \/ loop.phase = "signal" /\ loop'.phase \in {"bar", "signal"}
    PROVE  IInv'
<1> USE DEF IInv, data
<1>1. TypeOK'
  BY DEF TypeOK, Here
<1>2. Positions'
  BY DEF Positions, Here
<1>3. NoGapInside'
  BY DEF NoGapInside, Unmanaged, Here
<1>4. TradesAreWhole' /\ Unsold'
  BY DEF TradesAreWhole, Unsold
<1> QED BY <1>1, <1>2, <1>3, <1>4

LEMMA MissedFillStep == IInv /\ MissedFill => IInv'
<1> SUFFICES ASSUME IInv, MissedFill PROVE IInv'
  OBVIOUS
<1>1. loop.phase = "fill" /\ loop.now <= Bars /\ Here \in Symbol /\ TypeOK
  BY HereIsSymbol DEF MissedFill, Running, IInv
<1>2. /\ loop' \in LoopType /\ loop'.at = loop.at /\ loop'.phase = "manage"
      /\ loop'.now = loop.now
  BY <1>1 DEF MissedFill, TypeOK, LoopType
<1>3. pending' \in [Symbol -> OrderType \cup {NoOrder}]
  <2>1. pending[Here] \in OrderType
    BY <1>1 DEF MissedFill, TypeOK
  <2>2. ~(pending[Here].ttl <= 1) => [pending[Here] EXCEPT !.ttl = @ - 1] \in OrderType
    BY <2>1, ConstantTypes DEF OrderType
  <2> QED BY <1>1, <2>2 DEF MissedFill, TypeOK
<1>4. ~(loop'.now > Bars)
  BY <1>1, <1>2, ConstantTypes DEF TypeOK, LoopType
<1> QED BY <1>1, <1>2, <1>3, <1>4, OrderStep DEF MissedFill

(* What a signal becomes. *)
LEMMA PlannedOrder ==
    ASSUME IInv, NEW correlated \in BOOLEAN, Plan(correlated)
    PROVE  [dir |-> Row.pick.dir, price |-> Row.close, stop |-> Row.pick.stop,
            reward |-> Row.pick.reward, mode |-> Row.pick.mode,
            risk |-> Risk(correlated), ttl |-> PassiveTtl] \in OrderType
<1>1. Here \in Symbol /\ TypeOK
  BY HereIsSymbol DEF IInv
<1>2. Row \in Rows /\ Row.pick \in Pick
  <2>1. bar[Here] \in [row : Rows, gap : BOOLEAN]
    BY <1>1 DEF Plan, MaySignal, TypeOK
  <2> QED BY <2>1, RowTypes DEF Row, Plan, MaySignal
<1>3. Risk(correlated) \in Nat
  <2>1. BaseRisk \in Nat
    BY ConstantTypes DEF BaseRisk, Smaller
  <2>2. BaseRisk * CorrelatedPct \in Nat
    BY <2>1, ConstantTypes
  <2> QED BY <2>1, <2>2, Quotient DEF Risk
<1> QED BY <1>2, <1>3, ConstantTypes DEF OrderType, Pick

LEMMA PlanStep ==
    ASSUME IInv, NEW correlated \in BOOLEAN, Plan(correlated)
    PROVE  IInv'
<1>1. loop.phase = "signal" /\ loop.now <= Bars /\ Here \in Symbol /\ TypeOK
  BY HereIsSymbol DEF Plan, Running, IInv
<1>2. /\ loop' \in LoopType /\ loop'.phase \in {"bar", "signal"}
      /\ loop'.now > Bars => loop'.phase = "bar"
  BY <1>1, LoopTypes DEF Plan
<1>3. pending' \in [Symbol -> OrderType \cup {NoOrder}]
  BY <1>1, PlannedOrder DEF Plan, TypeOK
<1> QED BY <1>1, <1>2, <1>3, OrderStep DEF Plan

(* A trade begins. *)
LEMMA FillStep == IInv /\ Fill => IInv'
<1> SUFFICES ASSUME IInv, Fill PROVE IInv'
  OBVIOUS
<1> DEFINE t == Opened(pending[Here], Row)
<1>1. loop.phase = "fill" /\ loop.now <= Bars /\ Here \in Symbol /\ TypeOK /\ Positions
  BY HereIsSymbol DEF Fill, Running, IInv
<1>2. /\ loop' \in LoopType /\ loop'.at = loop.at /\ loop'.phase = "manage"
      /\ loop'.now = loop.now /\ ~(loop'.now > Bars) /\ Here' = Here
  BY <1>1, ConstantTypes DEF Fill, TypeOK, LoopType, Here
<1>3. pending[Here] \in OrderType /\ Row \in Rows
  <2>1. bar[Here] \in [row : Rows, gap : BOOLEAN]
    BY <1>1 DEF TypeOK
  <2> QED BY <1>1, <2>1 DEF Fill, TypeOK, Row
<1>4. pending' \in [Symbol -> OrderType \cup {NoOrder}]
  BY <1>1 DEF Fill, TypeOK
<1>5. CASE ~(t.qty > 0)
  <2>1. UNCHANGED <<data, cash, open, booked, peak>>
    BY <1>5 DEF Fill
  <2> QED BY <1>1, <1>2, <1>4, <2>1, OrderStep
<1>6. CASE t.qty > 0
  <2>1. t \in TradeType /\ t.rem = t.qty /\ t.closed = 0 /\ t.entryAt = idx[Here]
    BY <1>1, <1>3, <1>6, OpenedType DEF Running
  <2>2. open' = [open EXCEPT ![Here] = t] /\ Pay(t.net) /\ UNCHANGED <<data, booked>>
    BY <1>6 DEF Fill
  <2> HIDE DEF t
  <2>3. open' \in [Symbol -> TradeType \cup {NoTrade}]
    BY <1>1, <2>1, <2>2 DEF TypeOK
  <2>4. cash' \in Int /\ peak' \in Int
    BY <1>1, <2>1, <2>2 DEF Pay, Larger, TypeOK, TradeType
  <2>5. TypeOK'
    BY <1>1, <1>2, <1>4, <2>2, <2>3, <2>4 DEF TypeOK, data
  <2>6. Positions'
    BY <1>1, <1>2, <2>2 DEF Positions, data
  <2>7. NoGapInside'
    <3>1. t.entryAt >= since[Here]
      BY <1>1, <2>1 DEF Positions, Larger, TypeOK
    <3> QED BY <1>1, <1>2, <2>2, <3>1 DEF IInv, NoGapInside, Unmanaged, TypeOK, data
  <2>8. TradesAreWhole' /\ Unsold'
    <3>1. t.rem + t.closed = t.qty /\ t.rem > 0
      BY <2>1 DEF TradeType
    <3> QED BY <1>1, <2>1, <2>2, <3>1 DEF IInv, TradesAreWhole, Unsold, TypeOK
  <2> QED BY <2>5, <2>6, <2>7, <2>8 DEF IInv
<1> QED BY <1>5, <1>6

(* A part of a whole number of lots is less than all of them. *)
LEMMA PartOf ==
    ASSUME NEW n \in Nat \ {0}, NEW pct \in 1..99
    PROVE  (n * pct) \div 100 \in 0..(n - 1)
<1>1. n * pct \in Nat /\ n * pct <= n * 99
  OBVIOUS
<1>2. n * 99 < 100 * n
  OBVIOUS
<1> QED BY <1>1, <1>2

(* TP1: what is left of the trade. *)
LEMMA PartialTrade ==
    ASSUME IInv, PartialExit
    PROVE  /\ Here \in Symbol /\ open[Here] \in TradeType
           /\ loop.phase = "manage" /\ loop' \in LoopType /\ loop'.at = loop.at
           /\ loop'.phase = "decide" /\ ~(loop'.now > Bars) /\ Here' = Here
           /\ ~bar[Here].gap /\ UNCHANGED <<data, pending, booked>>
           /\ \E u \in TradeType, g \in Int :
                /\ open' = [open EXCEPT ![Here] = u] /\ Pay(g)
                /\ u.entryAt = open[Here].entryAt /\ u.tp1
                /\ u.rem + u.closed = u.qty /\ u.rem > 0 /\ u.rem <= open[Here].rem
                /\ u.net = open[Here].net + g /\ u.dir = open[Here].dir /\ u.entry = open[Here].entry
                /\ u.stop \in {u.entry, open[Here].stop}
<1> DEFINE t == open[Here]
           q == (t.qty * TP1Pct) \div 100
           u == [CloseQty(t, TP1(t), q) EXCEPT
                   !.tp1 = TRUE, !.stop = IF Breakeven THEN t.entry ELSE @]
<1>1. loop.phase = "manage" /\ loop.now <= Bars /\ Here \in Symbol /\ TypeOK /\ t \in TradeType
  BY HereIsSymbol DEF PartialExit, Managing, Running, IInv, TypeOK
<1>2. /\ loop' \in LoopType /\ loop'.at = loop.at /\ loop'.phase = "decide"
      /\ loop'.now = loop.now /\ ~(loop'.now > Bars) /\ Here' = Here
  BY <1>1, ConstantTypes DEF PartialExit, TypeOK, LoopType, Here
<1>3. ~t.tp1 /\ ~bar[Here].gap /\ open' = [open EXCEPT ![Here] = u]
      /\ Pay(Realised(t, TP1(t), q)) /\ UNCHANGED <<data, pending, booked>>
  BY DEF PartialExit
<1>4. q \in 0..(t.qty - 1)
  BY <1>1, PartOf, ConstantTypes DEF TradeType
<1>5. TP1(t) \in Int
  <2>1. Distance(t.entry, t.stop0) \in Int /\ TP1R \in Int
    BY <1>1, ConstantTypes DEF TradeType, Distance
  <2> QED BY <1>1, <2>1 DEF TP1, TradeType, Direction, LONG, SHORT
<1>6. Realised(t, TP1(t), q) \in Int
  BY <1>1, <1>4, <1>5, RealisedType DEF TradeType
<1>7. t.rem = t.qty /\ t.closed = 0
  BY <1>1, <1>3 DEF IInv, TradesAreWhole, Unsold, PartialExit, Managing, TradeType
<1> HIDE DEF q
<1>8. u = [t EXCEPT !.rem = t.rem - q, !.closed = q, !.tp1 = TRUE,
                    !.net = t.net + Realised(t, TP1(t), q),
                    !.stop = IF Breakeven THEN t.entry ELSE t.stop]
  <2> DEFINE g == Realised(t, TP1(t), q)
             c == CloseQty(t, TP1(t), q)
  <2>1. c = [t EXCEPT !.rem = Larger(0, t.rem - q), !.closed = t.closed + q, !.net = t.net + g]
    BY DEF CloseQty
  <2>2. Larger(0, t.rem - q) = t.rem - q /\ t.closed + q = q
    BY <1>1, <1>4, <1>7 DEF Larger, TradeType
  <2>3. u = [c EXCEPT !.tp1 = TRUE, !.stop = IF Breakeven THEN t.entry ELSE c.stop]
    OBVIOUS
  <2> HIDE DEF g, c, u
  <2>4. c.stop = t.stop
    BY <1>1, <2>1 DEF TradeType
  <2>5. u = [t EXCEPT !.rem = t.rem - q, !.closed = q, !.tp1 = TRUE, !.net = t.net + g,
                      !.stop = IF Breakeven THEN t.entry ELSE t.stop]
    BY <1>1, <2>1, <2>2, <2>3, <2>4 DEF TradeType
  <2> QED BY <2>5 DEF g
<1> HIDE DEF u
<1>9. /\ u \in TradeType /\ u.entryAt = t.entryAt /\ u.tp1
      /\ u.rem + u.closed = u.qty /\ u.rem > 0 /\ u.rem <= t.rem
      /\ u.net = t.net + Realised(t, TP1(t), q) /\ u.dir = t.dir /\ u.entry = t.entry
      /\ u.stop \in {u.entry, t.stop}
  <2>1. t.rem - q \in Nat \ {0} /\ q \in Nat /\ t.net + Realised(t, TP1(t), q) \in Int
    BY <1>1, <1>4, <1>6, <1>7 DEF TradeType
  <2>2. (IF Breakeven THEN t.entry ELSE t.stop) \in Int
    BY <1>1 DEF TradeType
  <2>3. u \in TradeType
    BY <1>1, <1>8, <2>1, <2>2 DEF TradeType
  <2>4. /\ u.entryAt = t.entryAt /\ u.tp1 = TRUE /\ u.rem = t.rem - q /\ u.closed = q
        /\ u.qty = t.qty /\ u.net = t.net + Realised(t, TP1(t), q)
        /\ u.dir = t.dir /\ u.entry = t.entry
        /\ u.stop = IF Breakeven THEN t.entry ELSE t.stop
    BY <1>1, <1>8 DEF TradeType
  <2> QED BY <1>1, <1>4, <1>7, <2>1, <2>3, <2>4 DEF TradeType
<1> QED BY <1>1, <1>2, <1>3, <1>6, <1>9

LEMMA PartialStep == IInv /\ PartialExit => IInv'
<1> SUFFICES ASSUME IInv, PartialExit PROVE IInv'
  OBVIOUS
<1>1. /\ Here \in Symbol /\ loop.phase = "manage" /\ loop' \in LoopType /\ loop'.at = loop.at
      /\ loop'.phase = "decide" /\ ~(loop'.now > Bars) /\ Here' = Here
      /\ ~bar[Here].gap /\ UNCHANGED <<data, pending, booked>> /\ open[Here] \in TradeType
  BY PartialTrade
<1>2. PICK u \in TradeType, g \in Int :
        /\ open' = [open EXCEPT ![Here] = u] /\ Pay(g)
        /\ u.entryAt = open[Here].entryAt /\ u.tp1
        /\ u.rem + u.closed = u.qty /\ u.rem > 0
  BY PartialTrade
<1>3. TypeOK'
  <2>1. open' \in [Symbol -> TradeType \cup {NoTrade}]
    BY <1>1, <1>2 DEF IInv, TypeOK
  <2>2. cash' \in Int /\ peak' \in Int
    BY <1>2 DEF Pay, Larger, IInv, TypeOK
  <2>3. open'[Here'] # NoTrade
    <3>1. open'[Here'] = u
      BY <1>1, <1>2 DEF IInv, TypeOK
    <3> QED BY <3>1 DEF TradeType, NoTrade
  <2> QED BY <1>1, <2>1, <2>2, <2>3 DEF IInv, TypeOK, data
<1>4. Positions'
  BY <1>1 DEF IInv, Positions, data
<1>5. NoGapInside'
  <2>1. open[Here] # NoTrade
    BY <1>1 DEF TradeType, NoTrade
  <2> QED BY <1>1, <1>2, <2>1 DEF IInv, NoGapInside, Unmanaged, TypeOK, data
<1>6. TradesAreWhole' /\ Unsold'
  BY <1>1, <1>2 DEF IInv, TradesAreWhole, Unsold, TypeOK
<1> QED BY <1>3, <1>4, <1>5, <1>6 DEF IInv

(* The exits of _manage_trade sell at integer prices and end the symbol's    *)
(* turn.                                                                     *)
ManagedExit == GapExit \/ StopExit \/ TargetExit \/ OpposingExit \/ TimeStop

LEMMA ManagedExits ==
    ASSUME IInv, ManagedExit
    PROVE  /\ Here \in Symbol /\ open[Here] # NoTrade
           /\ loop.phase \in {"manage", "decide"} /\ loop.now <= Bars /\ loop' = AfterManage
           /\ UNCHANGED <<data, pending>>
           /\ \E price \in Int, kind \in {"valid", "invalid"} : Exit(Here, price, kind)
<1> USE DEF ManagedExit
<1>1. TypeOK /\ Here \in Symbol
  BY HereIsSymbol DEF IInv
<1>2. loop.phase \in {"manage", "decide"} /\ loop.now <= Bars /\ loop' = AfterManage
  BY DEF GapExit, StopExit, TargetExit, OpposingExit, TimeStop, Managing, Running, Done
<1>3. open[Here] # NoTrade
  BY <1>1, <1>2 DEF GapExit, StopExit, TargetExit, OpposingExit, TimeStop, Managing,
     Running, TypeOK
<1>4. open[Here] \in TradeType
  BY <1>1, <1>3 DEF TypeOK
<1>5. Row.close \in Int
  <2>1. bar[Here] \in [row : Rows, gap : BOOLEAN]
    BY <1>1, <1>2 DEF TypeOK
  <2> QED BY <2>1, RowTypes DEF Row
<1>6. UNCHANGED <<data, pending>>
  BY DEF GapExit, StopExit, TargetExit, OpposingExit, TimeStop, Trading
<1>7. \E price \in Int, kind \in {"valid", "invalid"} : Exit(Here, price, kind)
  <2>1. open[Here].stop \in Int /\ open[Here].target \in Int
    BY <1>4 DEF TradeType
  <2>2. Row.close - open[Here].dir * AggressiveSlip \in Int
    BY <1>4, <1>5, ConstantTypes DEF TradeType, Direction, LONG, SHORT
  <2>3. CASE GapExit
    BY <2>1, <2>3 DEF GapExit
  <2>4. CASE StopExit
    BY <2>1, <2>4 DEF StopExit
  <2>5. CASE TargetExit
    BY <2>1, <2>5 DEF TargetExit
  <2>6. CASE OpposingExit
    BY <2>2, <2>6 DEF OpposingExit
  <2>7. CASE TimeStop
    BY <1>5, <2>7 DEF TimeStop
  <2> QED BY <2>3, <2>4, <2>5, <2>6, <2>7
<1> QED BY <1>1, <1>2, <1>3, <1>6, <1>7

LEMMA ManagedExitStep ==
    ASSUME IInv, ManagedExit
    PROVE  IInv'
<1>1. loop \in LoopType /\ TypeOK
  BY DEF IInv, TypeOK
<1>2. /\ loop' \in LoopType /\ loop'.phase \in {"bar", "signal"} /\ ~(loop'.now > Bars)
  BY <1>1, ManagedExits, LoopTypes, ConstantTypes DEF LoopType
<1> QED BY <1>2, ManagedExits, ExitStep

LEMMA EndStep ==
    ASSUME IInv, NEW s \in Symbol, EndOfTest(s)
    PROVE  IInv'
<1>1. TypeOK /\ Positions /\ loop.now > Bars /\ open[s] # NoTrade /\ close[s] \in Int
  BY DEF EndOfTest, IInv, TypeOK
<1>2. loop' \in LoopType /\ loop'.phase = "bar" /\ ~Unmanaged(Here)
  BY <1>1 DEF EndOfTest, TypeOK, Positions, Unmanaged
<1>3. Exit(s, close[s], "valid") /\ UNCHANGED <<data, pending>>
  BY DEF EndOfTest, data
<1> QED BY <1>1, <1>2, <1>3, ExitStep

LEMMA StepHolds == IInv /\ [Next]_vars => IInv'
<1> SUFFICES ASSUME IInv, [Next]_vars PROVE IInv'
  OBVIOUS
<1>1. TypeOK /\ Here \in Symbol /\ loop \in LoopType
  BY HereIsSymbol DEF IInv, TypeOK
<1>2. CASE NoBar
  BY <1>2, NoBarStep
<1>3. CASE \E r \in Rows, flagged \in BOOLEAN : Bar(r, flagged)
  BY <1>3, BarStep
<1>4. CASE MissedFill
  BY <1>4, MissedFillStep
<1>5. CASE Fill
  BY <1>5, FillStep
<1>6. CASE NothingPending
  <2>1. loop.phase = "fill" /\ loop.now <= Bars
    BY <1>6 DEF NothingPending, Running
  <2>2. loop' \in LoopType /\ loop'.at = loop.at /\ loop'.phase = "manage" /\ loop'.now = loop.now
    BY <1>1, <1>6 DEF NothingPending, LoopType
  <2>3. ~(loop'.now > Bars)
    BY <1>1, <2>1, <2>2, ConstantTypes DEF LoopType
  <2>4. UNCHANGED <<data, cash, pending, open, booked, peak>>
    BY <1>6 DEF NothingPending
  <2> QED BY <2>1, <2>2, <2>3, <2>4, IdleStep
<1>7. CASE Flat \/ Hold
  <2>1. /\ loop.now <= Bars /\ loop' = AfterManage
        /\ Unmanaged(Here) => open[Here] = NoTrade
    BY <1>7 DEF Flat, Hold, Running, Done, Unmanaged
  <2>2. /\ loop' \in LoopType /\ loop'.phase \in {"bar", "signal"} /\ ~(loop'.now > Bars)
    BY <1>1, <2>1, LoopTypes, ConstantTypes DEF LoopType
  <2>3. UNCHANGED <<data, cash, pending, open, booked, peak>>
    BY <1>7 DEF Flat, Hold
  <2> QED BY <2>1, <2>2, <2>3, IdleStep
<1>8. CASE Untouched
  <2>1. loop.phase = "manage" /\ loop.now <= Bars /\ open[Here] # NoTrade /\ ~bar[Here].gap
    BY <1>8 DEF Untouched, Managing, Running
  <2>2. loop' \in LoopType /\ loop'.at = loop.at /\ loop'.phase = "decide" /\ loop'.now = loop.now
    BY <1>1, <1>8 DEF Untouched, LoopType
  <2>3. ~(loop'.now > Bars)
    BY <1>1, <2>1, <2>2, ConstantTypes DEF LoopType
  <2>4. UNCHANGED <<data, cash, pending, open, booked, peak>>
    BY <1>8 DEF Untouched
  <2> QED BY <2>1, <2>2, <2>3, <2>4, IdleStep
<1>9. CASE PartialExit
  BY <1>9, PartialStep
<1>10. CASE ManagedExit
  BY <1>10, ManagedExitStep
<1>11. CASE NoSignal \/ \E correlated \in BOOLEAN : Refuse(correlated)
  <2>1. loop.phase = "signal" /\ loop.now <= Bars /\ loop' = AfterSignal
    BY <1>11 DEF NoSignal, Refuse, Running
  <2>2. /\ loop' \in LoopType /\ loop'.phase \in {"bar", "signal"}
        /\ loop'.now > Bars => loop'.phase = "bar"
    BY <1>1, <2>1, LoopTypes
  <2>3. UNCHANGED <<data, cash, pending, open, booked, peak>> /\ ~Unmanaged(Here)
    BY <1>11, <2>1 DEF NoSignal, Refuse, Unmanaged
  <2> QED BY <2>1, <2>2, <2>3, IdleStep
<1>12. CASE \E correlated \in BOOLEAN : Plan(correlated)
  BY <1>12, PlanStep
<1>13. CASE \E s \in Symbol : EndOfTest(s)
  BY <1>13, EndStep
<1>14. CASE UNCHANGED vars
  BY <1>14 DEF vars, IInv, TypeOK, Positions, NoGapInside, TradesAreWhole, Unsold, Unmanaged, Here
<1> QED BY <1>2, <1>3, <1>4, <1>5, <1>6, <1>7, <1>8, <1>9, <1>10, <1>11, <1>12, <1>13, <1>14
        DEF Next, TryFill, Manage, Signal, ManagedExit

LEMMA Invariance == Spec => []IInv
BY InitHolds, StepHolds, PTL DEF Spec

-----------------------------------------------------------------------------
(* Money.  A symbol has an order or a trade, not both; the stop of a short    *)
(* lies above zero; and the peak is above zero and nowhere below the cash.    *)
Exclusive == \A s \in Symbol : pending[s] # NoOrder => open[s] = NoTrade
ShortStops == \A s \in Symbol : open[s] # NoTrade /\ open[s].dir = SHORT => open[s].stop > 0
Peaked == peak > 0 /\ cash <= peak
MInv == Exclusive /\ ShortStops /\ Peaked /\ CashReconciles /\ OpenRiskCapped

LEMMA OrderFacts ==
    /\ Len(Order) \in Nat \ {0} /\ DOMAIN Order = 1..Len(Order)
    /\ \A s \in Symbol : \E k \in 1..Len(Order) :
         Order[k] = s /\ \A i \in 1..Len(Order) : Order[i] = s => i = k
    /\ \A i \in 1..Len(Order) : Order[i] \in Symbol
<1>1. Len(Order) \in Nat \ {0} /\ DOMAIN Order = 1..Len(Order)
  BY BacktestAssumption
<1>2. \A i, j \in DOMAIN Order : Order[i] = Order[j] => i = j
  BY BacktestAssumption
<1> QED BY <1>1, <1>2 DEF Symbol

(* What one trade, and one order, adds to the sums.                          *)
LEMMA Addends ==
    /\ \A t \in TradeType \cup {NoTrade} : AtRisk(t) \in Nat /\ Unbooked(t) \in Int
    /\ \A p \in OrderType \cup {NoOrder} : Reserved(p) \in Nat
<1>1. ASSUME NEW t \in TradeType PROVE AtRisk(t) \in Nat /\ Unbooked(t) \in Int
  <2>1. t.rem \in Nat /\ Distance(t.entry, t.stop) \in Nat /\ t.net \in Int
    BY DEF TradeType, Distance
  <2> HIDE DEF Distance
  <2> QED BY <2>1 DEF AtRisk, Unbooked
<1>2. AtRisk(NoTrade) = 0 /\ Unbooked(NoTrade) = 0 /\ Reserved(NoOrder) = 0
  BY DEF AtRisk, Unbooked, Reserved
<1>3. \A p \in OrderType : Reserved(p) \in Nat
  BY DEF OrderType, Reserved
<1> QED BY <1>1, <1>2, <1>3

LEMMA SumTypes ==
    ASSUME TypeOK
    PROVE  OpenRisk \in Nat /\ OpenNet \in Int /\ ReservedRisk \in Nat
<1> DEFINE n == Len(Order)
           risk == [i \in DOMAIN Order |-> AtRisk(open[Order[i]])]
           net == [i \in DOMAIN Order |-> Unbooked(open[Order[i]])]
           held == [i \in DOMAIN Order |-> Reserved(pending[Order[i]])]
<1>1. n \in Nat /\ \A i \in 1..n : risk[i] \in Nat /\ net[i] \in Int /\ held[i] \in Nat
  BY OrderFacts, Addends DEF TypeOK
<1>2. OpenRisk = Total(risk, n) /\ OpenNet = Total(net, n) /\ ReservedRisk = Total(held, n)
  BY DEF OpenRisk, OpenNet, ReservedRisk
<1> HIDE DEF n, risk, net, held
<1>3. Total(risk, n) \in Nat /\ Total(held, n) \in Nat
  BY <1>1, TotalNatural
<1>4. Total(net, n) \in Int
  <2>1. n \in 0..n
    BY <1>1
  <2> QED BY <1>1, <2>1, TotalSteps
<1> QED BY <1>2, <1>3, <1>4

(* One trade changes.                                                        *)
LEMMA TradeChange ==
    ASSUME TypeOK, NEW s \in Symbol, NEW u \in TradeType \cup {NoTrade},
           open' = [open EXCEPT ![s] = u]
    PROVE  /\ OpenRisk' = OpenRisk + (AtRisk(u) - AtRisk(open[s]))
           /\ OpenNet' = OpenNet + (Unbooked(u) - Unbooked(open[s]))
<1> DEFINE n == Len(Order)
           risk == [i \in DOMAIN Order |-> AtRisk(open[Order[i]])]
           net == [i \in DOMAIN Order |-> Unbooked(open[Order[i]])]
           risk2 == [i \in DOMAIN Order |-> AtRisk(open'[Order[i]])]
           net2 == [i \in DOMAIN Order |-> Unbooked(open'[Order[i]])]
<1>1. PICK k \in 1..n : Order[k] = s /\ \A i \in 1..n : Order[i] = s => i = k
  BY OrderFacts
<1>2. n \in Nat /\ DOMAIN Order = 1..n
  BY OrderFacts
<1>3. \A i \in 1..n : /\ open[Order[i]] \in TradeType \cup {NoTrade}
                      /\ open'[Order[i]] = IF i = k THEN u ELSE open[Order[i]]
  BY <1>1, OrderFacts DEF TypeOK
<1>4. \A i \in 1..n : /\ risk[i] \in Int /\ risk2[i] \in Int /\ (i # k => risk2[i] = risk[i])
                      /\ net[i] \in Int /\ net2[i] \in Int /\ (i # k => net2[i] = net[i])
  BY <1>2, <1>3, Addends
<1>5. /\ risk[k] = AtRisk(open[s]) /\ risk2[k] = AtRisk(u)
      /\ net[k] = Unbooked(open[s]) /\ net2[k] = Unbooked(u)
  BY <1>1, <1>2, <1>3
<1>6. /\ OpenRisk = Total(risk, n) /\ OpenNet = Total(net, n)
      /\ OpenRisk' = Total(risk2, n) /\ OpenNet' = Total(net2, n)
  BY DEF OpenRisk, OpenNet
<1> HIDE DEF n, risk, risk2, net, net2
<1>7. /\ Total(risk2, n) = Total(risk, n) + (risk2[k] - risk[k])
      /\ Total(net2, n) = Total(net, n) + (net2[k] - net[k])
  BY <1>2, <1>4, TotalChange
<1> QED BY <1>5, <1>6, <1>7

(* One order changes.                                                        *)
LEMMA OrderChange ==
    ASSUME TypeOK, NEW s \in Symbol, NEW p \in OrderType \cup {NoOrder},
           pending' = [pending EXCEPT ![s] = p]
    PROVE  ReservedRisk' = ReservedRisk + (Reserved(p) - Reserved(pending[s]))
<1> DEFINE n == Len(Order)
           held == [i \in DOMAIN Order |-> Reserved(pending[Order[i]])]
           held2 == [i \in DOMAIN Order |-> Reserved(pending'[Order[i]])]
<1>1. PICK k \in 1..n : Order[k] = s /\ \A i \in 1..n : Order[i] = s => i = k
  BY OrderFacts
<1>2. n \in Nat /\ DOMAIN Order = 1..n
  BY OrderFacts
<1>3. \A i \in 1..n : /\ pending[Order[i]] \in OrderType \cup {NoOrder}
                      /\ pending'[Order[i]] = IF i = k THEN p ELSE pending[Order[i]]
  BY <1>1, OrderFacts DEF TypeOK
<1>4. \A i \in 1..n : held[i] \in Int /\ held2[i] \in Int /\ (i # k => held2[i] = held[i])
  BY <1>2, <1>3, Addends
<1>5. held[k] = Reserved(pending[s]) /\ held2[k] = Reserved(p)
  BY <1>1, <1>2, <1>3
<1>6. ReservedRisk = Total(held, n) /\ ReservedRisk' = Total(held2, n)
  BY DEF ReservedRisk
<1> HIDE DEF n, held, held2
<1>7. Total(held2, n) = Total(held, n) + (held2[k] - held[k])
  BY <1>2, <1>4, TotalChange
<1> QED BY <1>5, <1>6, <1>7

(* A cap on a share of some money is one on the same share of more.          *)
LEMMA Scale ==
    ASSUME NEW a \in Nat, NEW r \in Nat, NEW m \in Nat, NEW c \in Int, NEW p \in Int,
           c > 0, c <= p, 10000 * a + r * c <= m * c
    PROVE  10000 * a + r * p <= m * p
<1>1. (m - r) * c = m * c - r * c /\ (m - r) * p = m * p - r * p
  OBVIOUS
<1>2. m - r >= 0
  <2> SUFFICES ASSUME m - r < 0 PROVE FALSE
    OBVIOUS
  <2>1. (r - m) * c >= c
    <3>1. r - m - 1 \in Nat /\ c \in Nat
      OBVIOUS
    <3>2. (r - m - 1) * c \in Nat
      BY <3>1
    <3>3. (r - m - 1) * c = (r - m) * c - c
      OBVIOUS
    <3> QED BY <3>2, <3>3
  <2>2. (r - m) * c = r * c - m * c
    OBVIOUS
  <2> QED BY <2>1, <2>2
<1>3. (m - r) * (p - c) >= 0
  <2>1. m - r \in Nat /\ p - c \in Nat
    BY <1>2
  <2> QED BY <2>1
<1>4. (m - r) * (p - c) = (m - r) * p - (m - r) * c
  OBVIOUS
<1> QED BY <1>1, <1>3, <1>4

LEMMA RiskConstants == MaxTotalRisk \in Nat /\ InitialEquity \in Nat \ {0}
BY BacktestAssumption

(* The money that is not touched.                                            *)
LEMMA MoneySame ==
    ASSUME TypeOK, MInv, UNCHANGED <<cash, pending, open, booked, peak>>
    PROVE  MInv'
<1>1. OpenRisk' = OpenRisk /\ OpenNet' = OpenNet /\ ReservedRisk' = ReservedRisk
  BY DEF OpenRisk, OpenNet, ReservedRisk
<1> QED BY <1>1 DEF MInv, Exclusive, ShortStops, Peaked, CashReconciles, OpenRiskCapped

(* An order goes, ages or is planned.                                        *)
LEMMA MoneyOrder ==
    ASSUME TypeOK, MInv, NEW s \in Symbol, NEW p \in OrderType \cup {NoOrder},
           pending' = [pending EXCEPT ![s] = p],
           p # NoOrder => open[s] = NoTrade,
           \/ Reserved(p) <= Reserved(pending[s])
           \/ pending[s] = NoOrder /\ ~ExceedsCap(Reserved(p)),
           UNCHANGED <<cash, open, booked, peak>>
    PROVE  MInv'
<1> DEFINE R == ReservedRisk
           new == Reserved(p)
           old == Reserved(pending[s])
<1>1. OpenRisk' = OpenRisk /\ OpenNet' = OpenNet
  BY DEF OpenRisk, OpenNet
<1>2. ReservedRisk' = R + (new - old)
  BY OrderChange
<1>3. OpenRisk \in Nat /\ R \in Nat /\ new \in Nat /\ old \in Nat
  BY SumTypes, Addends DEF TypeOK
<1>4. Exclusive' /\ ShortStops' /\ Peaked' /\ CashReconciles'
  BY <1>1 DEF MInv, Exclusive, ShortStops, Peaked, CashReconciles, TypeOK
<1>5. /\ peak \in Int /\ cash \in Int /\ MaxTotalRisk \in Nat /\ peak > 0 /\ cash <= peak
      /\ 10000 * OpenRisk + R * peak <= MaxTotalRisk * peak
  BY RiskConstants DEF TypeOK, MInv, Peaked, OpenRiskCapped
<1>7. 10000 * OpenRisk + ReservedRisk' * peak <= MaxTotalRisk * peak
  <2>1. CASE new <= old
    <3>1. (old - new) * peak >= 0
      <4>1. old - new \in Nat /\ peak \in Nat
        BY <1>3, <1>5, <2>1
      <4> HIDE DEF old, new
      <4> QED BY <4>1
    <3> HIDE DEF R, old, new
    <3>2. (R + (new - old)) * peak = R * peak - (old - new) * peak
      BY <1>3, <1>5
    <3> QED BY <1>2, <1>3, <1>5, <3>1, <3>2
  <2>2. CASE pending[s] = NoOrder /\ ~ExceedsCap(new)
    <3>1. old = 0
      BY <2>2 DEF Reserved
    <3>2. ReservedRisk' = R + new
      BY <1>2, <1>3, <3>1
    <3>3. CASE cash > 0
      <4>1. 10000 * OpenRisk + (R + new) * cash <= MaxTotalRisk * cash
        <5>1. ~(10000 * OpenRisk + (R + new) * cash > MaxTotalRisk * cash)
          BY <2>2, <3>3 DEF ExceedsCap
        <5> HIDE DEF R, new
        <5> QED BY <5>1, <1>3, <1>5
      <4>2. R + new \in Nat
        BY <1>3
      <4> HIDE DEF R, new
      <4> QED BY <1>3, <1>5, <3>2, <3>3, <4>1, <4>2, Scale
    <3>4. CASE ~(cash > 0)
      <4>1. ~(OpenRisk > 0) /\ ~(R + new > MaxTotalRisk)
        BY <2>2, <3>4 DEF ExceedsCap
      <4> HIDE DEF R, new
      <4>2. OpenRisk = 0 /\ MaxTotalRisk - (R + new) \in Nat
        BY <4>1, <1>3, <1>5
      <4>3. (MaxTotalRisk - (R + new)) * peak >= 0
        BY <4>2, <1>5
      <4>4. (MaxTotalRisk - (R + new)) * peak = MaxTotalRisk * peak - (R + new) * peak
        BY <1>3, <1>5
      <4> QED BY <3>2, <4>2, <4>3, <4>4, <1>3, <1>5
    <3> QED BY <3>3, <3>4
  <2> QED BY <2>1, <2>2
<1> QED BY <1>1, <1>4, <1>7 DEF MInv, OpenRiskCapped

(* The trade of s becomes u and its order p, and g is paid.                  *)
Moves(s, u, p, g) ==
    /\ u \in TradeType \cup {NoTrade} /\ p \in OrderType \cup {NoOrder} /\ g \in Int
    /\ open' = [open EXCEPT ![s] = u] /\ pending' = [pending EXCEPT ![s] = p] /\ Pay(g)
    /\ p # NoOrder => u = NoTrade
    /\ u # NoTrade /\ u.dir = SHORT => u.stop > 0
    /\ booked' \in [valid : Int, invalid : Int]
    /\ booked'.valid + booked'.invalid + Unbooked(u)
         = booked.valid + booked.invalid + Unbooked(open[s]) + g
    /\ 10000 * AtRisk(u) + Reserved(p) * peak
         <= 10000 * AtRisk(open[s]) + Reserved(pending[s]) * peak

LEMMA MoneyTrade ==
    ASSUME TypeOK, MInv, NEW s \in Symbol, NEW u, NEW p, NEW g, Moves(s, u, p, g)
    PROVE  MInv'
<1> DEFINE a == OpenRisk
           R == ReservedRisk
           new == Reserved(p)
           old == Reserved(pending[s])
           x == AtRisk(u)
           y == AtRisk(open[s])
<1> USE DEF Moves
<1>1. /\ OpenRisk' = a + (x - y) /\ OpenNet' = OpenNet + (Unbooked(u) - Unbooked(open[s]))
      /\ ReservedRisk' = R + (new - old)
  <2>1. OpenRisk' = a + (x - y) /\ OpenNet' = OpenNet + (Unbooked(u) - Unbooked(open[s]))
    BY ONLY TypeOK, s \in Symbol, u \in TradeType \cup {NoTrade},
       open' = [open EXCEPT ![s] = u], TradeChange
  <2>2. ReservedRisk' = R + (new - old)
    BY ONLY TypeOK, s \in Symbol, p \in OrderType \cup {NoOrder},
       pending' = [pending EXCEPT ![s] = p], OrderChange
  <2> QED BY <2>1, <2>2
<1>2. /\ a \in Nat /\ R \in Nat /\ new \in Nat /\ old \in Nat /\ x \in Nat /\ y \in Nat
      /\ Unbooked(u) \in Int /\ Unbooked(open[s]) \in Int /\ OpenNet \in Int
  BY SumTypes, Addends DEF TypeOK
<1>3. OpenRisk' \in Nat /\ ReservedRisk' \in Nat
  <2>1. /\ open' \in [Symbol -> TradeType \cup {NoTrade}]
        /\ pending' \in [Symbol -> OrderType \cup {NoOrder}]
    BY DEF TypeOK
  <2> DEFINE n == Len(Order)
             risk == [i \in DOMAIN Order |-> AtRisk(open'[Order[i]])]
             held == [i \in DOMAIN Order |-> Reserved(pending'[Order[i]])]
  <2>2. n \in Nat /\ \A i \in 1..n : risk[i] \in Nat /\ held[i] \in Nat
    BY <2>1, OrderFacts, Addends
  <2>3. OpenRisk' = Total(risk, n) /\ ReservedRisk' = Total(held, n)
    BY DEF OpenRisk, ReservedRisk
  <2> HIDE DEF n, risk, held
  <2> QED BY <2>2, <2>3, TotalNatural
<1>4. /\ peak \in Int /\ cash \in Int /\ MaxTotalRisk \in Nat /\ peak > 0 /\ cash <= peak
      /\ 10000 * a + R * peak <= MaxTotalRisk * peak
      /\ cash' = cash + g /\ peak' = Larger(peak, cash + g)
  BY RiskConstants DEF TypeOK, MInv, Peaked, OpenRiskCapped, Pay
<1>5. peak' \in Int /\ peak <= peak' /\ cash' <= peak' /\ peak' > 0
  BY <1>4 DEF Larger
<1>6. 10000 * OpenRisk' + ReservedRisk' * peak <= MaxTotalRisk * peak
  <2> HIDE DEF a, R, new, old, x, y
  <2>1. (R + (new - old)) * peak = R * peak + new * peak - old * peak
    BY <1>2, <1>4
  <2>2. 10000 * x + new * peak <= 10000 * y + old * peak
    BY DEF x, y, new, old
  <2>3. ReservedRisk' * peak = R * peak + new * peak - old * peak
    BY <1>1, <2>1
  <2> QED BY <1>1, <1>2, <1>4, <2>2, <2>3
<1>7. 10000 * OpenRisk' + ReservedRisk' * peak' <= MaxTotalRisk * peak'
  <2> DEFINE a2 == OpenRisk'
             R2 == ReservedRisk'
             p2 == peak'
  <2>1. a2 \in Nat /\ R2 \in Nat /\ p2 \in Int /\ peak <= p2 /\ 10000 * a2 + R2 * peak <= MaxTotalRisk * peak
    BY <1>3, <1>5, <1>6
  <2> HIDE DEF a2, R2, p2
  <2>2. 10000 * a2 + R2 * p2 <= MaxTotalRisk * p2
    BY <1>4, <2>1, Scale
  <2> QED BY <2>2 DEF a2, R2, p2
<1>8. CashReconciles'
  <2>1. booked \in [valid : Int, invalid : Int] /\ InitialEquity \in Int
    BY RiskConstants DEF TypeOK
  <2>2. cash = InitialEquity + booked.valid + booked.invalid + OpenNet
    BY DEF MInv, CashReconciles
  <2>3. cash' = InitialEquity + booked'.valid + booked'.invalid + OpenNet'
    BY <1>1, <1>2, <1>4, <2>1, <2>2
  <2> QED BY <2>3 DEF CashReconciles
<1>9. Exclusive' /\ ShortStops'
  BY DEF MInv, Exclusive, ShortStops, TypeOK
<1> QED BY <1>5, <1>7, <1>8, <1>9 DEF MInv, Peaked, OpenRiskCapped

LEMMA SamePending ==
    ASSUME TypeOK, UNCHANGED pending, NEW s \in Symbol
    PROVE  pending' = [pending EXCEPT ![s] = pending[s]] /\ pending[s] \in OrderType \cup {NoOrder}
BY DEF TypeOK

LEMMA MoneyExit ==
    ASSUME TypeOK, MInv, NEW s \in Symbol, NEW price \in Int, NEW kind \in {"valid", "invalid"},
           open[s] # NoTrade, Exit(s, price, kind), UNCHANGED pending
    PROVE  MInv'
<1> DEFINE t == open[s]
           g == Realised(t, price, t.rem)
<1>1. t \in TradeType /\ t.rem \in Int /\ t.net \in Int
  BY DEF TypeOK, TradeType
<1>2. g \in Int
  BY <1>1, RealisedType
<1>3. open' = [open EXCEPT ![s] = NoTrade] /\ Pay(g)
  BY DEF Exit
<1>4. booked' = [booked EXCEPT ![kind] = @ + (t.net + g)]
  <2>1. CloseQty(t, price, t.rem).net = t.net + g
    BY <1>1 DEF CloseQty, TradeType
  <2> QED BY <2>1 DEF Exit
<1> HIDE DEF g
<1>5. /\ booked' \in [valid : Int, invalid : Int]
      /\ booked'.valid + booked'.invalid = booked.valid + booked.invalid + t.net + g
  <2>1. booked \in [valid : Int, invalid : Int]
    BY DEF TypeOK
  <2>2. CASE kind = "valid"
    BY <1>1, <1>2, <1>4, <2>1, <2>2
  <2>3. CASE kind = "invalid"
    BY <1>1, <1>2, <1>4, <2>1, <2>3
  <2> QED BY <2>2, <2>3
<1>6. /\ Unbooked(NoTrade) = 0 /\ Unbooked(t) = t.net /\ AtRisk(NoTrade) = 0
      /\ AtRisk(t) \in Nat
  BY <1>1, Addends DEF Unbooked, AtRisk
<1>7. booked'.valid + booked'.invalid + Unbooked(NoTrade)
        = booked.valid + booked.invalid + Unbooked(t) + g
  BY <1>1, <1>2, <1>5, <1>6
<1>8. 10000 * AtRisk(NoTrade) + Reserved(pending[s]) * peak
        <= 10000 * AtRisk(t) + Reserved(pending[s]) * peak
  <2>1. Reserved(pending[s]) * peak \in Int
    BY Addends DEF TypeOK
  <2> QED BY <1>6, <2>1
<1> DEFINE p == pending[s]
           u == NoTrade
<1>9. /\ p \in OrderType \cup {NoOrder} /\ pending' = [pending EXCEPT ![s] = p]
      /\ u = NoTrade /\ open' = [open EXCEPT ![s] = u]
      /\ 10000 * AtRisk(u) + Reserved(p) * peak <= 10000 * AtRisk(open[s]) + Reserved(pending[s]) * peak
      /\ booked'.valid + booked'.invalid + Unbooked(u)
           = booked.valid + booked.invalid + Unbooked(open[s]) + g
  BY <1>3, <1>7, <1>8, SamePending
<1> HIDE DEF p, u, t
<1>10. Moves(s, u, p, g)
  <2>1. u \in TradeType \cup {NoTrade} /\ ~(u # NoTrade) /\ Pay(g)
    BY ONLY <1>3, <1>9
  <2>2. booked' \in [valid : Int, invalid : Int]
    BY <1>5
  <2> QED BY ONLY <1>2, <1>9, <2>1, <2>2 DEF Moves
<1> QED BY <1>10, MoneyTrade

LEMMA MoneyPartial == ASSUME IInv, MInv, PartialExit PROVE MInv'
<1> DEFINE t == open[Here]
           p == pending[Here]
<1>1. /\ Here \in Symbol /\ t \in TradeType /\ t # NoTrade /\ UNCHANGED <<pending, booked>>
      /\ TypeOK
  <2>1. t # NoTrade
    BY DEF PartialExit, Managing
  <2> QED BY <2>1, PartialTrade DEF IInv
<1>2. PICK u \in TradeType, g \in Int :
        /\ open' = [open EXCEPT ![Here] = u] /\ Pay(g)
        /\ u.rem <= t.rem /\ u.net = t.net + g /\ u.dir = t.dir /\ u.entry = t.entry
        /\ u.stop \in {u.entry, t.stop}
  BY PartialTrade
<1>3. p = NoOrder /\ pending' = [pending EXCEPT ![Here] = p] /\ p \in OrderType \cup {NoOrder}
  <2>1. p = NoOrder
    BY <1>1 DEF MInv, Exclusive
  <2> QED BY <1>1, <2>1, SamePending
<1>4. u # NoTrade /\ Unbooked(u) = t.net + g /\ Unbooked(t) = t.net
  BY <1>1, <1>2 DEF Unbooked, TradeType, NoTrade
<1>5. AtRisk(u) <= AtRisk(t)
  <2> DEFINE d == Distance(t.entry, t.stop)
  <2>1. /\ d \in Nat /\ Distance(u.entry, u.entry) = 0 /\ u.rem \in Nat /\ t.rem \in Nat
        /\ AtRisk(t) = t.rem * d /\ AtRisk(u) = u.rem * Distance(u.entry, u.stop)
    BY <1>1, <1>4 DEF TradeType, Distance, AtRisk
  <2>2. Distance(u.entry, u.stop) \in {0, d}
    BY <1>2, <2>1
  <2> HIDE DEF d
  <2>3. u.rem * d <= t.rem * d /\ 0 <= t.rem * d
    <3>1. t.rem - u.rem \in Nat
      BY <1>2, <2>1
    <3>2. (t.rem - u.rem) * d \in Nat /\ (t.rem - u.rem) * d = t.rem * d - u.rem * d
      BY <2>1, <3>1
    <3> QED BY <2>1, <3>2
  <2> QED BY <2>1, <2>2, <2>3
<1>6. u.dir = SHORT => u.stop > 0
  <2>1. t.dir = SHORT => t.stop > 0
    BY <1>1 DEF MInv, ShortStops
  <2>2. u.entry > 0
    BY DEF TradeType
  <2> QED BY <1>2, <2>1, <2>2
<1>7. booked' \in [valid : Int, invalid : Int] /\ booked' = booked /\ t.net \in Int
  BY <1>1 DEF TypeOK, TradeType
<1>8. /\ AtRisk(u) \in Nat /\ AtRisk(t) \in Nat /\ Reserved(p) = 0
  BY <1>1, <1>3, Addends DEF Reserved
<1> HIDE DEF t, p
<1>9. booked'.valid + booked'.invalid + Unbooked(u) = booked.valid + booked.invalid + Unbooked(t) + g
  BY <1>4, <1>7
<1>10. 10000 * AtRisk(u) + Reserved(p) * peak <= 10000 * AtRisk(t) + Reserved(p) * peak
  BY <1>1, <1>5, <1>8 DEF TypeOK
<1>11. Moves(Here, u, p, g)
  BY <1>2, <1>3, <1>6, <1>7, <1>9, <1>10 DEF Moves, t, p
<1> QED BY <1>1, <1>11, MoneyTrade

LEMMA MoneyFill == ASSUME IInv, MInv, Fill PROVE MInv'
<1> DEFINE p == pending[Here]
           t == Opened(p, Row)
<1>1. loop.phase = "fill" /\ Here \in Symbol /\ TypeOK /\ Positions /\ Running("fill")
  BY HereIsSymbol DEF Fill, Running, IInv
<1>2. p \in OrderType /\ Row \in Rows /\ p # NoOrder /\ open[Here] = NoTrade
  <2>1. bar[Here] \in [row : Rows, gap : BOOLEAN]
    BY <1>1 DEF TypeOK
  <2>2. p # NoOrder
    BY DEF Fill
  <2> QED BY <1>1, <2>1, <2>2 DEF TypeOK, Row, MInv, Exclusive
<1>3. pending' = [pending EXCEPT ![Here] = NoOrder] /\ UNCHANGED booked
  BY DEF Fill
<1>4. CASE ~(t.qty > 0)
  <2>1. UNCHANGED <<cash, open, booked, peak>>
    BY <1>4 DEF Fill
  <2>2. Reserved(NoOrder) <= Reserved(p)
    BY <1>2, Addends DEF Reserved
  <2> QED BY <1>1, <1>3, <2>1, <2>2, MoneyOrder
<1>5. CASE t.qty > 0
  <2>1. /\ t \in TradeType /\ 10000 * AtRisk(t) <= cash * p.risk
        /\ t.dir = SHORT => t.stop > 0
    BY <1>1, <1>2, <1>5, OpenedType
  <2>2. open' = [open EXCEPT ![Here] = t] /\ Pay(t.net)
    BY <1>5 DEF Fill
  <2>3. /\ p.risk \in Nat /\ Reserved(p) = p.risk /\ Reserved(NoOrder) = 0
        /\ AtRisk(NoTrade) = 0 /\ Unbooked(NoTrade) = 0 /\ AtRisk(t) \in Nat
    BY <1>2, <2>1, Addends DEF Reserved, AtRisk, Unbooked, OrderType
  <2>4. Unbooked(t) = t.net /\ t.net \in Int
    BY <2>1 DEF Unbooked, TradeType, NoTrade
  <2>5. cash * p.risk <= p.risk * peak
    <3>1. cash \in Int /\ peak \in Int /\ cash <= peak
      BY <1>1 DEF TypeOK, MInv, Peaked
    <3> DEFINE r == p.risk
    <3> HIDE DEF p, t
    <3>2. r \in Nat /\ peak - cash \in Nat
      BY <2>3, <3>1
    <3> HIDE DEF r
    <3>3. r * (peak - cash) \in Nat /\ r * (peak - cash) = r * peak - cash * r
      BY <3>1, <3>2
    <3>4. cash * r <= r * peak
      BY <3>1, <3>2, <3>3
    <3> QED BY <3>4 DEF r
  <2> HIDE DEF t, p
  <2>6. booked' \in [valid : Int, invalid : Int] /\ booked' = booked
    BY <1>1, <1>3 DEF TypeOK
  <2> DEFINE none == NoOrder
  <2>7. booked'.valid + booked'.invalid + Unbooked(t)
          = booked.valid + booked.invalid + Unbooked(open[Here]) + t.net
    BY <1>2, <2>3, <2>4, <2>6
  <2>8. 10000 * AtRisk(t) + Reserved(none) * peak
          <= 10000 * AtRisk(open[Here]) + Reserved(p) * peak
    <3>1. peak \in Int /\ cash \in Int
      BY <1>1 DEF TypeOK
    <3>2. cash * p.risk \in Int /\ p.risk * peak \in Int /\ 0 * peak = 0
      BY <3>1, <2>3
    <3> QED BY <1>2, <2>1, <2>3, <2>5, <3>1, <3>2
  <2>9. Moves(Here, t, none, t.net)
    <3>1. none = NoOrder /\ none \in OrderType \cup {NoOrder}
      OBVIOUS
    <3>2. pending' = [pending EXCEPT ![Here] = none]
      BY <1>3
    <3> HIDE DEF none
    <3> QED BY <2>1, <2>2, <2>4, <2>6, <2>7, <2>8, <3>1, <3>2 DEF Moves, p
  <2> QED BY <1>1, <2>9, MoneyTrade
<1> QED BY <1>4, <1>5

LEMMA MoneyMissed == ASSUME IInv, MInv, MissedFill PROVE MInv'
<1> DEFINE old == pending[Here]
           new == IF old.ttl <= 1 THEN NoOrder ELSE [old EXCEPT !.ttl = @ - 1]
<1>1. Here \in Symbol /\ TypeOK
  BY HereIsSymbol DEF IInv
<1>2. old \in OrderType /\ old # NoOrder
  BY <1>1 DEF MissedFill, TypeOK
<1>3. ~(old.ttl <= 1) => [old EXCEPT !.ttl = @ - 1] \in OrderType
  BY <1>2, ConstantTypes DEF OrderType
<1>4. new \in OrderType \cup {NoOrder}
  BY <1>3
<1>5. Reserved(new) <= Reserved(old)
  <2>1. Reserved(NoOrder) = 0 /\ Reserved(old) = old.risk /\ old.risk \in Nat
    BY <1>2 DEF Reserved, OrderType
  <2>2. ~(old.ttl <= 1) => Reserved([old EXCEPT !.ttl = @ - 1]) \in {0, old.risk}
    BY <1>2 DEF Reserved, OrderType
  <2> QED BY <2>1, <2>2
<1>6. pending' = [pending EXCEPT ![Here] = new] /\ UNCHANGED <<cash, open, booked, peak>>
  BY DEF MissedFill
<1>7. open[Here] = NoTrade
  BY <1>1, <1>2 DEF MInv, Exclusive
<1> HIDE DEF new, old
<1> QED BY <1>1, <1>4, <1>5, <1>6, <1>7, MoneyOrder DEF old

LEMMA MoneyPlan == ASSUME IInv, MInv, NEW correlated \in BOOLEAN, Plan(correlated) PROVE MInv'
<1> DEFINE new == [dir |-> Row.pick.dir, price |-> Row.close, stop |-> Row.pick.stop,
                   reward |-> Row.pick.reward, mode |-> Row.pick.mode,
                   risk |-> Risk(correlated), ttl |-> PassiveTtl]
<1>1. Here \in Symbol /\ TypeOK
  BY HereIsSymbol DEF IInv
<1>2. /\ open[Here] = NoTrade /\ pending[Here] = NoOrder /\ ~ExceedsCap(Risk(correlated))
      /\ pending' = [pending EXCEPT ![Here] = new] /\ UNCHANGED <<cash, open, booked, peak>>
  BY DEF Plan, MaySignal
<1>3. new \in OrderType
  BY PlannedOrder
<1>4. Reserved(new) = Risk(correlated)
  <2>1. DOMAIN new # DOMAIN NoOrder
    <3>1. "ttl" \in DOMAIN new /\ ~("ttl" \in DOMAIN NoOrder)
      BY DEF NoOrder
    <3> QED BY <3>1
  <2> QED BY <2>1 DEF Reserved
<1> HIDE DEF new
<1> QED BY <1>1, <1>2, <1>3, <1>4, MoneyOrder

LEMMA MoneyInit == Init => MInv
<1> SUFFICES ASSUME Init PROVE MInv
  OBVIOUS
<1>1. OpenRisk = 0 /\ OpenNet = 0 /\ ReservedRisk = 0
  <2> DEFINE n == Len(Order)
             risk == [i \in DOMAIN Order |-> AtRisk(open[Order[i]])]
             net == [i \in DOMAIN Order |-> Unbooked(open[Order[i]])]
             held == [i \in DOMAIN Order |-> Reserved(pending[Order[i]])]
  <2>1. n \in Nat /\ \A i \in 1..n : risk[i] = 0 /\ net[i] = 0 /\ held[i] = 0
    BY OrderFacts DEF Init, AtRisk, Unbooked, Reserved
  <2>2. OpenRisk = Total(risk, n) /\ OpenNet = Total(net, n) /\ ReservedRisk = Total(held, n)
    BY DEF OpenRisk, OpenNet, ReservedRisk
  <2> HIDE DEF n, risk, net, held
  <2> QED BY <2>1, <2>2, TotalZero
<1>2. /\ cash = InitialEquity /\ peak = InitialEquity /\ booked = [valid |-> 0, invalid |-> 0]
      /\ \A s \in Symbol : pending[s] = NoOrder /\ open[s] = NoTrade
  BY DEF Init
<1>3. MaxTotalRisk * peak \in Nat /\ 0 * peak = 0
  BY <1>2, RiskConstants
<1>4. CashReconciles
  <2>1. booked.valid = 0 /\ booked.invalid = 0
    BY <1>2
  <2> QED BY <1>1, <1>2, <2>1, RiskConstants DEF CashReconciles
<1>5. OpenRiskCapped
  BY <1>1, <1>3 DEF OpenRiskCapped
<1> QED BY <1>2, <1>4, <1>5, RiskConstants DEF MInv, Exclusive, ShortStops, Peaked

LEMMA MoneyStep == IInv /\ MInv /\ [Next]_vars => MInv'
<1> SUFFICES ASSUME IInv, MInv, [Next]_vars PROVE MInv'
  OBVIOUS
<1>1. TypeOK
  BY DEF IInv
<1>2. CASE MissedFill
  BY <1>2, MoneyMissed
<1>3. CASE Fill
  BY <1>3, MoneyFill
<1>4. CASE PartialExit
  BY <1>4, MoneyPartial
<1>5. CASE ManagedExit
  <2>1. /\ Here \in Symbol /\ open[Here] # NoTrade /\ UNCHANGED <<data, pending>>
        /\ \E price \in Int, kind \in {"valid", "invalid"} : Exit(Here, price, kind)
    BY <1>5, ManagedExits
  <2> QED BY <1>1, <2>1, MoneyExit
<1>6. CASE \E correlated \in BOOLEAN : Plan(correlated)
  BY <1>6, MoneyPlan
<1>7. CASE \E s \in Symbol : EndOfTest(s)
  <2>1. PICK s \in Symbol : EndOfTest(s)
    BY <1>7
  <2>2. open[s] # NoTrade /\ close[s] \in Int /\ Exit(s, close[s], "valid") /\ UNCHANGED pending
    BY <1>1, <2>1 DEF EndOfTest, TypeOK
  <2> QED BY <1>1, <2>2, MoneyExit
<1>8. CASE UNCHANGED <<cash, pending, open, booked, peak>>
  BY <1>1, <1>8, MoneySame
<1>9. \/ MissedFill \/ Fill \/ PartialExit \/ ManagedExit
      \/ \E correlated \in BOOLEAN : Plan(correlated)
      \/ \E s \in Symbol : EndOfTest(s)
      \/ UNCHANGED <<cash, pending, open, booked, peak>>
  BY DEF Next, NoBar, Bar, TryFill, NothingPending, Manage, ManagedExit, Flat, Untouched, Hold,
     Signal, NoSignal, Refuse, vars
<1> QED BY <1>2, <1>3, <1>4, <1>5, <1>6, <1>7, <1>8, <1>9

LEMMA MoneyInvariance == Spec => []MInv
BY Invariance, MoneyInit, MoneyStep, PTL DEF Spec

-----------------------------------------------------------------------------
(* Every variable of the replay keeps its type: in particular the order book *)
(* holds orders with a TTL left, trades have a positive quantity and the     *)
(* handlers have the row and the trade they read (BacktestEngine.run).       *)
THEOREM BacktestTypes == Spec => []TypeOK
BY Invariance, PTL DEF IInv

(* A trade sells what it bought: partial exit and final exit of              *)
(* _manage_trade add up to the quantity of _try_fill.                        *)
THEOREM WholeTrades == Spec => []TradesAreWhole
BY Invariance, PTL DEF IInv

(* After its symbol was managed no trade entered before a gap is left: the   *)
(* gap check is the first thing _manage_trade does.                          *)
THEOREM NoOpenTradeSpansAGap == Spec => []OpenTradesSpanNoGap
<1>1. NoGapInside => OpenTradesSpanNoGap
  BY DEF NoGapInside, OpenTradesSpanNoGap
<1> QED BY <1>1, Invariance, PTL DEF IInv

(* No trade that spans a data gap is counted as a normal one, whichever      *)
(* branch ends it.                                                           *)
THEOREM GapsInvalidate == Spec => ValidTradesSpanNoGap
<1> DEFINE A == \A s \in Symbol : open[s] # NoTrade /\ open'[s] = NoTrade
                                  /\ booked'.valid # booked.valid
                                  => open[s].entryAt >= since[s]
<1>1. IInv /\ [Next]_vars => A \/ UNCHANGED vars
  <2> SUFFICES ASSUME IInv, Next, NEW s \in Symbol, open[s] # NoTrade, open'[s] = NoTrade,
                      booked'.valid # booked.valid
               PROVE  open[s].entryAt >= since[s]
    OBVIOUS
  <2>1. TypeOK /\ Here \in Symbol /\ NoGapInside /\ Positions
    BY HereIsSymbol DEF IInv
  <2>2. CASE StopExit \/ TargetExit \/ OpposingExit \/ TimeStop
    <3>1. s = Here
      BY <2>1, <2>2 DEF StopExit, TargetExit, OpposingExit, TimeStop, Exit, TypeOK
    <3>2. ~bar[Here].gap \/ loop.phase = "decide"
      BY <2>2 DEF StopExit, TargetExit, OpposingExit, TimeStop, Running
    <3> QED BY <2>1, <3>1, <3>2 DEF NoGapInside, Unmanaged
  <2>3. CASE GapExit
    BY <2>1, <2>3 DEF GapExit, Exit, TypeOK
  <2>4. CASE \E u \in Symbol : EndOfTest(u)
    <3>1. loop.phase = "bar"
      BY <2>1, <2>4 DEF EndOfTest, Positions
    <3> QED BY <2>1, <3>1 DEF NoGapInside, Unmanaged
  <2>5. CASE UNCHANGED booked
    BY <2>5
  <2>6. \/ StopExit \/ TargetExit \/ OpposingExit \/ TimeStop \/ GapExit
        \/ \E u \in Symbol : EndOfTest(u)
        \/ UNCHANGED booked
    BY DEF Next, NoBar, Bar, TryFill, NothingPending, MissedFill, Fill, Manage, Flat,
       PartialExit, Untouched, Hold, Signal, NoSignal, Plan, Refuse
  <2> QED BY <2>2, <2>3, <2>4, <2>5, <2>6
<1>2. IInv /\ [Next]_vars => [A]_vars
  BY <1>1
<1> QED BY <1>2, Invariance, PTL DEF Spec, ValidTradesSpanNoGap

(* The books balance at every step: what TP1 pays out of an open trade is in *)
(* its net result when _finalize books it (BacktestEngine._close_qty).       *)
THEOREM BooksBalance == Spec => []CashReconciles
BY MoneyInvariance, PTL DEF MInv

(* The portfolio cap survives the fill: whatever the cash is when an order   *)
(* planned under the cap is sized (_plan_pending, _try_fill).                *)
THEOREM RiskIsCapped == Spec => []OpenRiskCapped
BY MoneyInvariance, PTL DEF MInv

(* A bar that reaches the stop ends the trade there (_manage_trade): the     *)
(* taker's fee on a price above zero only lowers what the stop pays.         *)
THEOREM StopsComeFirst == Spec => StopFirst
<1> DEFINE A == \A s \in Symbol :
         Managing /\ s = Here /\ StopHit(open[s], Row)
         => /\ open'[s] = NoTrade
            /\ cash' - cash <= open[s].dir * (open[s].stop - open[s].entry) * open[s].rem
<1>1. IInv /\ MInv /\ [Next]_vars => A \/ UNCHANGED vars
  <2> SUFFICES ASSUME IInv, MInv, Next, Managing, StopHit(open[Here], Row)
               PROVE  /\ open'[Here] = NoTrade
                      /\ cash' - cash <= open[Here].dir * (open[Here].stop - open[Here].entry)
                                        * open[Here].rem
    OBVIOUS
  <2> DEFINE t == open[Here]
             pays == t.dir * (t.stop - t.entry) * t.rem
  <2>1. /\ TypeOK /\ Here \in Symbol /\ loop.now <= Bars /\ loop.phase = "manage"
        /\ t # NoTrade
    BY HereIsSymbol DEF IInv, Managing, Running
  <2>2. t \in TradeType /\ Row \in Rows
    <3>1. bar[Here] \in [row : Rows, gap : BOOLEAN]
      BY <2>1 DEF TypeOK
    <3> QED BY <2>1, <3>1 DEF TypeOK, Row
  <2>3. t.stop > 0
    <3>1. Row.low > 0 /\ Row.low \in Int /\ t.stop \in Int
      <4>1. {Row.open, Row.high, Row.low, Row.close, Row.atr} \subseteq Nat \ {0}
        BY <2>2, BacktestAssumption
      <4> QED BY <2>2, <4>1 DEF TradeType
    <3>2. t.dir = SHORT => t.stop > 0
      BY <2>1 DEF MInv, ShortStops
    <3>3. t.dir = LONG => Row.low <= t.stop
      BY DEF StopHit
    <3> QED BY <2>2, <3>1, <3>2, <3>3 DEF TradeType, Direction
  <2>4. Exit(Here, t.stop, "valid") \/ Exit(Here, t.stop, "invalid")
    <3>1. ~(loop.now > Bars)
      BY <2>1, ConstantTypes DEF TypeOK, LoopType
    <3>2. GapExit \/ StopExit
      BY <2>1, <3>1 DEF Next, NoBar, Bar, TryFill, NothingPending, MissedFill, Fill, Manage, Flat,
         TargetExit, PartialExit, Untouched, OpposingExit, TimeStop, Hold, Signal, NoSignal,
         Plan, Refuse, EndOfTest, Running
    <3> QED BY <3>2 DEF GapExit, StopExit
  <2>5. open' = [open EXCEPT ![Here] = NoTrade] /\ cash' = cash + Realised(t, t.stop, t.rem)
    BY <2>4 DEF Exit, Pay
  <2>6. Fee(t.stop, t.rem, TakerFee) \in Nat
    <3>1. t.stop \in Nat /\ t.rem \in Nat /\ TakerFee \in Nat
      BY <2>2, <2>3, ConstantTypes DEF TradeType
    <3>2. t.stop * t.rem * TakerFee \in Nat
      BY <3>1
    <3> QED BY <3>2, Quotient DEF Fee
  <2>7. pays \in Int /\ cash \in Int
    BY <2>1, <2>2 DEF TypeOK, TradeType, Direction, LONG, SHORT
  <2>8. Realised(t, t.stop, t.rem) = pays - Fee(t.stop, t.rem, TakerFee)
    BY DEF Realised
  <2> HIDE DEF pays
  <2>9. cash' - cash <= pays
    BY <2>5, <2>6, <2>7, <2>8
  <2> QED BY <2>1, <2>5, <2>9 DEF pays, TypeOK
<1>2. IInv /\ MInv /\ [Next]_vars => [A]_vars
  BY <1>1
<1> QED BY <1>2, Invariance, MoneyInvariance, PTL DEF Spec, StopFirst
=============================================================================
