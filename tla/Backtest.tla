------------------------------ MODULE Backtest ------------------------------
(***************************************************************************)
(* BacktestEngine (src/src/scalp/backtest.py): the replay loop of the      *)
(* backtest and of the walk-forward trainer.  For every timestamp it first *)
(* fills and manages each symbol in turn and then turns the decisions of   *)
(* the closed bars into orders of the next one.  The program is            *)
(* sequential: `loop` is its program counter, and one action is one branch *)
(* of one handler.  What the loop cannot choose is its data: which symbols *)
(* have a bar at a timestamp, what the bar is, and what the strategies     *)
(* pick on it.                                                             *)
(*                                                                         *)
(* Prices, cash and quantities are integers (ticks, cents, lots), a        *)
(* division rounds down, risk and fees are in basis points, and the two    *)
(* slippages are ticks.  Labels (strategy names, transitions, reasons,     *)
(* reports) are left out: no branch depends on them.  A pick belongs to    *)
(* its bar: _manage_trade and the signal loop evaluate the same row and    *)
(* the decision engine is a function of the row.                           *)
(***************************************************************************)
EXTENDS Integers, Sequences, FiniteSets, Totals

CONSTANTS
    Order,             \* the symbols, in the order of the frames
    Rows,              \* the bars a frame may contain, with the pick on each
    Bars,              \* bound: timestamps replayed
    MaxHoles,          \* bound: timestamps without a bar, and bars flagged data_quality_gap
    InitialEquity,
    NormalRisk, CModeRisk, MaxTotalRisk, CorrelatedPct, NotionalPct,  \* config.risk
    MarketSlip, AggressiveSlip, PassiveOffset, PassiveTtl,     \* config.execution
    MakerFee, TakerFee, MaxHold,
    TP1R, TP1Pct, Breakeven                                    \* config.backtest

Symbol == {Order[i] : i \in DOMAIN Order}
LONG == 1
SHORT == -1
Direction == {LONG, SHORT}
Mode == {"market", "aggressive", "passive"}
NoStop == 0
Pick == [dir : Direction, margin : Nat, stop : Nat, reward : Nat, mode : Mode, cmode : BOOLEAN]
NoPick == [dir |-> LONG, margin |-> -1, stop |-> NoStop, reward |-> 0, mode |-> "market",
           cmode |-> FALSE]

(* The frames have one key per symbol, bars have positive prices in order   *)
(* (of which a slippage is a small part), and AppConfig's validators bound  *)
(* the configuration.                                                       *)
ASSUME BacktestAssumption ==
    /\ Order \in Seq(Symbol) /\ Len(Order) \in Nat \ {0}
    /\ \A i, j \in DOMAIN Order : Order[i] = Order[j] => i = j
    /\ \A r \in Rows :
         /\ {r.open, r.high, r.low, r.close, r.atr} \subseteq Nat \ {0}
         /\ r.low <= r.open /\ r.open <= r.high /\ r.low <= r.close /\ r.close <= r.high
         /\ \A slip \in {MarketSlip, AggressiveSlip, PassiveOffset} : slip < r.low
         /\ r.pick \in Pick \cup {NoPick}
    /\ {Bars, InitialEquity, NormalRisk, CModeRisk, CorrelatedPct, NotionalPct, PassiveTtl, MaxHold, TP1R}
         \subseteq Nat \ {0}
    /\ {MaxHoles, MarketSlip, AggressiveSlip, PassiveOffset, MakerFee, TakerFee} \subseteq Nat
    /\ MaxTotalRisk \in Nat /\ NormalRisk <= MaxTotalRisk
    /\ CorrelatedPct <= 100 /\ TP1Pct \in 1..99 /\ Breakeven \in BOOLEAN

VARIABLES
    loop,      \* [now, at, phase]: timestamp, symbol and handler being run
    bar,       \* bar[s]: the row of s at this timestamp, with data_gap_before
    idx,       \* idx[s]: position of the last row of s in its frame
    seen,      \* seen[s]: timestamp of that row
    close,     \* close[s]: its close, what iloc[-1] returns at the end
    cash,
    pending,   \* pending[s]: the order waiting for the next bar
    open,      \* open[s]: the trade of s
    booked,    \* net result of the finalized trades, valid and invalid
    holes,     \* holes in the data so far
    since,     \* history: since[s] is the idx of the last row after a gap
    peak       \* history: the highest cash so far

vars == <<loop, bar, idx, seen, close, cash, pending, open, booked, holes, since, peak>>
data == <<bar, idx, seen, close, holes, since>>

NoRow == [gap |-> FALSE]
NoOrder == [risk |-> 0]
NoTrade == [qty |-> 0]
NotYet == -1

Here == Order[loop.at]
Running(phase) == loop.now <= Bars /\ loop.phase = phase
Row == bar[Here].row

-----------------------------------------------------------------------------
(* The arithmetic of the engine. *)

Distance(a, b) == IF a < b THEN b - a ELSE a - b
Larger(a, b) == IF a < b THEN b ELSE a
Smaller(a, b) == IF a < b THEN a ELSE b
Fee(price, q, bps) == (price * q * bps) \div 10000

(* What the strategies' stop would cost: _open_risk_pct's numerator for one *)
(* trade.                                                                   *)
AtRisk(t) == IF t = NoTrade THEN 0 ELSE t.rem * Distance(t.entry, t.stop)
Reserved(p) == IF p = NoOrder THEN 0 ELSE p.risk
OpenRisk == Total([i \in DOMAIN Order |-> AtRisk(open[Order[i]])], Len(Order))
ReservedRisk == Total([i \in DOMAIN Order |-> Reserved(pending[Order[i]])], Len(Order))

(* Mutant of ExceedsCap: the pending orders reserve nothing. *)
ExceedsOpenOnly(risk) == 10000 * OpenRisk + risk * cash > MaxTotalRisk * cash

(* _open_risk_pct() + risk > max_total_open_risk_pct, cross-multiplied:      *)
(* the divisor is max(cash, 1e-9), so without cash any open risk exceeds.   *)
ExceedsCap(risk) ==
    IF cash > 0 THEN 10000 * OpenRisk + (ReservedRisk + risk) * cash > MaxTotalRisk * cash
                ELSE OpenRisk > 0 \/ ReservedRisk + risk > MaxTotalRisk

(* _close_qty: the result of selling q at price, as a taker. *)
Realised(t, price, q) == t.dir * (price - t.entry) * q - Fee(price, q, TakerFee)
CloseQty(t, price, q) == [t EXCEPT !.rem = Larger(0, @ - q), !.closed = @ + q,
                                   !.net = @ + Realised(t, price, q)]
Pay(amount) == cash' = cash + amount /\ peak' = Larger(peak, cash + amount)

StopHit(t, r) == IF t.dir = LONG THEN r.low <= t.stop ELSE r.high >= t.stop
Reaches(t, r, price) == IF t.dir = LONG THEN r.high >= price ELSE r.low <= price
TP1(t) == t.entry + t.dir * TP1R * Distance(t.entry, t.stop0)

(* Mutant of Exit: the result is booked before the last close is added. *)
ExitBooksFirst(s, price, kind) ==
    /\ Pay(Realised(open[s], price, open[s].rem))
    /\ open' = [open EXCEPT ![s] = NoTrade]
    /\ booked' = [booked EXCEPT ![kind] = @ + open[s].net]

(* _close_qty of all that remains and _finalize. *)
Exit(s, price, kind) ==
    LET t == CloseQty(open[s], price, open[s].rem) IN
    /\ Pay(Realised(open[s], price, open[s].rem))
    /\ open' = [open EXCEPT ![s] = NoTrade]
    /\ booked' = [booked EXCEPT ![kind] = @ + t.net]

-----------------------------------------------------------------------------
Init ==
    /\ loop = [now |-> 1, at |-> 1, phase |-> "bar"]
    /\ bar = [s \in Symbol |-> NoRow]
    /\ idx \in [Symbol -> {-1, 1}]   \* the frame starts here, or two bars ago
    /\ seen = [s \in Symbol |-> IF idx[s] = -1 THEN NotYet ELSE 0]
    /\ close = [s \in Symbol |-> 0]
    /\ cash = InitialEquity /\ peak = InitialEquity
    /\ pending = [s \in Symbol |-> NoOrder]
    /\ open = [s \in Symbol |-> NoTrade]
    /\ booked = [valid |-> 0, invalid |-> 0]
    /\ holes = 0
    /\ since = [s \in Symbol |-> 0]

(* Where the loops go after symbol number loop.at: to the next symbol of    *)
(* the same loop, from the first loop to the second, or to the next         *)
(* timestamp.                                                               *)
AfterManage ==
    IF loop.at < Len(Order) THEN [loop EXCEPT !.at = @ + 1, !.phase = "bar"]
                            ELSE [loop EXCEPT !.at = 1, !.phase = "signal"]
AfterSignal ==
    IF loop.at < Len(Order) THEN [loop EXCEPT !.at = @ + 1]
                            ELSE [now |-> loop.now + 1, at |-> 1, phase |-> "bar"]

(* The frame of the symbol has no row at this timestamp. *)
NoBar ==
    /\ Running("bar") /\ holes < MaxHoles
    /\ holes' = holes + 1
    /\ bar' = [bar EXCEPT ![Here] = NoRow]
    /\ loop' = AfterManage
    /\ UNCHANGED <<idx, seen, close, cash, pending, open, booked, since, peak>>

(* The frame has one.  prepare() flags it when rows are missing before it,  *)
(* or when the loader flagged it.                                           *)
Bar(r, flagged) ==
    LET gap == flagged \/ (seen[Here] # NotYet /\ seen[Here] < loop.now - 1) IN
    /\ Running("bar")
    /\ flagged => holes < MaxHoles
    /\ holes' = IF flagged THEN holes + 1 ELSE holes
    /\ bar' = [bar EXCEPT ![Here] = [row |-> r, gap |-> gap]]
    /\ idx' = [idx EXCEPT ![Here] = @ + 1]
    /\ seen' = [seen EXCEPT ![Here] = loop.now]
    /\ close' = [close EXCEPT ![Here] = r.close]
    /\ since' = [since EXCEPT ![Here] = IF gap THEN idx[Here] + 1 ELSE @]
    /\ loop' = [loop EXCEPT !.phase = "fill"]
    /\ UNCHANGED <<cash, pending, open, booked, peak>>

-----------------------------------------------------------------------------
(* _try_fill *)

Limit(p) == p.price - p.dir * PassiveOffset
Touched(p, r) ==
    \/ p.mode # "passive"
    \/ IF p.dir = LONG THEN r.low <= Limit(p) ELSE r.high >= Limit(p)
FillPrice(p, r) ==
    CASE p.mode = "market"     -> r.open + p.dir * MarketSlip
      [] p.mode = "aggressive" -> r.open + p.dir * AggressiveSlip
      [] p.mode = "passive"    -> Limit(p)
EntryFee(p) == IF p.mode = "passive" THEN MakerFee ELSE TakerFee

(* The strategy's stop (or the signal price), moved to the right side of    *)
(* the fill when the fill has passed it.                                    *)
StopOf(p, r, fill) ==
    LET stop == IF p.stop = NoStop THEN p.price ELSE p.stop
        far  == Larger(r.atr, (fill * 15) \div 10000) IN
    IF p.dir * (fill - stop) <= 0 THEN fill - p.dir * far ELSE stop

Quantity(p, fill, dist) ==
    Smaller((cash * p.risk) \div (10000 * dist), (cash * NotionalPct) \div (100 * fill))

Opened(p, r) ==
    LET fill == FillPrice(p, r)
        stop == StopOf(p, r, fill)
        dist == Distance(fill, stop)
        q    == Quantity(p, fill, dist) IN
    [dir |-> p.dir, entry |-> fill, stop0 |-> stop, stop |-> stop,
     target |-> fill + p.dir * Larger(p.reward, 1) * dist, qty |-> q, rem |-> q,
     closed |-> 0, tp1 |-> FALSE, entryAt |-> idx[Here], net |-> -Fee(fill, q, EntryFee(p))]

NothingPending ==
    /\ Running("fill") /\ pending[Here] = NoOrder
    /\ loop' = [loop EXCEPT !.phase = "manage"]
    /\ UNCHANGED <<data, cash, pending, open, booked, peak>>

(* Mutant of MissedFill: one bar too late. *)
MissedFillLater ==
    LET p == pending[Here] IN
    /\ Running("fill") /\ p # NoOrder /\ ~Touched(p, Row)
    /\ pending' = [pending EXCEPT ![Here] =
                     IF p.ttl <= 0 THEN NoOrder ELSE [p EXCEPT !.ttl = @ - 1]]
    /\ loop' = [loop EXCEPT !.phase = "manage"]
    /\ UNCHANGED <<data, cash, open, booked, peak>>

(* The limit was not touched: the order ages and is dropped at its TTL. *)
MissedFill ==
    LET p == pending[Here] IN
    /\ Running("fill") /\ p # NoOrder /\ ~Touched(p, Row)
    /\ pending' = [pending EXCEPT ![Here] =
                     IF p.ttl <= 1 THEN NoOrder ELSE [p EXCEPT !.ttl = @ - 1]]
    /\ loop' = [loop EXCEPT !.phase = "manage"]
    /\ UNCHANGED <<data, cash, open, booked, peak>>

(* The fill; an order of no quantity is dropped. *)
Fill ==
    LET p == pending[Here]
        t == Opened(p, Row) IN
    /\ Running("fill") /\ p # NoOrder /\ Touched(p, Row)
    /\ pending' = [pending EXCEPT ![Here] = NoOrder]
    /\ IF t.qty > 0 THEN Pay(t.net) /\ open' = [open EXCEPT ![Here] = t]
                    ELSE UNCHANGED <<cash, peak, open>>
    /\ loop' = [loop EXCEPT !.phase = "manage"]
    /\ UNCHANGED <<data, booked>>

-----------------------------------------------------------------------------
(* _manage_trade *)

Managing == Running("manage") /\ open[Here] # NoTrade
Done == loop' = AfterManage
Trading == UNCHANGED <<data, pending>>

Flat ==
    /\ Running("manage") /\ open[Here] = NoTrade
    /\ Done
    /\ UNCHANGED <<data, cash, pending, open, booked, peak>>

(* A bar after a gap: closed at the protective stop and marked invalid. *)
GapExit ==
    /\ Managing /\ bar[Here].gap
    /\ Exit(Here, open[Here].stop, "invalid")
    /\ Done /\ Trading

(* Mutant of StopExit: it does not wait for the gap check. *)
StopExitOnGap ==
    /\ Managing /\ StopHit(open[Here], Row)
    /\ Exit(Here, open[Here].stop, "valid")
    /\ Done /\ Trading

(* The stop comes first, whatever else the bar reaches (the configuration's *)
(* stop_first_on_ambiguous_bar only changes the reason of the trade).       *)
StopExit ==
    /\ Managing /\ ~bar[Here].gap /\ StopHit(open[Here], Row)
    /\ Exit(Here, open[Here].stop, "valid")
    /\ Done /\ Trading

(* Mutant of TargetExit: the target is looked at first. *)
TargetFirst ==
    LET t == open[Here] IN
    /\ Managing /\ ~bar[Here].gap /\ Reaches(t, Row, t.target)
    /\ Exit(Here, t.target, "valid")
    /\ Done /\ Trading

TargetExit ==
    LET t == open[Here] IN
    /\ Managing /\ ~bar[Here].gap /\ ~StopHit(t, Row) /\ Reaches(t, Row, t.target)
    /\ Exit(Here, t.target, "valid")
    /\ Done /\ Trading

(* Mutant of PartialExit: the trade forgets that it took TP1. *)
PartialExitForgets ==
    LET t == open[Here]
        q == (t.qty * TP1Pct) \div 100 IN
    /\ Managing /\ ~bar[Here].gap /\ ~StopHit(t, Row) /\ ~Reaches(t, Row, t.target)
    /\ Reaches(t, Row, TP1(t)) /\ ~t.tp1
    /\ Pay(Realised(t, TP1(t), q))
    /\ open' = [open EXCEPT ![Here] = [CloseQty(t, TP1(t), q) EXCEPT
                  !.stop = IF Breakeven THEN t.entry ELSE @]]
    /\ loop' = [loop EXCEPT !.phase = "decide"]
    /\ UNCHANGED <<data, pending, booked>>

(* TP1: part of the position is closed and the stop moves to the entry. *)
PartialExit ==
    LET t == open[Here]
        q == (t.qty * TP1Pct) \div 100 IN
    /\ Managing /\ ~bar[Here].gap /\ ~StopHit(t, Row) /\ ~Reaches(t, Row, t.target)
    /\ Reaches(t, Row, TP1(t)) /\ ~t.tp1
    /\ Pay(Realised(t, TP1(t), q))
    /\ open' = [open EXCEPT ![Here] = [CloseQty(t, TP1(t), q) EXCEPT
                  !.tp1 = TRUE, !.stop = IF Breakeven THEN t.entry ELSE @]]
    /\ loop' = [loop EXCEPT !.phase = "decide"]
    /\ UNCHANGED <<data, pending, booked>>

Untouched ==
    LET t == open[Here] IN
    /\ Managing /\ ~bar[Here].gap /\ ~StopHit(t, Row) /\ ~Reaches(t, Row, t.target)
    /\ t.tp1 \/ ~Reaches(t, Row, TP1(t))
    /\ loop' = [loop EXCEPT !.phase = "decide"]
    /\ UNCHANGED <<data, cash, pending, open, booked, peak>>

(* The bar has closed: a strong pick against the trade ends it, ... *)
OpposingMargin == 8
Opposed == Row.pick.dir # open[Here].dir /\ Row.pick.margin >= OpposingMargin
Expired == idx[Here] - open[Here].entryAt >= MaxHold

OpposingExit ==
    /\ Running("decide") /\ Opposed
    /\ Exit(Here, Row.close - open[Here].dir * AggressiveSlip, "valid")
    /\ Done /\ Trading

(* ... and so does its age. *)
TimeStop ==
    /\ Running("decide") /\ ~Opposed /\ Expired
    /\ Exit(Here, Row.close, "valid")
    /\ Done /\ Trading

Hold ==
    /\ Running("decide") /\ ~Opposed /\ ~Expired
    /\ Done
    /\ UNCHANGED <<data, cash, pending, open, booked, peak>>

-----------------------------------------------------------------------------
(* The second loop of run(): signals after the close. *)

MaySignal ==
    /\ bar[Here] # NoRow /\ idx[Here] >= 2
    /\ open[Here] = NoTrade /\ pending[Here] = NoOrder
    /\ Row.pick # NoPick

(* _corr_multiplier: with an open trade in the same direction the           *)
(* correlation of the closes decides, which the model leaves open.          *)
MayCorrelate(dir) == \E s \in Symbol \ {Here} : open[s] # NoTrade /\ open[s].dir = dir
BaseRisk == IF Row.pick.cmode THEN Smaller(NormalRisk, CModeRisk) ELSE NormalRisk
Risk(correlated) == IF correlated THEN (BaseRisk * CorrelatedPct) \div 100 ELSE BaseRisk

(* _plan_pending: the order is planned when the portfolio can carry it, *)
Plan(correlated) ==
    /\ Running("signal") /\ MaySignal
    /\ correlated => MayCorrelate(Row.pick.dir)
    /\ ~ExceedsCap(Risk(correlated))
    /\ pending' = [pending EXCEPT ![Here] =
                     [dir |-> Row.pick.dir, price |-> Row.close, stop |-> Row.pick.stop,
                      reward |-> Row.pick.reward, mode |-> Row.pick.mode,
                      risk |-> Risk(correlated), ttl |-> PassiveTtl]]
    /\ loop' = AfterSignal
    /\ UNCHANGED <<data, cash, open, booked, peak>>

(* and otherwise counted as NO_TRADE_PORTFOLIO_RISK. *)
Refuse(correlated) ==
    /\ Running("signal") /\ MaySignal
    /\ correlated => MayCorrelate(Row.pick.dir)
    /\ ExceedsCap(Risk(correlated))
    /\ loop' = AfterSignal
    /\ UNCHANGED <<data, cash, pending, open, booked, peak>>

NoSignal ==
    /\ Running("signal") /\ ~MaySignal
    /\ loop' = AfterSignal
    /\ UNCHANGED <<data, cash, pending, open, booked, peak>>

(* After the last timestamp: END_OF_TEST at the last close of the frame. *)
EndOfTest(s) ==
    /\ loop.now > Bars /\ open[s] # NoTrade
    /\ Exit(s, close[s], "valid")
    /\ UNCHANGED <<data, loop, pending>>

Manage == \/ Flat \/ GapExit \/ StopExit \/ TargetExit \/ PartialExit \/ Untouched
          \/ OpposingExit \/ TimeStop \/ Hold
TryFill == NothingPending \/ MissedFill \/ Fill
Signal == NoSignal \/ \E correlated \in BOOLEAN : Plan(correlated) \/ Refuse(correlated)

Next ==
    \/ NoBar
    \/ \E r \in Rows, flagged \in BOOLEAN : Bar(r, flagged)
    \/ TryFill \/ Manage \/ Signal
    \/ \E s \in Symbol : EndOfTest(s)

Spec == Init /\ [][Next]_vars

-----------------------------------------------------------------------------
(* Properties. *)

LoopType == [now : 1..Bars + 1, at : DOMAIN Order,
             phase : {"bar", "fill", "manage", "decide", "signal"}]
OrderType == [dir : Direction, price : {r.close : r \in Rows}, stop : Nat, reward : Nat, mode : Mode,
              risk : Nat, ttl : 1..PassiveTtl]
TradeType == [dir : Direction, entry : Nat \ {0}, stop0 : Int, stop : Int, target : Int,
              qty : Nat \ {0}, rem : Nat, closed : Nat, tp1 : BOOLEAN, entryAt : Nat,
              net : Int]

(* Every variable keeps its type; the handlers after "bar" have a row and   *)
(* "decide" has a trade.                                                    *)
TypeOK ==
    /\ loop \in LoopType
    /\ bar \in [Symbol -> [row : Rows, gap : BOOLEAN] \cup {NoRow}]
    /\ idx \in [Symbol -> Int] /\ since \in [Symbol -> Nat]
    /\ seen \in [Symbol -> 0..Bars \cup {NotYet}] /\ close \in [Symbol -> Nat]
    /\ cash \in Int /\ peak \in Int /\ holes \in 0..MaxHoles
    /\ pending \in [Symbol -> OrderType \cup {NoOrder}]
    /\ open \in [Symbol -> TradeType \cup {NoTrade}]
    /\ booked \in [valid : Int, invalid : Int]
    /\ loop.phase \in {"fill", "manage", "decide"} => bar[Here] # NoRow
    /\ loop.phase = "decide" => open[Here] # NoTrade

(* What the open trades have paid and taken so far.                         *)
Unbooked(t) == IF t = NoTrade THEN 0 ELSE t.net
OpenNet == Total([i \in DOMAIN Order |-> Unbooked(open[Order[i]])], Len(Order))

(* The books balance: cash is the initial equity plus the net result of     *)
(* every finalized trade, of the invalid ones too, plus what the open       *)
(* trades have paid and taken so far (report(): accounting_net is           *)
(* valid_net + invalid_gap_pnl).                                            *)
CashReconciles == cash = InitialEquity + booked.valid + booked.invalid + OpenNet

(* Over its partial and its final exit a trade sells what it bought, no     *)
(* more: _close_qty clamps remaining_quantity at zero and would hide it.    *)
TradesAreWhole ==
    \A s \in Symbol : open[s] # NoTrade =>
        /\ open[s].rem + open[s].closed = open[s].qty
        /\ open[s].rem > 0

(* What the stops of the open trades would cost, together with what the     *)
(* pending orders may add, never exceeds the total risk cap of the highest  *)
(* cash the account had, although orders are sized when they are filled     *)
(* and not when they are planned.                                           *)
OpenRiskCapped == 10000 * OpenRisk + ReservedRisk * peak <= MaxTotalRisk * peak

(* "A trade crossing an unresolved data gap cannot be counted as a normal   *)
(* winner" (SCALP_TODO_AFTER_M2.md:968): a trade whose result is booked as  *)
(* valid was entered at or after the last gap of its symbol.                *)
ValidTradesSpanNoGap ==
    [][\A s \in Symbol : open[s] # NoTrade /\ open'[s] = NoTrade
                         /\ booked'.valid # booked.valid
                         => open[s].entryAt >= since[s]]_vars

(* The invariant behind it: once its symbol has been managed at a timestamp *)
(* no trade is left that was entered before a gap.                          *)
Unmanaged(s) == s = Here /\ loop.phase \in {"fill", "manage"}
OpenTradesSpanNoGap ==
    \A s \in Symbol : open[s] # NoTrade /\ ~Unmanaged(s) => open[s].entryAt >= since[s]

(* Stop-first (docs.md:22): on a bar that reaches the stop of the trade the *)
(* trade ends, and no step of managing it books more than the stop pays,    *)
(* whatever else the bar reaches.                                           *)
StopFirst ==
    [][\A s \in Symbol :
         Managing /\ s = Here /\ StopHit(open[s], Row)
         => /\ open'[s] = NoTrade
            /\ cash' - cash <= open[s].dir * (open[s].stop - open[s].entry) * open[s].rem]_vars
=============================================================================
