---------------------------- MODULE ShadowTrader ----------------------------
(***************************************************************************)
(* The shadow paper trader (live/shadow.py): candles of a websocket that     *)
(* may end or fail, one order or position per symbol, an equity, and the     *)
(* decisions table; and the web application's buttons that start and stop it. *)
(*                                                                          *)
(* Numbers are as in Backtest: integers, divisions round down, fees and risk *)
(* are in basis points, slippages in ticks.  What the engine picks belongs   *)
(* to the bar.                                                              *)
(***************************************************************************)
EXTENDS Integers, Sequences, FiniteSets, FiniteSetsExt, Totals

CONSTANTS
    Symbols,
    Rows,      \* candles, each with what the engine picks on it
    InitialEquity, Risk, NotionalPct,
    MarketSlip, AggressiveSlip, PassiveOffset, PassiveTtl, MakerFee, TakerFee, MaxHold,
    MaxBars,   \* bound: candles seen by a trader, of all symbols
    MaxBreaks, \* bound: ends and failures of the stream
    MaxTraders \* bound: presses of the start button

LONG == 1
SHORT == -1
Mode == {"market", "aggressive", "passive"}
NoPick == [dir |-> LONG, stop |-> 0, reward |-> 0, mode |-> "market"]
NoOrder == [id |-> 0]

\* Prices are positive, and a slippage is a small part of them.
ASSUME ShadowAssumption ==
    /\ \A r \in Rows :
         /\ {r.open, r.high, r.low, r.close} \subseteq Nat
         /\ r.low <= r.open /\ r.open <= r.high /\ r.low <= r.close /\ r.close <= r.high
         /\ \A slip \in {MarketSlip, AggressiveSlip, PassiveOffset} : slip < r.low
         /\ r.pick \in [dir : {LONG, SHORT}, stop : Int, reward : Int, mode : Mode]
    /\ {InitialEquity, PassiveTtl, MaxHold} \subseteq Nat \ {0}
    /\ {Risk, NotionalPct, MarketSlip, AggressiveSlip, PassiveOffset, MakerFee, TakerFee} \subseteq Nat

VARIABLES
    task,  \* the trader's task: where start is, and whether it was told to stop
    book,  \* pending, open, equity, the rows of the decisions table, and of the
           \* equity what no row reports: closes whose row could not be written
    bars,  \* candles this trader has processed of each symbol
    breaks \* ends and failures of the stream

vars == <<task, book, bars, breaks>>

Distance(a, b) == IF a < b THEN b - a ELSE a - b
Smaller(a, b) == IF a < b THEN a ELSE b
Fee(price, qty, bps) == (price * qty * bps) \div 10000

NewBook(rows) == [pending |-> [s \in Symbols |-> NoOrder], open |-> [s \in Symbols |-> NoOrder],
                  equity |-> InitialEquity, unreported |-> 0, rows |-> rows]

Init == /\ task = [at |-> "none", trader |-> 0, stopped |-> FALSE]
        /\ book = NewBook(<<>>)
        /\ bars = [s \in Symbols |-> 0]
        /\ breaks = [total |-> 0, failures |-> 0]

\* store.add: INSERT OR REPLACE.
Stored(b, id, status, pnl) == [b EXCEPT !.rows[id].status = status, !.rows[id].pnl = pnl]

-----------------------------------------------------------------------------
(* _process_bar *)

Limit(p) == p.price - p.dir * PassiveOffset
Touched(p, r) == p.mode = "passive" =>
                     IF p.dir = LONG THEN r.low <= Limit(p) ELSE r.high >= Limit(p)
FillPrice(p, r) == CASE p.mode = "market" -> r.open + p.dir * MarketSlip
                     [] p.mode = "aggressive" -> r.open + p.dir * AggressiveSlip
                     [] p.mode = "passive" -> Limit(p)

Missed(b, s) ==
    LET p == b.pending[s] IN
    IF p.ttl > 1 THEN [b EXCEPT !.pending[s].ttl = @ - 1]
    ELSE [Stored(b, p.id, "MISSED_FILL", 0) EXCEPT !.pending[s] = NoOrder]

\* Without a distance to its stop the order is dropped, and its row stays as it is.
Opened(b, s, r) ==
    LET p == b.pending[s]
        fill == FillPrice(p, r)
        dist == Distance(fill, p.stop)
        qty == Smaller((b.equity * Risk) \div (10000 * dist), (b.equity * NotionalPct) \div (100 * fill))
        bps == IF p.mode = "passive" THEN MakerFee ELSE TakerFee
    IN IF dist = 0 THEN [b EXCEPT !.pending[s] = NoOrder]
       ELSE [Stored(b, p.id, "OPEN", 0) EXCEPT
               !.pending[s] = NoOrder,
               !.rows[p.id].opened = bars[s] + 1,
               !.open[s] = [id |-> p.id, dir |-> p.dir, stop |-> p.stop, target |-> p.target,
                            entry |-> fill, qty |-> qty, fees |-> Fee(fill, qty, bps), held |-> 0]]

Filled(b, s, r) == IF b.pending[s] = NoOrder \/ b.open[s] # NoOrder THEN b
                   ELSE IF Touched(b.pending[s], r) THEN Opened(b, s, r) ELSE Missed(b, s)

\* Slip: the entry fee is left out of the equity.
NetOfExit(t, px) == (px - t.entry) * t.dir * t.qty - Fee(px, t.qty, TakerFee)

Net(t, px) == (px - t.entry) * t.dir * t.qty - t.fees - Fee(px, t.qty, TakerFee)

\* Slip: the equity is credited without the fee the row is charged.
CloseUncharged(b, s, px) ==
    LET t == b.open[s] IN
    [Stored(b, t.id, "CLOSED", Net(t, px)) EXCEPT !.equity = @ + NetOfExit(t, px),
                                                   !.open[s] = NoOrder]

Close(b, s, px) ==
    LET t == b.open[s] IN
    [Stored(b, t.id, "CLOSED", Net(t, px)) EXCEPT !.equity = @ + Net(t, px), !.open[s] = NoOrder]

\* A close before store.add: the equity and the fees are booked, the position is held.
Credited(b, s, px) ==
    LET t == b.open[s] IN
    [b EXCEPT !.equity = @ + Net(t, px), !.unreported = @ + Net(t, px),
              !.open[s].fees = @ + Fee(px, t.qty, TakerFee)]

StopHit(t, r) == IF t.dir = LONG THEN r.low <= t.stop ELSE r.high >= t.stop
TargetHit(t, r) == IF t.dir = LONG THEN r.high >= t.target ELSE r.low <= t.target

Exits(t, r) == t # NoOrder /\ (StopHit(t, r) \/ TargetHit(t, r) \/ t.held + 1 >= MaxHold)
ExitPrice(t, r) == IF StopHit(t, r) THEN t.stop ELSE IF TargetHit(t, r) THEN t.target ELSE r.close

Managed(b, s, r) ==
    LET t == b.open[s] IN
    IF Exits(t, r) THEN Close(b, s, ExitPrice(t, r))
    ELSE IF t = NoOrder THEN b ELSE [b EXCEPT !.open[s].held = @ + 1]

Signalled(b, s, r) ==
    LET w == r.pick
        id == Len(b.rows) + 1
    IN IF w = NoPick \/ b.open[s] # NoOrder \/ b.pending[s] # NoOrder THEN b
       ELSE [b EXCEPT
               !.rows = Append(@, [symbol |-> s, trader |-> task.trader, status |-> "PENDING",
                                   pnl |-> 0, signalled |-> bars[s] + 1, opened |-> 0,
                                   failures |-> breaks.failures]),
               !.pending[s] = [id |-> id, dir |-> w.dir, stop |-> w.stop, mode |-> w.mode,
                               target |-> r.close + w.dir * (IF w.reward < 1 THEN 1 ELSE w.reward)
                                                          * Distance(r.close, w.stop),
                               price |-> r.close, ttl |-> PassiveTtl]]

\* Slip: the signal is taken before the fill.
ProcessSignalFirst(b, s, r) == Managed(Filled(Signalled(b, s, r), s, r), s, r)

Process(b, s, r) == Signalled(Managed(Filled(b, s, r), s, r), s, r)

-----------------------------------------------------------------------------
(* start, one pass of its loop after another *)

\* The start button: a new trader unless one runs; seed may fail.
Start == /\ task.at \in {"none", "done"} /\ task.trader < MaxTraders
         /\ \E at \in {"loop", "done"} :
               task' = [at |-> at, trader |-> task.trader + 1, stopped |-> FALSE]
         /\ book' = NewBook(book.rows)
         /\ bars' = [s \in Symbols |-> 0]
         /\ UNCHANGED breaks

Stop == /\ task.at \in {"loop", "stream"} /\ ~task.stopped
        /\ task' = [task EXCEPT !.stopped = TRUE]
        /\ UNCHANGED <<book, bars, breaks>>

\* stop is looked at here only.
Loop == /\ task.at = "loop"
        /\ task' = [task EXCEPT !.at = IF task.stopped THEN "done" ELSE "stream"]
        /\ UNCHANGED <<book, bars, breaks>>

Bar(s, r) == /\ task.at = "stream" /\ MapThenSumSet(LAMBDA q : bars[q], Symbols) < MaxBars
             /\ book' = Process(book, s, r)
             /\ bars' = [bars EXCEPT ![s] = @ + 1]
             /\ UNCHANGED <<task, breaks>>

\* The socket closes as it should: the next pass, with what is held.
StreamEnds == /\ task.at = "stream" /\ breaks.total < MaxBreaks
              /\ task' = [task EXCEPT !.at = "loop"]
              /\ breaks' = [breaks EXCEPT !.total = @ + 1]
              /\ UNCHANGED <<book, bars>>

Nothing == [s \in Symbols |-> NoOrder]
Positions(b) == {b.open[s].id : s \in Symbols} \ {0}
Orders(b) == {b.pending[s].id : s \in Symbols} \ {0}

InvalidatedRow(b, id) ==
    LET row == b.rows[id]
        t == b.open[row.symbol]
    IN IF t.id = id THEN [row EXCEPT !.status = "INVALID_DATA_GAP", !.pnl = Net(t, t.stop)]
       ELSE [row EXCEPT !.status = "CANCELLED_DATA_GAP", !.pnl = 0]

\* The table, with the rows _invalidate_all wrote of what the trader held.
Rewritten(b, table, written) ==
    [id \in DOMAIN table \cup written |-> IF id \in written THEN InvalidatedRow(b, id) ELSE table[id]]

\* Slip: the orders wait on.
InvalidateOpen(b, table, written) ==
    [b EXCEPT !.rows = Rewritten(b, b.rows, written \cap Positions(b)), !.open = Nothing]

\* Slip: the rows are written and the orders kept.
InvalidateRowsOnly(b, table, written) ==
    [b EXCEPT !.rows = Rewritten(b, table, written), !.open = Nothing]

\* _invalidate_all: every position and order goes; the equity is not touched.
InvalidateAll(b, table, written) ==
    [b EXCEPT !.rows = Rewritten(b, table, written), !.open = Nothing, !.pending = Nothing]

(* The except clause, with a trader that holds what b says and a table of its own:
   positions first, then orders.  A row that cannot be written raises again: the
   task is over, and nobody looks at what it held.                              *)
Fails(b, table) ==
    \E written \in SUBSET (Positions(b) \cup Orders(b)) :
       /\ written \cap Orders(b) # {} => Positions(b) \subseteq written
       /\ book' = InvalidateAll(b, table, written)
       /\ task' = [task EXCEPT !.at = IF Positions(b) \cup Orders(b) \subseteq written
                                      THEN "loop" ELSE "done"]
       /\ breaks' = [total |-> breaks.total + 1, failures |-> breaks.failures + 1]

\* No connection, a socket that breaks, a message that cannot be read.
StreamFails == /\ task.at = "stream" /\ breaks.total < MaxBreaks
               /\ Fails(book, book.rows)
               /\ UNCHANGED bars

\* A candle whose processing raises, at each row it writes and at the engine.
BarFails(s, r) ==
    LET filled == Filled(book, s, r)
        managed == Managed(filled, s, r)
        signalled == Signalled(managed, s, r)
        t == filled.open[s]
    IN /\ task.at = "stream" /\ MapThenSumSet(LAMBDA q : bars[q], Symbols) < MaxBars
       /\ breaks.total < MaxBreaks
       /\ \/ Fails(book, book.rows)                                              \* MISSED_FILL
          \/ filled.open # book.open /\ Fails(filled, book.rows)                 \* OPEN
          \/ Exits(t, r) /\ Fails(Credited(filled, s, ExitPrice(t, r)), filled.rows) \* CLOSED
          \/ Fails(managed, managed.rows)                                        \* the engine
          \/ signalled.pending # managed.pending /\ Fails(signalled, managed.rows) \* PENDING
       /\ bars' = [bars EXCEPT ![s] = @ + 1]

Next == \/ Start \/ Stop \/ Loop \/ StreamEnds \/ StreamFails
        \/ \E s \in Symbols, r \in Rows : Bar(s, r) \/ BarFails(s, r)

Spec == Init /\ [][Next]_vars

-----------------------------------------------------------------------------
Live == {"PENDING", "OPEN"}
Final == {"MISSED_FILL", "CLOSED", "INVALID_DATA_GAP", "CANCELLED_DATA_GAP"}
Held(s) == {id \in {book.pending[s].id, book.open[s].id} : id # 0}
Mine == {id \in DOMAIN book.rows : book.rows[id].trader = task.trader}

Ordered == [id : Nat, dir : {LONG, SHORT}, stop : Int, mode : Mode, target : Int,
            price : {r.close : r \in Rows}, ttl : Nat]
Trade == [id : Nat, dir : {LONG, SHORT}, stop : Int, target : Int, entry : Int, qty : Int,
          fees : Int, held : Nat]
Decision == [symbol : Symbols, trader : Nat, status : Live \cup Final, pnl : Int,
             signalled : Nat, opened : Nat, failures : Nat]
Book == [pending : [Symbols -> Ordered \cup {NoOrder}], open : [Symbols -> Trade \cup {NoOrder}],
         equity : Int, unreported : Int, rows : Seq(Decision)]

TypeOK == /\ task \in [at : {"none", "loop", "stream", "done"}, trader : Nat, stopped : BOOLEAN]
          /\ book \in Book /\ bars \in [Symbols -> Nat] /\ breaks \in [total : Nat, failures : Nat]
          /\ \A s \in Symbols : /\ Held(s) \subseteq Mine /\ Cardinality(Held(s)) <= 1
                                /\ \A id \in Held(s) : book.rows[id].symbol = s
                                                       /\ book.rows[id].status \in Live

Result(id) == IF id \in Mine /\ book.rows[id].status = "CLOSED" THEN book.rows[id].pnl ELSE 0

(* The equity is what its trader began with, the results of the rows it closed
   and those of the closes whose row could not be written (the failure handler
   then calls them INVALID_DATA_GAP at the stop's price); what a failure ended
   does not count, and nothing counts twice.                                  *)
EquityMatchesRows ==
    book.equity = InitialEquity + book.unreported
                  + Total([id \in DOMAIN book.rows |-> Result(id)], Len(book.rows))

(* Nothing that was signalled before a failure of the stream is held after it. *)
NothingSpansFailure == \A s \in Symbols : \A id \in Held(s) :
    book.rows[id].failures = breaks.failures

(* An order is filled by a later bar than it was signalled on, and before its
   time to live is over.                                                     *)
FillsAreTimely == \A id \in DOMAIN book.rows : LET row == book.rows[id] IN
    row.opened # 0 => row.opened \in (row.signalled + 1)..(row.signalled + PassiveTtl)

(* A row that has its result keeps it, and one that is open is not pending again. *)
RowsMoveForward == [][\A id \in DOMAIN book.rows :
    LET old == book.rows[id]
        new == book'.rows[id]
    IN /\ old.status \in Final => new = old
       /\ old.status = "OPEN" => new.status # "PENDING"]_vars

=============================================================================
