------------------------- MODULE ShadowTraderProofs -------------------------
(* Proofs about ShadowTrader, for any symbols, candles, fees and number of     *)
(* traders.  One candle is filled, managed and turned into a signal in one     *)
(* step, so the invariant is stated of any book and of the candles counted,    *)
(* and carried from stage to stage.  A candle that fails leaves the table one    *)
(* row behind the trader (Behind), and the handler rewrites what it held.       *)
EXTENDS ShadowTrader, TotalsProofs, FiniteSetTheorems, SequenceTheorems

Types == /\ task \in [at : {"none", "loop", "stream", "done"}, trader : Nat, stopped : BOOLEAN]
         /\ bars \in [Symbols -> Nat] /\ breaks \in [total : Nat, failures : Nat]

(* What is held of a symbol is one order or one position, with a row of this   *)
(* trader, signalled since the last failure; an order has aged with the bars.  *)
HeldAt(b, n, s) ==
    LET p == b.pending[s]
        t == b.open[s] IN
    /\ p # NoOrder =>
         /\ p.id \in DOMAIN b.rows /\ b.rows[p.id].symbol = s /\ b.rows[p.id].trader = task.trader
         /\ b.rows[p.id].status = "PENDING" /\ b.rows[p.id].failures = breaks.failures
         /\ b.rows[p.id].opened = 0
         /\ p.ttl >= 1 /\ p.ttl <= PassiveTtl /\ n[s] + p.ttl = b.rows[p.id].signalled + PassiveTtl
         /\ t = NoOrder
    /\ t # NoOrder =>
         /\ t.id \in DOMAIN b.rows /\ b.rows[t.id].symbol = s /\ b.rows[t.id].trader = task.trader
         /\ b.rows[t.id].status = "OPEN" /\ b.rows[t.id].failures = breaks.failures

TimelyRow(row) == row.opened # 0 => row.opened \in (row.signalled + 1)..(row.signalled + PassiveTtl)
Value(row) == IF row.trader = task.trader /\ row.status = "CLOSED" THEN row.pnl ELSE 0
Results(b) == [id \in DOMAIN b.rows |-> Value(b.rows[id])]
Balanced(b) == b.equity = InitialEquity + b.unreported + Total(Results(b), Len(b.rows))

Sound(b, n) == /\ b \in Book
               /\ \A s \in Symbols : HeldAt(b, n, s)
               /\ \A id \in DOMAIN b.rows : TimelyRow(b.rows[id]) /\ b.rows[id].trader <= task.trader
               /\ Balanced(b)

Forward(b, c) == \A id \in DOMAIN b.rows :
    /\ id \in DOMAIN c.rows
    /\ b.rows[id].status \in Final => c.rows[id] = b.rows[id]
    /\ b.rows[id].status = "OPEN" => c.rows[id].status # "PENDING"

IInv == Types /\ Sound(book, bars)
-----------------------------------------------------------------------------
LEMMA ConstantTypes ==
    /\ InitialEquity \in Nat /\ PassiveTtl \in Nat \ {0} /\ MaxHold \in Nat /\ Risk \in Nat
    /\ NotionalPct \in Nat /\ MarketSlip \in Nat /\ AggressiveSlip \in Nat /\ PassiveOffset \in Nat
    /\ MakerFee \in Nat /\ TakerFee \in Nat
BY ShadowAssumption

LEMMA RowTypes ==
    ASSUME NEW r \in Rows
    PROVE  /\ r.open \in Nat /\ r.close \in Nat \ {0} /\ r.high \in Nat /\ r.low \in Nat
           /\ r.pick \in [dir : {LONG, SHORT}, stop : Int, reward : Int, mode : Mode]
           /\ \A slip \in {MarketSlip, AggressiveSlip, PassiveOffset} : slip < r.open /\ slip < r.close
<1>1. {r.open, r.high, r.low, r.close} \subseteq Nat /\ r.low <= r.open /\ r.low <= r.close
  BY ShadowAssumption
<1>2. \A slip \in {MarketSlip, AggressiveSlip, PassiveOffset} : slip < r.low
  BY ShadowAssumption
<1>3. r.pick \in [dir : {LONG, SHORT}, stop : Int, reward : Int, mode : Mode]
  BY ShadowAssumption
<1> QED BY <1>1, <1>2, <1>3, ConstantTypes

LEMMA ValueType ==
    ASSUME NEW b \in Book
    PROVE  \A id \in 1..Len(b.rows) : /\ id \in DOMAIN b.rows /\ b.rows[id] \in Decision
                                      /\ Results(b)[id] = Value(b.rows[id])
                                      /\ Value(b.rows[id]) \in Int
<1>1. DOMAIN b.rows = 1..Len(b.rows) /\ \A id \in DOMAIN b.rows : b.rows[id] \in Decision
  BY DEF Book
<1> QED BY <1>1 DEF Results, Value, Decision

(* What its symbol s holds, and at most the row id of s, change.               *)
Change(b, n, c, m, s, id) ==
    /\ c \in Book /\ id \in DOMAIN b.rows /\ b.rows[id].symbol = s
    /\ HeldAt(c, m, s) /\ \A q \in Symbols \ {s} : m[q] = n[q]
    /\ Len(c.rows) = Len(b.rows) /\ \A j \in DOMAIN b.rows \ {id} : c.rows[j] = b.rows[j]
    /\ \A q \in Symbols \ {s} : c.pending[q] = b.pending[q] /\ c.open[q] = b.open[q]
    /\ c.rows[id].trader = b.rows[id].trader /\ TimelyRow(c.rows[id])
    /\ \/ c.equity = b.equity + (Value(c.rows[id]) - Value(b.rows[id])) /\ c.unreported = b.unreported
       \/ \E net \in Int : /\ c.equity = b.equity + net /\ c.unreported = b.unreported + net
                           /\ c.rows = b.rows
    /\ \/ c.rows[id] = b.rows[id]
       \/ b.rows[id].status \in Live /\ (b.rows[id].status = "OPEN" => c.rows[id].status # "PENDING")

LEMMA ChangeSound ==
    ASSUME Types, NEW b, NEW n, NEW c, NEW m, NEW s \in Symbols, NEW id,
           Sound(b, n), Change(b, n, c, m, s, id)
    PROVE  Sound(c, m) /\ Forward(b, c)
<1> USE DEF Change
<1>1. /\ b \in Book /\ DOMAIN b.rows = 1..Len(b.rows) /\ DOMAIN c.rows = 1..Len(b.rows)
      /\ Len(b.rows) \in Nat
  BY DEF Sound, Book
<1>2. \A q \in Symbols : HeldAt(c, m, q)
  <2> SUFFICES ASSUME NEW q \in Symbols, q # s PROVE HeldAt(c, m, q)
    OBVIOUS
  <2>1. HeldAt(b, n, q)
    BY DEF Sound
  <2>2. c.pending[q] = b.pending[q] /\ c.open[q] = b.open[q] /\ m[q] = n[q]
    OBVIOUS
  <2>3. \A j \in DOMAIN b.rows : j \in DOMAIN c.rows /\ (b.rows[j].symbol = q => c.rows[j] = b.rows[j])
    BY <1>1
  <2> HIDE DEF Change
  <2> QED BY <2>1, <2>2, <2>3 DEF HeldAt
<1>3. \A j \in DOMAIN c.rows : TimelyRow(c.rows[j]) /\ c.rows[j].trader <= task.trader
  BY <1>1 DEF Sound
<1>4. Balanced(c)
  <2>1. \A j \in 1..Len(b.rows) : /\ Results(b)[j] \in Int /\ Results(c)[j] \in Int
                                  /\ j # id => Results(c)[j] = Results(b)[j]
    BY <1>1, ValueType
  <2>2. Total(Results(c), Len(b.rows))
          = Total(Results(b), Len(b.rows)) + (Results(c)[id] - Results(b)[id])
    <3>1. id \in 1..Len(b.rows)
      BY <1>1
    <3>2. Len(b.rows) \in Nat
      BY <1>1
    <3> HIDE DEF Results, Change
    <3> QED BY <2>1, <3>1, <3>2, TotalChange
  <2>3. Total(Results(b), Len(b.rows)) \in Int
    <3>1. \A j \in 0..Len(b.rows) : Total(Results(b), j) \in Int
      BY <1>1, <2>1, TotalSteps
    <3> QED BY <1>1, <3>1
  <2>4. Results(c)[id] = Value(c.rows[id]) /\ Results(b)[id] = Value(b.rows[id])
        /\ Value(c.rows[id]) \in Int /\ Value(b.rows[id]) \in Int
    BY <1>1, ValueType
  <2>5. b.unreported \in Int /\ c.unreported \in Int /\ b.equity \in Int
    BY <1>1 DEF Book
  <2>6. b.equity = InitialEquity + b.unreported + Total(Results(b), Len(b.rows))
    BY DEF Balanced, Sound
  <2>7. /\ \/ /\ c.equity = b.equity + (Value(c.rows[id]) - Value(b.rows[id]))
              /\ c.unreported = b.unreported
           \/ \E net \in Int : /\ c.equity = b.equity + net /\ c.unreported = b.unreported + net
                               /\ c.rows = b.rows
        /\ Len(c.rows) = Len(b.rows)
    OBVIOUS
  <2>8. InitialEquity \in Int
    BY ConstantTypes
  <2> HIDE DEF Change, Results, Value
  <2>9. CASE c.equity = b.equity + (Value(c.rows[id]) - Value(b.rows[id])) /\ c.unreported = b.unreported
    BY <2>2, <2>3, <2>4, <2>5, <2>6, <2>7, <2>8, <2>9 DEF Balanced
  <2>10. ASSUME NEW net \in Int, c.equity = b.equity + net, c.unreported = b.unreported + net,
                c.rows = b.rows
         PROVE  Balanced(c)
    <3>1. Results(c) = Results(b)
      BY <2>10 DEF Results
    <3> QED BY <2>3, <2>5, <2>6, <2>8, <2>10, <3>1 DEF Balanced
  <2> QED BY <2>7, <2>9, <2>10
<1>5. Forward(b, c)
  BY <1>1 DEF Forward, Live, Final
<1> QED BY <1>2, <1>3, <1>4, <1>5 DEF Sound

(* What store.add makes of a row, and a book with one row replaced.            *)
Outcome(row, status, pnl) == [row EXCEPT !.status = status, !.pnl = pnl]

LEMMA OutcomeType ==
    ASSUME NEW row \in Decision, NEW status \in Live \cup Final, NEW pnl \in Int
    PROVE  LET new == Outcome(row, status, pnl) IN
           /\ new \in Decision /\ new.status = status /\ new.pnl = pnl
           /\ new.symbol = row.symbol /\ new.trader = row.trader /\ new.signalled = row.signalled
           /\ new.opened = row.opened /\ new.failures = row.failures
BY DEF Outcome, Decision

LEMMA BookUpdate ==
    ASSUME NEW b \in Book, NEW c, NEW id \in DOMAIN b.rows, NEW row \in Decision,
           NEW P \in [Symbols -> Ordered \cup {NoOrder}], NEW T \in [Symbols -> Trade \cup {NoOrder}],
           NEW e \in Int,
           c = [pending |-> P, open |-> T, equity |-> e, unreported |-> b.unreported,
                rows |-> [b.rows EXCEPT ![id] = row]]
    PROVE  /\ c \in Book /\ Len(c.rows) = Len(b.rows) /\ c.rows[id] = row /\ c.unreported = b.unreported
           /\ \A j \in DOMAIN b.rows \ {id} : c.rows[j] = b.rows[j]
<1>1. b.rows \in Seq(Decision)
  BY DEF Book
<1>2. /\ [b.rows EXCEPT ![id] = row] \in Seq(Decision)
      /\ Len([b.rows EXCEPT ![id] = row]) = Len(b.rows)
  BY <1>1
<1> QED BY <1>1, <1>2 DEF Book

LEMMA Statuses == Live \cup Final = {"PENDING", "OPEN", "MISSED_FILL", "CLOSED", "INVALID_DATA_GAP",
                                     "CANCELLED_DATA_GAP"}
BY DEF Live, Final

-----------------------------------------------------------------------------
(* The arithmetic.                                                             *)
LEMMA Quotient ==
    ASSUME NEW a \in Int, NEW b \in Nat \ {0}
    PROVE  a \div b \in Int
OBVIOUS

LEMMA FeeType ==
    ASSUME NEW price \in Int, NEW qty \in Int, NEW bps \in Int
    PROVE  Fee(price, qty, bps) \in Int
BY Quotient DEF Fee

LEMMA NetType ==
    ASSUME NEW t \in Trade, NEW px \in Int
    PROVE  Net(t, px) \in Int
<1>1. Fee(px, t.qty, TakerFee) \in Int
  BY FeeType, ConstantTypes DEF Trade
<1>2. (px - t.entry) * t.dir * t.qty \in Int
  BY DEF Trade, LONG, SHORT
<1> QED BY <1>1, <1>2 DEF Net, Trade

LEMMA FillTypes ==
    ASSUME NEW p \in Ordered, NEW r \in Rows
    PROVE  FillPrice(p, r) \in Nat \ {0}
<1>1. p.price \in Nat /\ PassiveOffset < p.price
  BY RowTypes DEF Ordered
<1>2. p.dir \in {1, -1} /\ p.mode \in {"market", "aggressive", "passive"}
  BY DEF Ordered, LONG, SHORT, Mode
<1> QED BY <1>1, <1>2, RowTypes, ConstantTypes DEF FillPrice, Limit

-----------------------------------------------------------------------------
(* _process_bar, stage by stage.                                               *)
Counted(s) == [bars EXCEPT ![s] = @ + 1]

LEMMA HeldTypes ==
    ASSUME Types, NEW b, NEW n, Sound(b, n), NEW s \in Symbols
    PROVE  /\ b.pending[s] # NoOrder => b.pending[s] \in Ordered /\ b.rows[b.pending[s].id] \in Decision
           /\ b.open[s] # NoOrder => b.open[s] \in Trade /\ b.rows[b.open[s].id] \in Decision
           /\ b.equity \in Int /\ HeldAt(b, n, s)
<1>1. b \in Book /\ HeldAt(b, n, s)
  BY DEF Sound
<1> QED BY <1>1 DEF HeldAt, Book

(* What Sound says of an order that waits, in one place.                        *)
LEMMA OrderHeld ==
    ASSUME Types, NEW b, NEW n, Sound(b, n), NEW s \in Symbols, b.pending[s] # NoOrder
    PROVE  LET p == b.pending[s]
               row == b.rows[p.id] IN
           /\ b \in Book /\ b.equity \in Int /\ p \in Ordered /\ b.open[s] = NoOrder /\ HeldAt(b, n, s)
           /\ p.id \in DOMAIN b.rows /\ p.id \in Nat \ {0} /\ row \in Decision /\ TimelyRow(row)
           /\ row.symbol = s /\ row.trader = task.trader /\ row.failures = breaks.failures
           /\ row.status = "PENDING" /\ row.opened = 0
           /\ p.ttl >= 1 /\ p.ttl <= PassiveTtl /\ n[s] + p.ttl = row.signalled + PassiveTtl
<1> DEFINE id == b.pending[s].id
<1>1. /\ b \in Book /\ HeldAt(b, n, s) /\ b.equity \in Int /\ b.pending[s] \in Ordered
      /\ b.rows[id] \in Decision /\ \A j \in DOMAIN b.rows : TimelyRow(b.rows[j])
  <2>1. b \in Book /\ \A j \in DOMAIN b.rows : TimelyRow(b.rows[j])
    BY DEF Sound
  <2> QED BY <2>1, HeldTypes
<1>2. DOMAIN b.rows \subseteq Nat \ {0}
  BY <1>1 DEF Book
<1>3. /\ id \in DOMAIN b.rows /\ b.rows[id].symbol = s /\ b.rows[id].trader = task.trader
      /\ b.rows[id].status = "PENDING" /\ b.rows[id].failures = breaks.failures
      /\ b.rows[id].opened = 0 /\ b.open[s] = NoOrder
      /\ b.pending[s].ttl >= 1 /\ b.pending[s].ttl <= PassiveTtl
      /\ n[s] + b.pending[s].ttl = b.rows[id].signalled + PassiveTtl
  BY <1>1 DEF HeldAt
<1> QED BY <1>1, <1>2, <1>3

(* And of a position.                                                           *)
LEMMA PositionHeld ==
    ASSUME Types, NEW b, NEW n, Sound(b, n), NEW s \in Symbols, b.open[s] # NoOrder
    PROVE  LET t == b.open[s]
               row == b.rows[t.id] IN
           /\ b \in Book /\ b.equity \in Int /\ t \in Trade /\ b.pending[s] = NoOrder
           /\ t.id \in DOMAIN b.rows /\ t.id \in Nat \ {0} /\ row \in Decision /\ TimelyRow(row)
           /\ row.symbol = s /\ row.trader = task.trader /\ row.failures = breaks.failures
           /\ row.status = "OPEN"
<1> DEFINE id == b.open[s].id
<1>1. /\ b \in Book /\ HeldAt(b, n, s) /\ b.equity \in Int /\ b.open[s] \in Trade
      /\ b.rows[id] \in Decision /\ \A j \in DOMAIN b.rows : TimelyRow(b.rows[j])
  <2>1. b \in Book /\ \A j \in DOMAIN b.rows : TimelyRow(b.rows[j])
    BY DEF Sound
  <2> QED BY <2>1, HeldTypes
<1>2. DOMAIN b.rows \subseteq Nat \ {0}
  BY <1>1 DEF Book
<1>3. /\ id \in DOMAIN b.rows /\ b.rows[id].symbol = s /\ b.rows[id].trader = task.trader
      /\ b.rows[id].status = "OPEN" /\ b.rows[id].failures = breaks.failures /\ b.pending[s] = NoOrder
  BY <1>1 DEF HeldAt
<1> QED BY <1>1, <1>2, <1>3

(* The order leaves, its row as it is.                                         *)
LEMMA DropSound ==
    ASSUME Types, NEW b, NEW s \in Symbols, Sound(b, bars), b.pending[s] # NoOrder
    PROVE  LET c == [b EXCEPT !.pending[s] = NoOrder] IN Sound(c, Counted(s)) /\ Forward(b, c)
<1> DEFINE c == [b EXCEPT !.pending[s] = NoOrder]
           id == b.pending[s].id
<1>1. /\ b \in Book /\ id \in DOMAIN b.rows /\ b.rows[id].symbol = s /\ b.open[s] = NoOrder
      /\ b.rows[id] \in Decision /\ TimelyRow(b.rows[id]) /\ b.equity \in Int
  BY OrderHeld
<1>2. /\ c \in Book /\ c.rows = b.rows /\ c.equity = b.equity /\ c.unreported = b.unreported
      /\ c.open = b.open
      /\ c.pending = [b.pending EXCEPT ![s] = NoOrder]
  BY <1>1 DEF Book
<1>3. \A q \in Symbols \ {s} : Counted(s)[q] = bars[q]
  BY DEF Counted, Types
<1>4. c.pending[s] = NoOrder /\ c.open[s] = NoOrder
      /\ \A q \in Symbols \ {s} : c.pending[q] = b.pending[q] /\ c.open[q] = b.open[q]
  BY <1>1, <1>2 DEF Book
<1>5. HeldAt(c, Counted(s), s)
  BY <1>4 DEF HeldAt
<1>6. c.equity = b.equity + (Value(c.rows[id]) - Value(b.rows[id])) /\ c.unreported = b.unreported
  <2>1. c.rows[id] = b.rows[id] /\ c.equity = b.equity /\ c.unreported = b.unreported
    BY <1>2
  <2>2. Value(b.rows[id]) \in Int
    BY <1>1 DEF Value, Decision
  <2> HIDE DEF c, id
  <2> QED BY <1>1, <2>1, <2>2
<1> HIDE DEF c, id
<1>7. Sound(c, Counted(s)) /\ Forward(b, c)
  <2>1. Change(b, bars, c, Counted(s), s, id)
    BY <1>1, <1>2, <1>3, <1>4, <1>5, <1>6 DEF Change
  <2> QED BY <2>1, ChangeSound
<1> QED BY <1>7 DEF c

LEMMA MissedSound ==
    ASSUME Types, NEW b, NEW s \in Symbols, Sound(b, bars), b.pending[s] # NoOrder
    PROVE  Sound(Missed(b, s), Counted(s)) /\ Forward(b, Missed(b, s))
<1> DEFINE p == b.pending[s]
           c == Missed(b, s)
           id == p.id
<1>1. /\ b \in Book /\ id \in DOMAIN b.rows /\ b.rows[id].symbol = s /\ b.open[s] = NoOrder
      /\ b.rows[id] \in Decision /\ TimelyRow(b.rows[id]) /\ p \in Ordered /\ b.equity \in Int
      /\ b.rows[id].status = "PENDING" /\ b.rows[id].opened = 0 /\ HeldAt(b, bars, s)
  BY OrderHeld
<1>2. /\ \A q \in Symbols \ {s} : Counted(s)[q] = bars[q]
      /\ Counted(s)[s] = bars[s] + 1 /\ bars[s] \in Nat
  BY DEF Counted, Types
<1>3. CASE p.ttl > 1
  <2> DEFINE o == [p EXCEPT !.ttl = @ - 1]
  <2>1. o \in Ordered /\ o.id = id /\ o.ttl = p.ttl - 1 /\ o.ttl \in Nat \ {0} /\ o # NoOrder
    BY <1>1, <1>3 DEF Ordered, NoOrder
  <2>2. /\ c = [b EXCEPT !.pending[s] = o]
    BY <1>3 DEF Missed
  <2> HIDE DEF o
  <2>3. /\ c \in Book /\ c.rows = b.rows /\ c.equity = b.equity /\ c.unreported = b.unreported
        /\ c.open = b.open /\ c.pending = [b.pending EXCEPT ![s] = o]
    <3>1. [b.pending EXCEPT ![s] = o] \in [Symbols -> Ordered \cup {NoOrder}]
      BY <1>1, <2>1 DEF Book
    <3>2. c = [pending |-> [b.pending EXCEPT ![s] = o], open |-> b.open, equity |-> b.equity,
               unreported |-> b.unreported, rows |-> b.rows]
      BY <1>1, <2>2 DEF Book
    <3> HIDE DEF c, p, id
    <3> QED BY <1>1, <3>1, <3>2 DEF Book
  <2>4. c.pending[s] = o /\ c.open[s] = NoOrder
        /\ \A q \in Symbols \ {s} : c.pending[q] = b.pending[q] /\ c.open[q] = b.open[q]
    BY <1>1, <2>3 DEF Book
  <2>5. p.ttl \in Nat /\ b.rows[id].signalled \in Nat /\ bars[s] + p.ttl = b.rows[id].signalled + PassiveTtl
        /\ p.ttl <= PassiveTtl
    BY <1>1 DEF HeldAt, Ordered, Decision
  <2>6. Counted(s)[s] + o.ttl = b.rows[id].signalled + PassiveTtl /\ o.ttl >= 1 /\ o.ttl <= PassiveTtl
    BY <1>2, <2>1, <2>5, ConstantTypes
  <2>7. HeldAt(c, Counted(s), s)
    BY <1>1, <2>1, <2>3, <2>4, <2>6 DEF HeldAt
  <2>8. c.equity = b.equity + (Value(c.rows[id]) - Value(b.rows[id])) /\ c.unreported = b.unreported
    <3>1. Value(b.rows[id]) \in Int
      BY <1>1 DEF Value, Decision
    <3>2. c.rows[id] = b.rows[id] /\ c.equity = b.equity /\ c.unreported = b.unreported
      BY <2>3
    <3> HIDE DEF c, id, p
    <3> QED BY <1>1, <3>1, <3>2
  <2> HIDE DEF c, id
  <2>9. Sound(c, Counted(s)) /\ Forward(b, c)
    <3>1. Change(b, bars, c, Counted(s), s, id)
      BY <1>1, <1>2, <2>3, <2>4, <2>7, <2>8 DEF Change
    <3> QED BY <3>1, ChangeSound
  <2> QED BY <2>9 DEF c
<1>4. CASE ~(p.ttl > 1)
  <2> DEFINE row == Outcome(b.rows[id], "MISSED_FILL", 0)
  <2>1. c = [b EXCEPT !.rows[id].status = "MISSED_FILL", !.rows[id].pnl = 0, !.pending[s] = NoOrder]
    BY <1>1, <1>4 DEF Missed, Stored, Book
  <2>2. row \in Decision /\ row.status = "MISSED_FILL" /\ row.symbol = s /\ row.opened = 0
        /\ row.trader = b.rows[id].trader
    <3>1. "MISSED_FILL" \in Live \cup Final
      BY DEF Final
    <3> HIDE DEF id
    <3> QED BY <1>1, <3>1, OutcomeType
  <2>3. c = [pending |-> [b.pending EXCEPT ![s] = NoOrder], open |-> b.open,
             equity |-> b.equity, unreported |-> b.unreported, rows |-> [b.rows EXCEPT ![id] = row]]
    <3>1. [b.rows EXCEPT ![id].status = "MISSED_FILL", ![id].pnl = 0] = [b.rows EXCEPT ![id] = row]
      BY <1>1 DEF Book, Decision, Outcome
    <3> HIDE DEF id, row
    <3> QED BY <1>1, <2>1, <3>1 DEF Book
  <2>10. c.equity = b.equity /\ c.unreported = b.unreported
         /\ c.open = b.open /\ c.pending = [b.pending EXCEPT ![s] = NoOrder]
    BY <2>3
  <2> HIDE DEF row
  <2>4. c \in Book /\ Len(c.rows) = Len(b.rows) /\ c.rows[id] = row
        /\ \A j \in DOMAIN b.rows \ {id} : c.rows[j] = b.rows[j]
    <3>1. [b.pending EXCEPT ![s] = NoOrder] \in [Symbols -> Ordered \cup {NoOrder}]
          /\ b.open \in [Symbols -> Trade \cup {NoOrder}]
      BY <1>1 DEF Book
    <3> HIDE DEF c
    <3> QED BY <1>1, <2>2, <2>3, <3>1, BookUpdate
  <2>5. c.pending[s] = NoOrder /\ c.open[s] = NoOrder
        /\ \A q \in Symbols \ {s} : c.pending[q] = b.pending[q] /\ c.open[q] = b.open[q]
    BY <1>1, <2>10 DEF Book
  <2>6. HeldAt(c, Counted(s), s)
    BY <2>5 DEF HeldAt
  <2>7. c.equity = b.equity + (Value(c.rows[id]) - Value(b.rows[id])) /\ c.unreported = b.unreported
    BY <1>1, <2>2, <2>10, <2>4 DEF Value
  <2>8. TimelyRow(c.rows[id]) /\ c.rows[id].status # "PENDING" /\ b.rows[id].status \in Live
    BY <1>1, <2>2, <2>4 DEF TimelyRow, Live
  <2> HIDE DEF c, id
  <2>9. Sound(c, Counted(s)) /\ Forward(b, c)
    <3>1. Change(b, bars, c, Counted(s), s, id)
      BY <1>1, <1>2, <2>2, <2>4, <2>5, <2>6, <2>7, <2>8 DEF Change
    <3> QED BY <3>1, ChangeSound
  <2> QED BY <2>9 DEF c
<1> QED BY <1>3, <1>4


(* The fill: a position, whose row opens on this bar.                          *)
LEMMA OpenedSound ==
    ASSUME Types, NEW b, NEW s \in Symbols, NEW r \in Rows, Sound(b, bars), b.pending[s] # NoOrder
    PROVE  Sound(Opened(b, s, r), Counted(s)) /\ Forward(b, Opened(b, s, r))
<1> DEFINE p == b.pending[s]
           id == p.id
           fill == FillPrice(p, r)
           dist == Distance(fill, p.stop)
           qty == Smaller((b.equity * Risk) \div (10000 * dist), (b.equity * NotionalPct) \div (100 * fill))
           bps == IF p.mode = "passive" THEN MakerFee ELSE TakerFee
           c == Opened(b, s, r)
<1>1. /\ b \in Book /\ id \in DOMAIN b.rows /\ b.rows[id].symbol = s /\ b.open[s] = NoOrder
      /\ b.rows[id] \in Decision /\ p \in Ordered /\ b.equity \in Int
      /\ b.rows[id].status = "PENDING" /\ b.rows[id].trader = task.trader
      /\ b.rows[id].failures = breaks.failures /\ id \in Nat \ {0}
      /\ p.ttl >= 1 /\ p.ttl <= PassiveTtl /\ bars[s] + p.ttl = b.rows[id].signalled + PassiveTtl
  BY OrderHeld
<1>2. CASE dist = 0
  <2>1. c = [b EXCEPT !.pending[s] = NoOrder]
    BY <1>2 DEF Opened
  <2> HIDE DEF c
  <2> QED BY <2>1, DropSound DEF c
<1>3. CASE dist # 0
  <2>1. fill \in Nat \ {0} /\ p.stop \in Int /\ p.target \in Int /\ p.dir \in {LONG, SHORT}
    BY <1>1, FillTypes DEF Ordered
  <2>2. dist \in Nat \ {0}
    BY <1>3, <2>1 DEF Distance
  <2>3. qty \in Int
    <3>1. b.equity * Risk \in Int /\ 10000 * dist \in Nat \ {0}
      BY <1>1, <2>2, ConstantTypes
    <3>2. b.equity * NotionalPct \in Int /\ 100 * fill \in Nat \ {0}
      BY <1>1, <2>1, ConstantTypes
    <3> HIDE DEF fill, dist
    <3>3. (b.equity * Risk) \div (10000 * dist) \in Int
      BY <3>1, Quotient
    <3>4. (b.equity * NotionalPct) \div (100 * fill) \in Int
      BY <3>2, Quotient
    <3> QED BY <3>3, <3>4 DEF Smaller
  <2>4. Fee(fill, qty, bps) \in Int
    <3>1. bps \in Int
      BY ConstantTypes
    <3> HIDE DEF fill, qty, bps
    <3> QED BY <2>1, <2>3, <3>1, FeeType
  <2> DEFINE t == [id |-> p.id, dir |-> p.dir, stop |-> p.stop, target |-> p.target,
                   entry |-> fill, qty |-> qty, fees |-> Fee(fill, qty, bps), held |-> 0]
             o == Outcome(b.rows[id], "OPEN", 0)
             row == [o EXCEPT !.opened = bars[s] + 1]
  <2>5. c = [Stored(b, p.id, "OPEN", 0) EXCEPT !.pending[s] = NoOrder,
                                               !.rows[p.id].opened = bars[s] + 1, !.open[s] = t]
    BY <1>3 DEF Opened
  <2>6. t \in Trade /\ t.id = id /\ t # NoOrder
    <3> HIDE DEF fill, qty, bps
    <3>1. t.id = id /\ t \in Trade
      BY <1>1, <2>1, <2>3, <2>4 DEF Trade
    <3> QED BY <1>1, <3>1 DEF NoOrder
  <2>7. bars[s] \in Nat
    BY DEF Types
  <2>8. /\ row \in Decision /\ row.status = "OPEN" /\ row.symbol = s /\ row.opened = bars[s] + 1
        /\ row.trader = task.trader /\ row.failures = breaks.failures
        /\ row.signalled = b.rows[id].signalled
    <3>1. "OPEN" \in Live \cup Final
      BY DEF Live
    <3>2. /\ o \in Decision /\ o.status = "OPEN" /\ o.symbol = s /\ o.trader = task.trader
          /\ o.failures = breaks.failures /\ o.signalled = b.rows[id].signalled
      <4> HIDE DEF id
      <4> QED BY <1>1, <3>1, OutcomeType
    <3> HIDE DEF o
    <3> QED BY <2>7, <3>2 DEF Decision
  <2> HIDE DEF t
  <2>9. c = [pending |-> [b.pending EXCEPT ![s] = NoOrder], open |-> [b.open EXCEPT ![s] = t],
             equity |-> b.equity, unreported |-> b.unreported, rows |-> [b.rows EXCEPT ![id] = row]]
    <3>1. [[b.rows EXCEPT ![id].status = "OPEN", ![id].pnl = 0] EXCEPT ![id].opened = bars[s] + 1]
            = [b.rows EXCEPT ![id] = row]
      BY <1>1 DEF Book, Decision, Outcome
    <3> HIDE DEF id, row, c
    <3> QED BY <1>1, <2>5, <3>1 DEF Book, Stored, id
  <2>10. c.equity = b.equity /\ c.unreported = b.unreported /\ c.open = [b.open EXCEPT ![s] = t]
         /\ c.pending = [b.pending EXCEPT ![s] = NoOrder]
    BY <2>9
  <2> HIDE DEF row, c
  <2>11. c \in Book /\ Len(c.rows) = Len(b.rows) /\ c.rows[id] = row
         /\ \A j \in DOMAIN b.rows \ {id} : c.rows[j] = b.rows[j]
    <3>1. [b.pending EXCEPT ![s] = NoOrder] \in [Symbols -> Ordered \cup {NoOrder}]
          /\ [b.open EXCEPT ![s] = t] \in [Symbols -> Trade \cup {NoOrder}]
      BY <1>1, <2>6 DEF Book
    <3> QED BY <1>1, <2>8, <2>9, <3>1, BookUpdate
  <2>12. c.pending[s] = NoOrder /\ c.open[s] = t
         /\ \A q \in Symbols \ {s} : c.pending[q] = b.pending[q] /\ c.open[q] = b.open[q]
    BY <1>1, <2>10 DEF Book
  <2> HIDE DEF id
  <2>13. HeldAt(c, Counted(s), s)
    <3>1. DOMAIN c.rows = DOMAIN b.rows
      BY <1>1, <2>11 DEF Book
    <3> QED BY <1>1, <2>6, <2>8, <2>11, <2>12, <3>1 DEF HeldAt
  <2>14. TimelyRow(c.rows[id])
    <3>1. p.ttl \in Nat /\ b.rows[id].signalled \in Nat
      BY <1>1 DEF Ordered, Decision
    <3> HIDE DEF p
    <3>2. row.opened >= row.signalled + 1 /\ row.opened <= row.signalled + PassiveTtl
      BY <1>1, <2>7, <2>8, <3>1, ConstantTypes
    <3>3. row.opened \in Int /\ row.signalled \in Int
      BY <2>8 DEF Decision
    <3> QED BY <2>11, <3>2, <3>3, ConstantTypes DEF TimelyRow
  <2>15. c.equity = b.equity + (Value(c.rows[id]) - Value(b.rows[id])) /\ c.unreported = b.unreported
    BY <1>1, <2>8, <2>10, <2>11 DEF Value
  <2>16. c.rows[id].trader = b.rows[id].trader /\ b.rows[id].status \in Live
         /\ b.rows[id].status # "OPEN"
    BY <1>1, <2>8, <2>11 DEF Live
  <2>17. \A q \in Symbols \ {s} : Counted(s)[q] = bars[q]
    BY DEF Counted, Types
  <2>18. Change(b, bars, c, Counted(s), s, id)
    BY <1>1, <2>11, <2>12, <2>13, <2>14, <2>15, <2>16, <2>17 DEF Change
  <2> QED BY <2>18, ChangeSound DEF c
<1> QED BY <1>2, <1>3

LEMMA FilledSound ==
    ASSUME Types, NEW b, NEW s \in Symbols, NEW r \in Rows, Sound(b, bars)
    PROVE  Sound(Filled(b, s, r), Counted(s)) /\ Forward(b, Filled(b, s, r))
<1>1. CASE b.pending[s] = NoOrder \/ b.open[s] # NoOrder
  <2>1. Filled(b, s, r) = b
    BY <1>1 DEF Filled
  <2>2. b.pending[s] = NoOrder
    BY <1>1, HeldTypes DEF HeldAt
  <2>3. ASSUME NEW q \in Symbols PROVE HeldAt(b, Counted(s), q)
    <3>1. HeldAt(b, bars, q)
      BY DEF Sound
    <3>2. q # s => Counted(s)[q] = bars[q]
      BY DEF Counted, Types
    <3> QED BY <2>2, <3>1, <3>2 DEF HeldAt
  <2>4. Forward(b, b)
    BY DEF Forward
  <2> QED BY <2>1, <2>3, <2>4 DEF Sound
<1>2. CASE b.pending[s] # NoOrder /\ b.open[s] = NoOrder
  BY <1>2, OpenedSound, MissedSound DEF Filled
<1> QED BY <1>1, <1>2

(* A close books its result in the row and in the equity.                      *)
LEMMA CloseSound ==
    ASSUME Types, NEW b, NEW n, NEW s \in Symbols, NEW px \in Int, Sound(b, n), b.open[s] # NoOrder
    PROVE  Sound(Close(b, s, px), n) /\ Forward(b, Close(b, s, px))
<1> DEFINE t == b.open[s]
           id == t.id
           c == Close(b, s, px)
           row == Outcome(b.rows[id], "CLOSED", Net(t, px))
<1>1. /\ b \in Book /\ id \in DOMAIN b.rows /\ b.rows[id].symbol = s /\ b.pending[s] = NoOrder
      /\ b.rows[id] \in Decision /\ t \in Trade /\ b.equity \in Int /\ TimelyRow(b.rows[id])
      /\ b.rows[id].status = "OPEN" /\ b.rows[id].trader = task.trader
  BY PositionHeld
<1>2. Net(t, px) \in Int /\ b.equity + Net(t, px) \in Int
  <2>1. Net(t, px) \in Int
    <3> HIDE DEF t
    <3> QED BY <1>1, NetType
  <2> QED BY <1>1, <2>1
<1>3. c = [Stored(b, id, "CLOSED", Net(t, px)) EXCEPT !.equity = @ + Net(t, px), !.open[s] = NoOrder]
  BY DEF Close
<1>4. /\ row \in Decision /\ row.status = "CLOSED" /\ row.symbol = s /\ row.trader = task.trader
      /\ row.signalled = b.rows[id].signalled /\ row.opened = b.rows[id].opened
      /\ row.pnl = Net(t, px)
  <2>1. "CLOSED" \in Live \cup Final
    BY DEF Final
  <2> HIDE DEF t, id
  <2> QED BY <1>1, <1>2, <2>1, OutcomeType
<1>5. c = [pending |-> b.pending, open |-> [b.open EXCEPT ![s] = NoOrder],
           equity |-> b.equity + Net(t, px), unreported |-> b.unreported, rows |-> [b.rows EXCEPT ![id] = row]]
  <2>1. [b.rows EXCEPT ![id].status = "CLOSED", ![id].pnl = Net(t, px)] = [b.rows EXCEPT ![id] = row]
    <3> HIDE DEF t, id
    <3> QED BY <1>1, <1>2 DEF Book, Decision, Outcome
  <2> HIDE DEF t, id, row, c
  <2> QED BY <1>1, <1>3, <2>1 DEF Book, Stored
<1>6. c.equity = b.equity + Net(t, px) /\ c.unreported = b.unreported
      /\ c.open = [b.open EXCEPT ![s] = NoOrder]
      /\ c.pending = b.pending
  BY <1>5
<1> HIDE DEF c, row, id, t
<1>7. c \in Book /\ Len(c.rows) = Len(b.rows) /\ c.rows[id] = row
      /\ \A j \in DOMAIN b.rows \ {id} : c.rows[j] = b.rows[j]
  <2>1. b.pending \in [Symbols -> Ordered \cup {NoOrder}]
        /\ [b.open EXCEPT ![s] = NoOrder] \in [Symbols -> Trade \cup {NoOrder}]
    BY <1>1 DEF Book
  <2> QED BY <1>1, <1>2, <1>4, <1>5, <2>1, BookUpdate
<1>8. c.pending[s] = NoOrder /\ c.open[s] = NoOrder
      /\ \A q \in Symbols \ {s} : c.pending[q] = b.pending[q] /\ c.open[q] = b.open[q]
  BY <1>1, <1>6 DEF Book
<1>9. HeldAt(c, n, s)
  BY <1>8 DEF HeldAt
<1>10. c.equity = b.equity + (Value(c.rows[id]) - Value(b.rows[id])) /\ c.unreported = b.unreported
  BY <1>1, <1>2, <1>4, <1>6, <1>7 DEF Value
<1>11. TimelyRow(c.rows[id]) /\ c.rows[id].status # "PENDING" /\ b.rows[id].status \in Live
  BY <1>1, <1>4, <1>7 DEF TimelyRow, Live
<1>12. Change(b, n, c, n, s, id)
  BY <1>1, <1>4, <1>7, <1>8, <1>9, <1>10, <1>11 DEF Change
<1> QED BY <1>12, ChangeSound DEF c

LEMMA ManagedSound ==
    ASSUME Types, NEW b, NEW n, NEW s \in Symbols, NEW r \in Rows, Sound(b, n)
    PROVE  Sound(Managed(b, s, r), n) /\ Forward(b, Managed(b, s, r))
<1> DEFINE t == b.open[s]
<1>1. CASE t = NoOrder
  <2>1. Managed(b, s, r) = b /\ Forward(b, b)
    BY <1>1 DEF Managed, Forward, Exits
  <2> QED BY <2>1
<1>2. CASE t # NoOrder
  <2>1. /\ t \in Trade /\ t.stop \in Int /\ t.target \in Int /\ r.close \in Int
    BY <1>2, HeldTypes, RowTypes DEF Trade
  <2>2. CASE Exits(t, r)
    <3>1. \E px \in Int : Managed(b, s, r) = Close(b, s, px)
      BY <2>1, <2>2 DEF Managed, ExitPrice
    <3> QED BY <1>2, <3>1, CloseSound
  <2>3. CASE ~Exits(t, r)
    <3> DEFINE c == [b EXCEPT !.open[s].held = @ + 1]
               u == [t EXCEPT !.held = @ + 1]
               id == t.id
    <3>1. Managed(b, s, r) = c
      BY <1>2, <2>3 DEF Managed
    <3>2. /\ b \in Book /\ id \in DOMAIN b.rows /\ b.rows[id].symbol = s /\ b.pending[s] = NoOrder
          /\ b.rows[id] \in Decision /\ TimelyRow(b.rows[id]) /\ b.equity \in Int
          /\ b.rows[id].status = "OPEN" /\ b.rows[id].trader = task.trader
          /\ b.rows[id].failures = breaks.failures /\ id \in Nat \ {0}
      BY <1>2, PositionHeld
    <3>3. u \in Trade /\ u.id = id /\ u # NoOrder
      <4> HIDE DEF t
      <4>1. u \in Trade /\ u.id = t.id
        BY <2>1 DEF Trade
      <4>2. u.held \in Nat /\ "held" \notin DOMAIN NoOrder /\ "held" \in DOMAIN u
        BY <4>1 DEF Trade, NoOrder
      <4> QED BY <4>1, <4>2
    <3> HIDE DEF u
    <3>4. /\ c \in Book /\ c.rows = b.rows /\ c.equity = b.equity /\ c.unreported = b.unreported
          /\ c.pending = b.pending /\ c.open = [b.open EXCEPT ![s] = u]
      BY <3>2, <3>3 DEF Book, u
    <3>5. c.pending[s] = NoOrder /\ c.open[s] = u
          /\ \A q \in Symbols \ {s} : c.pending[q] = b.pending[q] /\ c.open[q] = b.open[q]
      BY <3>2, <3>4 DEF Book
    <3> HIDE DEF c, id
    <3>6. HeldAt(c, n, s)
      BY <3>2, <3>3, <3>4, <3>5 DEF HeldAt
    <3>7. c.equity = b.equity + (Value(c.rows[id]) - Value(b.rows[id])) /\ c.unreported = b.unreported
      BY <3>2, <3>4 DEF Value, Decision
    <3>8. Change(b, n, c, n, s, id)
      BY <3>2, <3>4, <3>5, <3>6, <3>7 DEF Change
    <3> QED BY <3>1, <3>8, ChangeSound DEF c
  <2> QED BY <2>2, <2>3
<1> QED BY <1>1, <1>2


(* A signal: one more row and an order that waits for the next bar.            *)
LEMMA SignalledSound ==
    ASSUME Types, NEW b, NEW s \in Symbols, NEW r \in Rows, Sound(b, Counted(s))
    PROVE  Sound(Signalled(b, s, r), Counted(s)) /\ Forward(b, Signalled(b, s, r))
<1> DEFINE w == r.pick
           id == Len(b.rows) + 1
           n == Counted(s)
           c == Signalled(b, s, r)
<1>1. CASE w = NoPick \/ b.open[s] # NoOrder \/ b.pending[s] # NoOrder
  <2>1. c = b /\ Forward(b, b)
    BY <1>1 DEF Signalled, Forward
  <2> QED BY <2>1
<1>2. CASE ~(w = NoPick \/ b.open[s] # NoOrder \/ b.pending[s] # NoOrder)
  <2> DEFINE row == [symbol |-> s, trader |-> task.trader, status |-> "PENDING", pnl |-> 0,
                     signalled |-> bars[s] + 1, opened |-> 0, failures |-> breaks.failures]
             p == [id |-> id, dir |-> w.dir, stop |-> w.stop, mode |-> w.mode,
                   target |-> r.close + w.dir * (IF w.reward < 1 THEN 1 ELSE w.reward)
                                              * Distance(r.close, w.stop),
                   price |-> r.close, ttl |-> PassiveTtl]
  <2>1. /\ b \in Book /\ Len(b.rows) \in Nat /\ DOMAIN b.rows = 1..Len(b.rows)
        /\ bars[s] \in Nat /\ n[s] = bars[s] + 1
        /\ task.trader \in Nat /\ breaks.failures \in Nat /\ b.open[s] = NoOrder
    <3>1. b \in Book
      BY DEF Sound
    <3> QED BY <1>2, <3>1 DEF Book, Types, Counted
  <2>2. c = [b EXCEPT !.rows = Append(@, row), !.pending[s] = p]
    BY <1>2 DEF Signalled
  <2>3. /\ row \in Decision /\ row.symbol = s /\ row.trader = task.trader /\ row.status = "PENDING"
        /\ row.signalled = bars[s] + 1 /\ row.opened = 0 /\ row.failures = breaks.failures
    <3>1. "PENDING" \in Live \cup Final
      BY DEF Live
    <3>2. row \in Decision
      BY <2>1, <3>1 DEF Decision
    <3> QED BY <3>2
  <2>4. p \in Ordered /\ p.id = id /\ p.ttl = PassiveTtl /\ p # NoOrder
    <3>1. w.dir \in {LONG, SHORT} /\ w.stop \in Int /\ w.reward \in Int /\ w.mode \in Mode
          /\ r.close \in Nat
      BY RowTypes
    <3>2. Distance(r.close, w.stop) \in Int
      BY <3>1 DEF Distance
    <3>3. w.dir * (IF w.reward < 1 THEN 1 ELSE w.reward) * Distance(r.close, w.stop) \in Int
      <4>1. w.dir \in Int /\ (IF w.reward < 1 THEN 1 ELSE w.reward) \in Int
        BY <3>1 DEF LONG, SHORT
      <4> HIDE DEF w
      <4> QED BY <3>2, <4>1
    <3>4. p.target \in Int /\ PassiveTtl \in Nat /\ r.close \in {x.close : x \in Rows} /\ id \in Nat
      BY <2>1, <3>1, <3>3, ConstantTypes
    <3>5. p \in Ordered
      BY <3>1, <3>4 DEF Ordered
    <3>6. p.id # 0
      BY <2>1
    <3> HIDE DEF p
    <3>7. p # NoOrder
      BY <3>6 DEF NoOrder
    <3> QED BY <3>5, <3>7 DEF p
  <2> HIDE DEF row, p
  <2>5. /\ c.rows = Append(b.rows, row) /\ c.equity = b.equity /\ c.unreported = b.unreported
        /\ c.open = b.open /\ c.pending = [b.pending EXCEPT ![s] = p] /\ c \in Book
    <3>1. Append(b.rows, row) \in Seq(Decision)
      BY <2>1, <2>3 DEF Book
    <3>2. [b.pending EXCEPT ![s] = p] \in [Symbols -> Ordered \cup {NoOrder}]
      BY <2>1, <2>4 DEF Book
    <3>3. c = [pending |-> [b.pending EXCEPT ![s] = p], open |-> b.open, equity |-> b.equity,
               unreported |-> b.unreported, rows |-> Append(b.rows, row)]
      BY <2>1, <2>2 DEF Book
    <3> HIDE DEF c
    <3> QED BY <2>1, <3>1, <3>2, <3>3 DEF Book
  <2>6. /\ Len(c.rows) = id /\ DOMAIN c.rows = 1..id /\ c.rows[id] = row
        /\ \A j \in DOMAIN b.rows : j \in DOMAIN c.rows /\ c.rows[j] = b.rows[j]
    BY <2>1, <2>3, <2>5 DEF Book
  <2>7. ASSUME NEW q \in Symbols PROVE HeldAt(c, n, q)
    <3>1. HeldAt(b, n, q)
      BY DEF Sound
    <3>2. CASE q # s
      <4>1. c.pending[q] = b.pending[q] /\ c.open[q] = b.open[q]
        BY <2>1, <2>5, <3>2 DEF Book
      <4> HIDE DEF c, n
      <4> QED BY <2>6, <3>1, <4>1 DEF HeldAt
    <3>3. CASE q = s
      <4>1. c.pending[s] = p /\ c.open[s] = NoOrder
        BY <2>1, <2>5 DEF Book
      <4>2. id \in DOMAIN c.rows /\ PassiveTtl >= 1 /\ PassiveTtl <= PassiveTtl
        BY <2>1, <2>6, ConstantTypes
      <4>3. n[s] + PassiveTtl = row.signalled + PassiveTtl
        BY <2>1, <2>3
      <4> HIDE DEF c, n, id
      <4> QED BY <2>3, <2>4, <2>6, <3>3, <4>1, <4>2, <4>3 DEF HeldAt
    <3> QED BY <3>2, <3>3
  <2>8. \A j \in DOMAIN c.rows : TimelyRow(c.rows[j]) /\ c.rows[j].trader <= task.trader
    <3>1. TimelyRow(row) /\ row.trader <= task.trader
      BY <2>1, <2>3 DEF TimelyRow
    <3> QED BY <2>1, <2>6, <3>1 DEF Sound
  <2>9. Balanced(c)
    <3>1. \A j \in 1..id : Results(c)[j] \in Int
      BY <2>5, <2>6, ValueType
    <3>2. \A j \in 1..Len(b.rows) : Results(b)[j] \in Int /\ Results(c)[j] = Results(b)[j]
      BY <2>1, <2>6 , ValueType DEF Results
    <3>3. Total(Results(c), id) = Total(Results(c), id - 1) + Results(c)[id]
      <4>1. id \in Nat /\ id \in 1..id
        BY <2>1
      <4> HIDE DEF id
      <4> QED BY <3>1, <4>1, TotalSteps
    <3>4. Total(Results(c), Len(b.rows)) = Total(Results(b), Len(b.rows))
      BY <2>1, <3>2, TotalSame
    <3>5. Results(c)[id] = 0
      BY <2>1, <2>3, <2>6 DEF Results, Value
    <3>6. Total(Results(b), Len(b.rows)) \in Int
      <4>1. \A j \in 0..Len(b.rows) : Total(Results(b), j) \in Int
        BY <2>1, <3>2, TotalSteps
      <4> QED BY <2>1, <4>1
    <3>7. id - 1 = Len(b.rows)
      BY <2>1
    <3> HIDE DEF c, id
    <3> QED BY <2>5, <2>6, <3>3, <3>4, <3>5, <3>6, <3>7 DEF Balanced, Sound
  <2>10. Forward(b, c)
    BY <2>6 DEF Forward
  <2> QED BY <2>5, <2>7, <2>8, <2>9, <2>10 DEF Sound
<1> QED BY <1>1, <1>2

LEMMA ForwardTwice ==
    ASSUME NEW b \in Book, NEW c \in Book, NEW d, Forward(b, c), Forward(c, d)
    PROVE  Forward(b, d)
<1>1. \A id \in DOMAIN c.rows : c.rows[id] \in Decision
  BY DEF Book
<1>2. \A id \in DOMAIN b.rows : b.rows[id] \in Decision
  BY DEF Book
<1> QED BY <1>1, <1>2, Statuses DEF Forward, Decision, Final

LEMMA ProcessSound ==
    ASSUME Types, NEW b, NEW s \in Symbols, NEW r \in Rows, Sound(b, bars)
    PROVE  Sound(Process(b, s, r), Counted(s)) /\ Forward(b, Process(b, s, r))
<1> DEFINE c == Filled(b, s, r)
           d == Managed(c, s, r)
           e == Signalled(d, s, r)
<1>1. Sound(c, Counted(s)) /\ Forward(b, c)
  BY FilledSound
<1>2. Sound(d, Counted(s)) /\ Forward(c, d)
  BY <1>1, ManagedSound
<1>3. Sound(e, Counted(s)) /\ Forward(d, e)
  BY <1>2, SignalledSound
<1>4. b \in Book /\ c \in Book /\ d \in Book
  BY <1>1, <1>2 DEF Sound
<1> HIDE DEF c, d, e
<1>5. Forward(b, e)
  BY <1>1, <1>2, <1>3, <1>4, ForwardTwice
<1> QED BY <1>3, <1>5 DEF Process, c, d, e

(* A close whose row could not be written: the equity has it, the rows do not.  *)
LEMMA CreditedSound ==
    ASSUME Types, NEW b, NEW n, NEW s \in Symbols, NEW px \in Int, Sound(b, n), b.open[s] # NoOrder
    PROVE  LET c == Credited(b, s, px) IN Sound(c, n) /\ Forward(b, c) /\ c.rows = b.rows
<1> DEFINE t == b.open[s]
           id == t.id
           c == Credited(b, s, px)
           fee == Fee(px, t.qty, TakerFee)
           u == [t EXCEPT !.fees = @ + fee]
<1>1. /\ b \in Book /\ id \in DOMAIN b.rows /\ b.rows[id].symbol = s /\ b.pending[s] = NoOrder
      /\ b.rows[id] \in Decision /\ t \in Trade /\ b.equity \in Int /\ TimelyRow(b.rows[id])
      /\ b.rows[id].status = "OPEN" /\ b.rows[id].trader = task.trader
      /\ b.rows[id].failures = breaks.failures /\ id \in Nat \ {0}
  BY PositionHeld
<1>2. Net(t, px) \in Int /\ fee \in Int
  <2> HIDE DEF t
  <2>1. fee \in Int
    BY <1>1, FeeType, ConstantTypes DEF Trade
  <2> QED BY <1>1, <2>1, NetType
<1>3. u \in Trade /\ u.id = id /\ u # NoOrder
  <2> HIDE DEF fee, t
  <2>1. u \in Trade /\ u.id = t.id
    BY <1>1, <1>2 DEF Trade
  <2>2. "fees" \notin DOMAIN NoOrder /\ "fees" \in DOMAIN u
    BY <2>1 DEF Trade, NoOrder
  <2> QED BY <2>1, <2>2
<1>4. c = [b EXCEPT !.equity = @ + Net(t, px), !.unreported = @ + Net(t, px), !.open[s].fees = @ + fee]
  BY DEF Credited
<1> HIDE DEF fee
<1>5. /\ c.rows = b.rows /\ c.equity = b.equity + Net(t, px) /\ c.unreported = b.unreported + Net(t, px)
      /\ c.pending = b.pending /\ c.open = [b.open EXCEPT ![s] = u] /\ c \in Book
  <2>1. c = [pending |-> b.pending, open |-> [b.open EXCEPT ![s] = u], equity |-> b.equity + Net(t, px),
             unreported |-> b.unreported + Net(t, px), rows |-> b.rows]
    BY <1>1, <1>4 DEF Book
  <2>2. [b.open EXCEPT ![s] = u] \in [Symbols -> Trade \cup {NoOrder}] /\ b.unreported \in Int
    BY <1>1, <1>3 DEF Book
  <2> HIDE DEF t, c, u
  <2> QED BY <1>1, <1>2, <2>1, <2>2 DEF Book
<1> HIDE DEF u, c, id
<1>6. c.pending[s] = NoOrder /\ c.open[s] = u
      /\ \A q \in Symbols \ {s} : c.pending[q] = b.pending[q] /\ c.open[q] = b.open[q]
  BY <1>1, <1>5 DEF Book
<1>7. HeldAt(c, n, s)
  BY <1>1, <1>3, <1>5, <1>6 DEF HeldAt
<1>8. Change(b, n, c, n, s, id)
  BY <1>1, <1>2, <1>5, <1>6, <1>7 DEF Change
<1> QED BY <1>5, <1>8, ChangeSound DEF c

(* The table is behind what the trader holds by at most one row, of something   *)
(* it holds: the one that could not be written.                                 *)
HeldRows(b) == Positions(b) \cup Orders(b)
Behind(d, b) ==
    /\ Len(d.rows) = Len(b.rows) \/ (Len(b.rows) = Len(d.rows) + 1 /\ Len(b.rows) \in HeldRows(b))
    /\ \A id \in DOMAIN d.rows : \/ d.rows[id] = b.rows[id]
                                 \/ (id \in HeldRows(b) /\ d.rows[id].status \in Live)

LEMMA HeldRow ==
    ASSUME Types, NEW b, NEW n, Sound(b, n), NEW id \in HeldRows(b)
    PROVE  LET new == InvalidatedRow(b, id) IN
           /\ id \in DOMAIN b.rows /\ Value(b.rows[id]) = 0 /\ b.rows[id].status \in Live
           /\ new \in Decision /\ TimelyRow(new) /\ new.trader = task.trader
           /\ Value(new) = 0 /\ new.status \notin Live
<1> DEFINE new == InvalidatedRow(b, id)
<1>1. PICK s \in Symbols : id # 0 /\ (b.open[s].id = id \/ b.pending[s].id = id)
  BY DEF HeldRows, Positions, Orders
<1>2. CASE b.open[s].id = id
  <2> DEFINE t == b.open[s]
  <2>1. t # NoOrder
    BY <1>1, <1>2 DEF NoOrder
  <2>2. /\ id \in DOMAIN b.rows /\ t \in Trade /\ b.rows[id] \in Decision /\ TimelyRow(b.rows[id])
        /\ b.rows[id].symbol = s /\ b.rows[id].status = "OPEN" /\ b.rows[id].trader = task.trader
    BY <1>2, <2>1, PositionHeld
  <2>3. Net(t, t.stop) \in Int
    <3>1. t.stop \in Int
      BY <2>2 DEF Trade
    <3> HIDE DEF t
    <3> QED BY <2>2, <3>1, NetType
  <2>4. new = Outcome(b.rows[id], "INVALID_DATA_GAP", Net(t, t.stop))
    BY <1>2, <2>2 DEF InvalidatedRow, Outcome
  <2>5. "INVALID_DATA_GAP" \in Live \cup Final
    BY DEF Final
  <2> HIDE DEF new, t
  <2>6. /\ new \in Decision /\ new.status = "INVALID_DATA_GAP" /\ new.trader = b.rows[id].trader
        /\ new.signalled = b.rows[id].signalled /\ new.opened = b.rows[id].opened
    BY <2>2, <2>3, <2>4, <2>5, OutcomeType
  <2> QED BY <2>2, <2>6 DEF Value, TimelyRow, Live, new
<1>3. CASE b.open[s].id # id /\ b.pending[s].id = id
  <2>1. b.pending[s] # NoOrder
    BY <1>1, <1>3 DEF NoOrder
  <2>2. /\ id \in DOMAIN b.rows /\ b.rows[id] \in Decision /\ TimelyRow(b.rows[id])
        /\ b.rows[id].symbol = s /\ b.rows[id].status = "PENDING" /\ b.rows[id].trader = task.trader
    BY <1>3, <2>1, OrderHeld
  <2>4. new = Outcome(b.rows[id], "CANCELLED_DATA_GAP", 0)
    BY <1>3, <2>2 DEF InvalidatedRow, Outcome
  <2>5. "CANCELLED_DATA_GAP" \in Live \cup Final
    BY DEF Final
  <2> HIDE DEF new
  <2>6. /\ new \in Decision /\ new.status = "CANCELLED_DATA_GAP" /\ new.trader = b.rows[id].trader
        /\ new.signalled = b.rows[id].signalled /\ new.opened = b.rows[id].opened
    BY <2>2, <2>4, <2>5, OutcomeType
  <2> QED BY <2>2, <2>6 DEF Value, TimelyRow, Live, new
<1> QED BY <1>1, <1>2, <1>3

(* A failure gives everything up and books none of it, whichever rows could be  *)
(* written.                                                                     *)
LEMMA InvalidateSound ==
    ASSUME Types, NEW b, NEW n, Sound(b, n), NEW d, NEW k, Sound(d, k), Behind(d, b),
           NEW written \in SUBSET HeldRows(b)
    PROVE  LET c == InvalidateAll(b, d.rows, written) IN
           /\ c \in Book /\ c.open = Nothing /\ c.pending = Nothing /\ Forward(d, c) /\ Balanced(c)
           /\ \A id \in DOMAIN c.rows : TimelyRow(c.rows[id]) /\ c.rows[id].trader <= task.trader
<1> DEFINE rows == Rewritten(b, d.rows, written)
           c == InvalidateAll(b, d.rows, written)
<1>1. /\ b \in Book /\ Len(b.rows) \in Nat /\ DOMAIN b.rows = 1..Len(b.rows)
      /\ d \in Book /\ Len(d.rows) \in Nat /\ DOMAIN d.rows = 1..Len(d.rows)
      /\ \A id \in DOMAIN d.rows : d.rows[id] \in Decision
      /\ \A id \in DOMAIN d.rows : TimelyRow(d.rows[id]) /\ d.rows[id].trader <= task.trader
  <2>1. b \in Book /\ d \in Book
        /\ \A id \in DOMAIN d.rows : TimelyRow(d.rows[id]) /\ d.rows[id].trader <= task.trader
    BY DEF Sound
  <2> QED BY <2>1 DEF Book
<1>2. \A id \in HeldRows(b) :
         /\ id \in DOMAIN b.rows /\ Value(b.rows[id]) = 0 /\ b.rows[id].status \in Live
         /\ InvalidatedRow(b, id) \in Decision /\ TimelyRow(InvalidatedRow(b, id))
         /\ InvalidatedRow(b, id).trader = task.trader
         /\ Value(InvalidatedRow(b, id)) = 0 /\ InvalidatedRow(b, id).status \notin Live
  BY HeldRow
<1> DEFINE m == Len(rows)
<1>3. /\ rows \in Seq(Decision) /\ DOMAIN rows = DOMAIN d.rows \cup written /\ m \in Nat
      /\ DOMAIN rows = 1..m
      /\ m = Len(b.rows) \/ (Len(b.rows) = m + 1 /\ Len(b.rows) \in HeldRows(b))
      /\ \A id \in 1..m : rows[id] = IF id \in written THEN InvalidatedRow(b, id) ELSE d.rows[id]
  <2>1. PICK l \in {Len(d.rows), Len(b.rows)} :
           /\ DOMAIN d.rows \cup written = 1..l
           /\ l = Len(b.rows) \/ (Len(b.rows) = l + 1 /\ Len(b.rows) \in HeldRows(b))
    <3>1. written \subseteq 1..Len(b.rows)
      BY <1>1, <1>2
    <3>2. CASE Len(d.rows) = Len(b.rows)
      BY <1>1, <3>1, <3>2
    <3>3. CASE Len(b.rows) = Len(d.rows) + 1 /\ Len(b.rows) \in HeldRows(b) /\ Len(b.rows) \in written
      <4>1. DOMAIN d.rows \cup written = 1..Len(b.rows)
        BY <1>1, <3>1, <3>3
      <4> QED BY <4>1
    <3>4. CASE Len(b.rows) = Len(d.rows) + 1 /\ Len(b.rows) \in HeldRows(b) /\ Len(b.rows) \notin written
      <4>1. DOMAIN d.rows \cup written = 1..Len(d.rows)
        BY <1>1, <3>1, <3>4
      <4> QED BY <3>4, <4>1
    <3> QED BY <3>2, <3>3, <3>4 DEF Behind
  <2>2. l \in Nat
    BY <1>1, <2>1
  <2>3. rows = [id \in 1..l |-> IF id \in written THEN InvalidatedRow(b, id) ELSE d.rows[id]]
    BY <2>1 DEF Rewritten
  <2>4. \A id \in 1..l : (IF id \in written THEN InvalidatedRow(b, id) ELSE d.rows[id]) \in Decision
    BY <1>1, <1>2, <2>1
  <2> HIDE DEF rows
  <2>5. rows \in [1..l -> Decision]
    BY <2>3, <2>4
  <2>6. rows \in Seq(Decision) /\ Len(rows) = l
    BY <2>2, <2>5
  <2> QED BY <2>1, <2>2, <2>3, <2>6
<1>4. Nothing \in [Symbols -> Ordered \cup {NoOrder}] /\ Nothing \in [Symbols -> Trade \cup {NoOrder}]
  BY DEF Nothing
<1>5. c = [b EXCEPT !.rows = rows, !.open = Nothing, !.pending = Nothing]
  BY DEF InvalidateAll
<1> HIDE DEF rows, m
<1>6. /\ c \in Book /\ c.rows = rows /\ c.open = Nothing /\ c.pending = Nothing
      /\ c.equity = b.equity /\ c.unreported = b.unreported
  BY <1>1, <1>3, <1>4, <1>5 DEF Book
<1> HIDE DEF c
<1>7. \A id \in 1..m : /\ rows[id] \in Decision /\ TimelyRow(rows[id]) /\ rows[id].trader <= task.trader
                       /\ id \in DOMAIN b.rows /\ Value(rows[id]) = Value(b.rows[id])
  <2> SUFFICES ASSUME NEW id \in 1..m
               PROVE  /\ rows[id] \in Decision /\ TimelyRow(rows[id]) /\ rows[id].trader <= task.trader
                      /\ id \in DOMAIN b.rows /\ Value(rows[id]) = Value(b.rows[id])
    OBVIOUS
  <2>1. CASE id \in written
    <3>1. task.trader \in Nat
      BY DEF Types
    <3> QED BY <1>2, <1>3, <2>1, <3>1
  <2>2. CASE id \notin written
    <3>1. id \in DOMAIN d.rows /\ rows[id] = d.rows[id]
      BY <1>3, <2>2
    <3>2. id \in DOMAIN b.rows
      BY <1>1, <1>3
    <3>3. Value(rows[id]) = Value(b.rows[id])
      <4>1. CASE d.rows[id] = b.rows[id]
        BY <3>1, <4>1
      <4>2. CASE id \in HeldRows(b) /\ d.rows[id].status \in Live
        BY <1>2, <3>1, <4>2 DEF Value, Live
      <4> QED BY <3>1, <4>1, <4>2 DEF Behind
    <3> QED BY <1>1, <3>1, <3>2, <3>3
  <2> QED BY <2>1, <2>2
<1>8. Balanced(c)
  <2>1. \A j \in 1..m : Results(b)[j] \in Int /\ Results(c)[j] = Results(b)[j]
    <3>1. \A j \in 1..m : Results(b)[j] = Value(b.rows[j]) /\ Value(b.rows[j]) \in Int
      BY <1>1, <1>7, ValueType
    <3>2. \A j \in 1..m : Results(c)[j] = Value(rows[j])
      BY <1>3, <1>6 DEF Results
    <3> QED BY <1>7, <3>1, <3>2
  <2>2. Total(Results(c), m) = Total(Results(b), m)
    BY <1>3, <2>1, TotalSame
  <2>3. Total(Results(b), m) = Total(Results(b), Len(b.rows))
    <3>1. CASE m = Len(b.rows)
      BY <3>1
    <3>2. CASE Len(b.rows) = m + 1 /\ Len(b.rows) \in HeldRows(b)
      <4>1. \A j \in 1..(m + 1) : Results(b)[j] = Value(b.rows[j]) /\ Value(b.rows[j]) \in Int
        BY <1>1, <3>2, ValueType
      <4>2. Results(b)[m + 1] = 0
        BY <1>2, <1>3, <3>2, <4>1
      <4>3. /\ Total(Results(b), m) \in Int
            /\ Total(Results(b), m + 1) = Total(Results(b), m) + Results(b)[m + 1]
        <5>1. m + 1 \in Nat /\ m \in 0..(m + 1) /\ m + 1 \in 1..(m + 1) /\ (m + 1) - 1 = m
          BY <1>3
        <5>2. \A j \in 1..(m + 1) : Results(b)[j] \in Int
          BY <4>1
        <5> HIDE DEF Results
        <5>3. \A j \in 0..(m + 1) : Total(Results(b), j) \in Int
          BY <5>1, <5>2, TotalSteps
        <5>4. \A j \in 1..(m + 1) : Total(Results(b), j) = Total(Results(b), j - 1) + Results(b)[j]
          BY <5>1, <5>2, TotalSteps
        <5> QED BY <5>1, <5>3, <5>4
      <4> HIDE DEF Results
      <4> QED BY <3>2, <4>2, <4>3
    <3> QED BY <1>3, <3>1, <3>2
  <2>4. b.equity = InitialEquity + b.unreported + Total(Results(b), Len(b.rows)) /\ m = Len(c.rows)
    BY <1>6 DEF Balanced, Sound, m
  <2> HIDE DEF Results
  <2> QED BY <1>6, <2>2, <2>3, <2>4 DEF Balanced
<1>9. Forward(d, c)
  <2> SUFFICES ASSUME NEW id \in DOMAIN d.rows
               PROVE  /\ id \in DOMAIN c.rows
                      /\ d.rows[id].status \in Final => c.rows[id] = d.rows[id]
                      /\ d.rows[id].status = "OPEN" => c.rows[id].status # "PENDING"
    BY DEF Forward
  <2>1. id \in 1..m
    BY <1>3
  <2>2. CASE id \in written
    <3>1. d.rows[id].status \in Live
      BY <1>2, <2>2 DEF Behind
    <3>2. c.rows[id].status \notin Live
      BY <1>2, <1>3, <1>6, <2>1, <2>2
    <3> QED BY <1>3, <1>6, <2>1, <3>1, <3>2 DEF Live, Final
  <2>3. CASE id \notin written
    BY <1>3, <1>6, <2>1, <2>3
  <2> QED BY <2>2, <2>3
<1>10. \A id \in DOMAIN c.rows : TimelyRow(c.rows[id]) /\ c.rows[id].trader <= task.trader
  BY <1>3, <1>6, <1>7
<1> QED BY <1>6, <1>8, <1>9, <1>10 DEF c

LEMMA NothingBehind == ASSUME NEW b PROVE Behind(b, b)
BY DEF Behind

(* A fill whose row could not be written.                                       *)
LEMMA FillBehind ==
    ASSUME Types, NEW b, NEW s \in Symbols, NEW r \in Rows, Sound(b, bars),
           Filled(b, s, r).open # b.open
    PROVE  Behind(b, Filled(b, s, r))
<1> DEFINE p == b.pending[s]
           id == p.id
           c == Filled(b, s, r)
<1>1. p # NoOrder /\ c = Opened(b, s, r)
  <2>1. Missed(b, s).open = b.open
    BY DEF Missed, Stored
  <2> QED BY <2>1 DEF Filled
<1>2. b \in Book /\ id \in DOMAIN b.rows /\ id \in Nat \ {0} /\ b.rows[id].status = "PENDING"
  BY <1>1, OrderHeld
<1>3. /\ c.rows = [b.rows EXCEPT ![id].status = "OPEN", ![id].pnl = 0, ![id].opened = bars[s] + 1]
      /\ c.open[s].id = id
  BY <1>1, <1>2 DEF Opened, Stored, Book
<1> HIDE DEF c, id
<1>4. id \in HeldRows(c)
  BY <1>2, <1>3 DEF HeldRows, Positions
<1>5. Len(c.rows) = Len(b.rows) /\ \A j \in DOMAIN b.rows \ {id} : c.rows[j] = b.rows[j]
  BY <1>2, <1>3 DEF Book
<1>6. Behind(b, c)
  BY <1>2, <1>4, <1>5 DEF Behind, Live
<1> QED BY <1>6 DEF c

(* A signal whose row could not be written.                                     *)
LEMMA SignalBehind ==
    ASSUME NEW b \in Book, NEW s \in Symbols, NEW r \in Rows,
           Signalled(b, s, r).pending # b.pending
    PROVE  Behind(b, Signalled(b, s, r))
<1> DEFINE c == Signalled(b, s, r)
           id == Len(b.rows) + 1
<1>1. id \in Nat \ {0} /\ DOMAIN b.rows = 1..Len(b.rows) /\ Len(b.rows) \in Nat
  BY DEF Book
<1>2. /\ Len(c.rows) = id /\ \A j \in DOMAIN b.rows : c.rows[j] = b.rows[j]
      /\ c.pending[s].id = id
  BY <1>1 DEF Signalled, Book
<1> HIDE DEF c
<1>3. id \in HeldRows(c)
  BY <1>1, <1>2 DEF HeldRows, Orders
<1>4. Behind(b, c)
  BY <1>2, <1>3 DEF Behind
<1> QED BY <1>4 DEF c

-----------------------------------------------------------------------------
(* The invariant.                                                              *)
LEMMA NothingHeld ==
    ASSUME NEW b, NEW n, b.open = Nothing, b.pending = Nothing
    PROVE  \A s \in Symbols : HeldAt(b, n, s)
BY DEF HeldAt, Nothing

LEMMA InitIInv == Init => IInv
<1> SUFFICES ASSUME Init PROVE IInv
  OBVIOUS
<1>1. Types
  BY DEF Init, Types
<1>2. /\ book.rows = <<>> /\ book.equity = InitialEquity /\ book.unreported = 0
      /\ book.open = Nothing /\ book.pending = Nothing
      /\ book = [pending |-> Nothing, open |-> Nothing, equity |-> InitialEquity,
                 unreported |-> 0, rows |-> <<>>]
  BY DEF Init, NewBook, Nothing
<1>3. book \in Book
  <2>1. Nothing \in [Symbols -> Ordered \cup {NoOrder}] /\ Nothing \in [Symbols -> Trade \cup {NoOrder}]
    BY DEF Nothing
  <2> QED BY <1>2, <2>1, ConstantTypes DEF Book
<1>4. Balanced(book)
  <2>1. Total(Results(book), 0) = 0
    BY TotalZero
  <2> QED BY <1>2, <2>1, ConstantTypes DEF Balanced
<1> QED BY <1>1, <1>2, <1>3, <1>4, NothingHeld DEF IInv, Sound

(* A new trader has no results, and its rows are those of the ones before.     *)
LEMMA StartStep == ASSUME IInv, Start PROVE IInv' /\ Forward(book, book')
<1>1. /\ book \in Book /\ Len(book.rows) \in Nat /\ DOMAIN book.rows = 1..Len(book.rows)
      /\ task.trader \in Nat /\ task'.trader = task.trader + 1 /\ UNCHANGED breaks
      /\ \A id \in DOMAIN book.rows : book.rows[id] \in Decision
  <2>1. book \in Book
    BY DEF IInv, Sound
  <2> QED BY <2>1 DEF Book, Start, IInv, Types
<1>2. Types'
  BY DEF Start, IInv, Types
<1>3. /\ book'.rows = book.rows /\ book'.equity = InitialEquity /\ book'.unreported = 0
      /\ book'.open = Nothing
      /\ book'.pending = Nothing
      /\ book' = [pending |-> Nothing, open |-> Nothing, equity |-> InitialEquity,
                  unreported |-> 0, rows |-> book.rows]
  BY DEF Start, NewBook, Nothing
<1>4. book' \in Book
  <2>1. Nothing \in [Symbols -> Ordered \cup {NoOrder}] /\ Nothing \in [Symbols -> Trade \cup {NoOrder}]
    BY DEF Nothing
  <2>2. book.rows \in Seq(Decision)
    BY <1>1 DEF Book
  <2> QED BY <1>3, <2>1, <2>2, ConstantTypes DEF Book
<1>5. \A id \in DOMAIN book.rows : /\ TimelyRow(book.rows[id]) /\ book.rows[id].trader \in Nat
                                   /\ book.rows[id].trader <= task.trader
  BY <1>1 DEF IInv, Sound, Decision
<1>6. Balanced(book)'
  <2>1. \A j \in 1..Len(book.rows) : Results(book)'[j] = 0
    BY <1>1, <1>3, <1>5 DEF Results, Value
  <2>2. Total(Results(book)', Len(book.rows)) = 0
    BY <1>1, <2>1, TotalZero
  <2>3. Total(Results(book)', Len(book'.rows)) = 0
    BY <1>3, <2>2
  <2> QED BY <1>3, <2>3, ConstantTypes DEF Balanced
<1>7. \A s \in Symbols : HeldAt(book, bars, s)'
  BY <1>3 DEF HeldAt, Nothing
<1>8. \A id \in DOMAIN book'.rows : TimelyRow(book'.rows[id]) /\ book'.rows[id].trader <= task'.trader
  BY <1>1, <1>3, <1>5
<1>9. Forward(book, book')
  BY <1>3 DEF Forward
<1>10. Sound(book, bars)'
  BY <1>4, <1>6, <1>7, <1>8 DEF Sound, TimelyRow
<1> QED BY <1>2, <1>9, <1>10 DEF IInv

LEMMA BarStep == ASSUME IInv, NEW s \in Symbols, NEW r \in Rows, Bar(s, r)
                 PROVE  IInv' /\ Forward(book, book')
<1>1. /\ book' = Process(book, s, r) /\ bars' = Counted(s) /\ UNCHANGED <<task, breaks>>
  BY DEF Bar, Counted
<1>2. Sound(book', bars') /\ Forward(book, book')
  BY <1>1, ProcessSound DEF IInv
<1>3. Sound(book, bars)'
  BY <1>1, <1>2 DEF Sound, HeldAt, Balanced, Results, Value, TimelyRow
<1>4. Types'
  BY <1>1 DEF IInv, Types, Counted
<1> QED BY <1>2, <1>3, <1>4 DEF IInv

LEMMA FailsStep ==
    ASSUME IInv, NEW b, NEW n, Sound(b, n), NEW d, NEW k, Sound(d, k), Behind(d, b), Forward(book, d),
           Fails(b, d.rows), bars' \in [Symbols -> Nat]
    PROVE  IInv' /\ Forward(book, book')
<1>1. PICK written \in SUBSET HeldRows(b) :
         /\ book' = InvalidateAll(b, d.rows, written) /\ task'.trader = task.trader /\ Types'
  BY DEF Fails, HeldRows, IInv, Types
<1>2. /\ book' \in Book /\ book'.open = Nothing /\ book'.pending = Nothing /\ Forward(d, book')
      /\ Balanced(book')
      /\ \A id \in DOMAIN book'.rows : TimelyRow(book'.rows[id]) /\ book'.rows[id].trader <= task.trader
  BY <1>1, InvalidateSound DEF IInv
<1>3. \A s \in Symbols : HeldAt(book, bars, s)'
  BY <1>2 DEF HeldAt, Nothing
<1>4. Sound(book, bars)'
  BY <1>1, <1>2, <1>3 DEF Sound, Balanced, Results, Value, TimelyRow
<1>5. Forward(book, book')
  <2>1. book \in Book /\ d \in Book
    BY DEF IInv, Sound
  <2> QED BY <1>2, <2>1, ForwardTwice
<1> QED BY <1>1, <1>4, <1>5 DEF IInv

LEMMA StreamFailsStep == ASSUME IInv, StreamFails PROVE IInv' /\ Forward(book, book')
<1>1. Fails(book, book.rows) /\ bars' \in [Symbols -> Nat]
  BY DEF StreamFails, IInv, Types
<1>2. Sound(book, bars) /\ Behind(book, book) /\ Forward(book, book)
  BY NothingBehind DEF IInv, Forward
<1> QED BY <1>1, <1>2, FailsStep

LEMMA BarFailsStep == ASSUME IInv, NEW s \in Symbols, NEW r \in Rows, BarFails(s, r)
                      PROVE IInv' /\ Forward(book, book')
<1> DEFINE f == Filled(book, s, r)
           m == Managed(f, s, r)
           g == Signalled(m, s, r)
           t == f.open[s]
           c == Credited(f, s, ExitPrice(t, r))
           n == Counted(s)
<1>1. /\ bars' \in [Symbols -> Nat]
      /\ \/ Fails(book, book.rows)
         \/ f.open # book.open /\ Fails(f, book.rows)
         \/ Exits(t, r) /\ Fails(c, f.rows)
         \/ Fails(m, m.rows)
         \/ g.pending # m.pending /\ Fails(g, m.rows)
  BY DEF BarFails, IInv, Types
<1>2. Types /\ Sound(book, bars) /\ Forward(book, book)
  BY DEF IInv, Forward
<1>3. Sound(f, n) /\ Forward(book, f)
  BY <1>2, FilledSound
<1>4. Sound(m, n) /\ Forward(f, m)
  BY <1>2, <1>3, ManagedSound
<1>5. Sound(g, n)
  BY <1>2, <1>4, SignalledSound
<1>6. book \in Book /\ f \in Book /\ m \in Book
  BY <1>2, <1>3, <1>4 DEF Sound
<1>7. Forward(book, m)
  <2> HIDE DEF f, m
  <2> QED BY <1>3, <1>4, <1>6, ForwardTwice
<1>8. CASE Fails(book, book.rows)
  BY <1>1, <1>2, <1>8, NothingBehind, FailsStep
<1>9. CASE f.open # book.open /\ Fails(f, book.rows)
  <2>1. Behind(book, f)
    BY <1>2, <1>9, FillBehind
  <2> HIDE DEF f, n
  <2> QED BY <1>1, <1>2, <1>3, <1>9, <2>1, FailsStep
<1>10. CASE Exits(t, r) /\ Fails(c, f.rows)
  <2>1. t # NoOrder /\ ExitPrice(t, r) \in Int
    BY <1>2, <1>3, <1>10, HeldTypes, RowTypes DEF Exits, ExitPrice, Trade
  <2>2. Sound(c, n) /\ c.rows = f.rows
    <3> HIDE DEF f, n
    <3> QED BY <1>2, <1>3, <2>1, CreditedSound
  <2>3. Behind(f, c)
    BY <2>2 DEF Behind
  <2> HIDE DEF f, n, c, t
  <2> QED BY <1>1, <1>3, <1>10, <2>2, <2>3, FailsStep
<1>11. CASE Fails(m, m.rows)
  <2> HIDE DEF m, n
  <2> QED BY <1>1, <1>4, <1>7, <1>11, NothingBehind, FailsStep
<1>12. CASE g.pending # m.pending /\ Fails(g, m.rows)
  <2>1. Behind(m, g)
    <3> HIDE DEF m
    <3> QED BY <1>6, <1>12, SignalBehind
  <2> HIDE DEF m, n, g
  <2> QED BY <1>1, <1>4, <1>5, <1>7, <1>12, <2>1, FailsStep
<1> QED BY <1>1, <1>8, <1>9, <1>10, <1>11, <1>12

LEMMA IInvStep == ASSUME IInv, [Next]_vars PROVE IInv' /\ Forward(book, book')
<1>1. CASE Start
  BY <1>1, StartStep
<1>2. CASE Stop \/ Loop \/ StreamEnds \/ UNCHANGED vars
  <2>1. /\ UNCHANGED <<book, bars>> /\ task'.trader = task.trader /\ breaks'.failures = breaks.failures
        /\ Types'
    <3>1. Types
      BY DEF IInv
    <3>2. CASE Stop \/ Loop
      BY <3>1, <3>2 DEF Stop, Loop, Types
    <3>3. CASE StreamEnds
      BY <3>1, <3>3 DEF StreamEnds, Types
    <3>4. CASE UNCHANGED vars
      BY <3>1, <3>4 DEF vars, Types
    <3> QED BY <1>2, <3>2, <3>3, <3>4
  <2>2. Sound(book, bars)'
    <3>1. (book \in Book)' /\ \A s \in Symbols : HeldAt(book, bars, s)'
      BY <2>1 DEF IInv, Sound, HeldAt
    <3>2. Balanced(book)'
      BY <2>1 DEF IInv, Sound, Balanced, Results, Value
    <3>3. \A id \in DOMAIN book.rows : (TimelyRow(book.rows[id]) /\ book.rows[id].trader <= task.trader)'
      BY <2>1 DEF IInv, Sound, TimelyRow
    <3> QED BY <2>1, <3>1, <3>2, <3>3 DEF Sound
  <2> QED BY <2>1, <2>2 DEF IInv, Forward
<1>3. CASE StreamFails
  BY <1>3, StreamFailsStep
<1>4. CASE \E s \in Symbols, r \in Rows : Bar(s, r) \/ BarFails(s, r)
  BY <1>4, BarStep, BarFailsStep
<1> QED BY <1>1, <1>2, <1>3, <1>4 DEF Next

LEMMA Invariant == Spec => []IInv
<1>1. IInv /\ [Next]_vars => IInv'
  BY IInvStep
<1> QED BY <1>1, InitIInv, PTL DEF Spec

(* Every reachable state is well typed, and what is held of a symbol is one    *)
(* order or one position of this trader with a row that is not final.          *)
THEOREM TypeCorrect == Spec => []TypeOK
<1>1. ASSUME IInv PROVE TypeOK
  <2>1. Types /\ book \in Book
    BY <1>1 DEF IInv, Sound
  <2>2. ASSUME NEW s \in Symbols
        PROVE  /\ Held(s) \subseteq Mine /\ Cardinality(Held(s)) <= 1
               /\ \A id \in Held(s) : book.rows[id].symbol = s /\ book.rows[id].status \in Live
    <3>1. HeldAt(book, bars, s)
      BY <1>1 DEF IInv, Sound
    <3>2. Held(s) \subseteq Mine /\ \A id \in Held(s) : /\ book.rows[id].symbol = s
                                                       /\ book.rows[id].status \in Live
      BY <3>1 DEF HeldAt, Held, Mine, NoOrder, Live
    <3>3. Held(s) = {} \/ \E id : Held(s) = {id}
      <4>1. book.pending[s] = NoOrder \/ book.open[s] = NoOrder
        BY <3>1 DEF HeldAt
      <4>2. NoOrder.id = 0
        BY DEF NoOrder
      <4>3. CASE book.pending[s] = NoOrder
        BY <4>2, <4>3 DEF Held
      <4>4. CASE book.open[s] = NoOrder
        BY <4>2, <4>4 DEF Held
      <4> QED BY <4>1, <4>3, <4>4
    <3>4. Cardinality(Held(s)) <= 1
      <4>1. CASE Held(s) = {}
        BY <4>1, FS_EmptySet
      <4>2. ASSUME NEW id, Held(s) = {id} PROVE Cardinality(Held(s)) = 1
        BY <4>2, FS_Singleton
      <4> QED BY <3>3, <4>1, <4>2
    <3> QED BY <3>2, <3>4
  <2> QED BY <2>1, <2>2 DEF TypeOK, Types
<1> QED BY <1>1, Invariant, PTL

(* The equity orders are sized with is what the trader began with, the results *)
(* of the rows it closed and those of the closes whose row it could not write, *)
(* whatever failed in between.                                                 *)
THEOREM EquityIsSum == Spec => []EquityMatchesRows
<1>1. ASSUME IInv PROVE EquityMatchesRows
  <2>1. book \in Book /\ Len(book.rows) \in Nat /\ Balanced(book)
    BY <1>1 DEF IInv, Sound, Book
  <2>2. [id \in DOMAIN book.rows |-> Result(id)] = Results(book)
    BY DEF Result, Results, Value, Mine
  <2> QED BY <2>1, <2>2 DEF EquityMatchesRows, Balanced
<1> QED BY <1>1, Invariant, PTL

(* _invalidate_all leaves nothing behind: no order or position outlives a      *)
(* failure of the stream.                                                      *)
THEOREM FailuresEndAll == Spec => []NothingSpansFailure
<1>1. ASSUME IInv PROVE NothingSpansFailure
  <2>1. \A s \in Symbols : HeldAt(book, bars, s)
    BY <1>1 DEF IInv, Sound
  <2> QED BY <2>1 DEF HeldAt, Held, NoOrder, NothingSpansFailure
<1> QED BY <1>1, Invariant, PTL

(* An order is filled by a later bar than the one that signalled it and within *)
(* its time to live.                                                           *)
THEOREM TimelyFills == Spec => []FillsAreTimely
<1>1. IInv => FillsAreTimely
  BY DEF IInv, Sound, TimelyRow, FillsAreTimely
<1> QED BY <1>1, Invariant, PTL

(* A row of the decisions table that has its result keeps it, over later bars, *)
(* failures and traders.                                                       *)
THEOREM RowsAreFinal == Spec => RowsMoveForward
<1>1. ASSUME IInv, [Next]_vars
      PROVE  [\A id \in DOMAIN book.rows : LET old == book.rows[id]
                                               new == book'.rows[id]
              IN /\ old.status \in Final => new = old
                 /\ old.status = "OPEN" => new.status # "PENDING"]_vars
  <2>1. Forward(book, book')
    BY <1>1, IInvStep
  <2> QED BY <2>1 DEF Forward
<1> QED BY <1>1, Invariant, PTL DEF Spec, RowsMoveForward

=============================================================================
