---------------------------- MODULE PaperTrading ----------------------------
(***************************************************************************)
(* The paper trading engine (execution/paper_trading.py): an order book, a *)
(* set of resting orders that market data ticks fill, wholly or partly, or *)
(* cancel, and an account of positions, cash, fees and realised profit.    *)
(*                                                                         *)
(* Its methods only await publications on an unbounded queue, which never  *)
(* suspends, so each is one step.  Amounts of money are integers here; the *)
(* average price of a position is a quotient of integers, and a history    *)
(* variable adds up what it loses of the fractions that the code keeps.    *)
(***************************************************************************)
EXTENDS Integers, SequencesExt

CONSTANTS
  Orders,      \* order ids of a behaviour
  Symbols,
  Quantities,  \* quantities an order may have
  Prices,      \* prices a tick or an order may have
  Slip,        \* slippage of a market fill, against the trader
  Fee          \* flat brokerage of a fill

ASSUME PaperAssumption ==
  /\ IsFiniteSet(Orders) /\ IsFiniteSet(Symbols)
  /\ Quantities \subseteq Nat \ {0}
  /\ Prices \subseteq Nat \ {0}
  /\ Slip \in Nat
  /\ Fee \in Nat

VARIABLES
  realism,  \* is the fill probability model configured; fixed at start
  book,     \* _orders: the orders placed so far, by id
  resting,  \* keys of _pending_orders
  booked,   \* history: [Orders -> quantity of all fills of the order]
  ltp,      \* last price of a symbol, 0 before its first tick
  account   \* cash since start, fees, [Symbols -> position], and the history of rounding

paperVars == <<realism, book, resting, booked, ltp, account>>

Sides == {"BUY", "SELL"}
Statuses == {"PENDING", "PARTIALLY_FILLED", "FILLED", "CANCELLED", "REJECTED"}

\* level is the limit or the trigger, 0 for the other types; an order that closes
\* a position has the position's quantity.
OrderRecords ==
  [symbol : Symbols, side : Sides, type : {"MARKET", "LIMIT", "SL", "SL_M"},
   quantity : Nat \ {0}, level : Prices \cup {0}, status : Statuses, filled : Nat]

\* The orders are records of the right shape, and what an order reports as
\* filled never exceeds its quantity.
PaperTypeOK ==
  /\ realism \in BOOLEAN
  /\ DOMAIN book \subseteq Orders
  /\ \A o \in DOMAIN book : book[o] \in OrderRecords /\ book[o].filled <= book[o].quantity
  /\ resting \subseteq DOMAIN book
  /\ booked \in [Orders -> Nat]
  /\ ltp \in [Symbols -> Prices \cup {0}]

PaperInit ==
  /\ realism \in BOOLEAN
  /\ book = <<>>
  /\ resting = {}
  /\ booked = [o \in Orders |-> 0]
  /\ ltp = [s \in Symbols |-> 0]
  /\ account = [cash |-> 0, fees |-> 0, rounded |-> 0,
                pos |-> [s \in Symbols |-> [net |-> 0, entry |-> 0, pnl |-> 0]]]

-----------------------------------------------------------------------------
\* Booking a fill.

Abs(n) == IF n < 0 THEN -n ELSE n
Smaller(m, n) == IF m < n THEN m ELSE n
Signed(side, n) == IF side = "BUY" THEN n ELSE -n

\* A fill does not reduce the position.  Then what was paid for all of it is averaged.
Adds(p, change) == p.net * change >= 0
Paid(p, change, price) == p.entry * Abs(p.net) + price * Abs(change)
Average(p, change, price) == Paid(p, change, price) \div Abs(p.net + change)

\* What the average leaves out, as a profit of a long or a short position.
Remainder(p, change, price) ==
  IF ~Adds(p, change) THEN 0
  ELSE Signed(IF change > 0 THEN "BUY" ELSE "SELL", Paid(p, change, price) % Abs(p.net + change))

\* Faulty variants: a fill that crosses zero realises profit on all of its
\* quantity, and a fill that crosses zero leaves the position flat.
PositionAfterUncapped(p, change, price) ==
  LET net == p.net + change
  IN [net |-> net,
      entry |-> IF Adds(p, change) THEN Average(p, change, price)
                ELSE IF net * change > 0 THEN price ELSE p.entry,
      pnl |-> IF Adds(p, change) THEN p.pnl
              ELSE p.pnl - (price - p.entry) * change]

PositionAfterFlat(p, change, price) ==
  [net |-> IF Adds(p, change) \/ Abs(change) < Abs(p.net) THEN p.net + change ELSE 0,
   entry |-> IF Adds(p, change) THEN Average(p, change, price) ELSE p.entry,
   pnl |-> IF Adds(p, change) THEN p.pnl
              ELSE p.pnl + (price - p.entry) * (IF p.net > 0 THEN 1 ELSE -1)
                             * Smaller(Abs(change), Abs(p.net))]

\* A position p after buying (change > 0) or selling (change < 0).  entry is
\* buy_avg of a long position and sell_avg of a short one.
PositionAfter(p, change, price) ==
  LET net == p.net + change
  IN [net |-> net,
      entry |-> IF Adds(p, change) THEN Average(p, change, price)
                ELSE IF net * change > 0 THEN price ELSE p.entry,
      pnl |-> IF Adds(p, change) THEN p.pnl
              ELSE p.pnl + (price - p.entry) * (IF p.net > 0 THEN 1 ELSE -1)
                             * Smaller(Abs(change), Abs(p.net))]

\* A brokerage, flat or a share of the notional, whichever is lower, dues of the
\* exchange, a tax on both, and a duty on each side.
Fees(side, n, price) ==
  LET notional == n * price
      dues == Smaller(Fee, (3 * notional) \div 10000) + notional \div 10000
  IN dues + (18 * dues) \div 100
       + (IF side = "SELL" THEN notional \div 1000 ELSE (3 * notional) \div 20000)

\* _fill_order: the account after n of an order are filled at a price.
Settle(acct, ord, n, price) ==
  LET change == Signed(ord.side, n)
      fees == Fees(ord.side, n, price)
  IN [cash |-> acct.cash - change * price - fees,
      fees |-> acct.fees + fees,
      rounded |-> acct.rounded + Remainder(acct.pos[ord.symbol], change, price),
      pos |-> [acct.pos EXCEPT ![ord.symbol] = PositionAfter(@, change, price)]]

\* The slippage is always against the trader; how much, by spread, order type
\* and volume, is a constant here.
Slipped(side, last) == last + Signed(side, Slip)

\* A limit order fills at its price, the others at the last price and worse.
FillPrice(ord, last) == IF ord.type = "LIMIT" THEN ord.level ELSE Slipped(ord.side, last)

-----------------------------------------------------------------------------
\* Placing and cancelling.

Tickets(types) ==
  UNION {[symbol : Symbols, side : Sides, type : {type}, quantity : Quantities,
          level : IF type \in {"LIMIT", "SL"} THEN Prices ELSE {0},
          status : {"PENDING"}, filled : {0}] : type \in types}

Enter(o, ord) ==
  /\ o \notin DOMAIN book
  /\ book' = [x \in DOMAIN book \cup {o} |-> IF x = o THEN ord ELSE book[x]]

\* A market order fills at once.
PlaceMarket(o) ==
  \E ord \in Tickets({"MARKET"}) :
    /\ ltp[ord.symbol] > 0
    /\ Enter(o, [ord EXCEPT !.status = "FILLED", !.filled = ord.quantity])
    /\ booked' = [booked EXCEPT ![o] = ord.quantity]
    /\ account' = Settle(account, ord, ord.quantity, FillPrice(ord, ltp[ord.symbol]))
    /\ UNCHANGED <<realism, resting, ltp>>

PlaceResting(o) ==
  /\ \E ord \in Tickets({"LIMIT", "SL"}) : Enter(o, ord)
  /\ resting' = resting \cup {o}
  /\ UNCHANGED <<realism, booked, ltp, account>>

\* The margin is insufficient, or a market order finds no price.
PlaceRefused(o) ==
  /\ \E ord \in Tickets({"MARKET", "LIMIT", "SL", "SL_M"}) :
         Enter(o, [ord EXCEPT !.status = "REJECTED"])
  /\ UNCHANGED <<realism, resting, booked, ltp, account>>

\* An unsupported type is answered as rejected, and stays PENDING in the book.
PlaceUnsupported(o) ==
  /\ \E ord \in Tickets({"SL_M"}) : Enter(o, ord)
  /\ UNCHANGED <<realism, resting, booked, ltp, account>>

\* Faulty variant: the cancelled order goes on resting.
CancelKept(o) ==
  /\ o \in resting
  /\ book' = [book EXCEPT ![o].status = "CANCELLED"]
  /\ UNCHANGED <<realism, resting, booked, ltp, account>>

Cancel(o) ==
  /\ o \in resting
  /\ book' = [book EXCEPT ![o].status = "CANCELLED"]
  /\ resting' = resting \ {o}
  /\ UNCHANGED <<realism, booked, ltp, account>>

-----------------------------------------------------------------------------
\* A tick.

Below(ord, price) == IF ord.side = "BUY" THEN price <= ord.level ELSE price >= ord.level

\* A limit is reached from its far side, a trigger from its near side.
Reached(ord, price) ==
  IF ord.type = "LIMIT" THEN Below(ord, price) ELSE price = ord.level \/ ~Below(ord, price)

\* With the fill model, a limit order that the price runs away from is
\* cancelled.
RunsAway(ord, price) == realism /\ ord.type = "LIMIT" /\ ~Below(ord, price)

\* max(1, int(remaining * pct)) for a pct between 0.5 and 0.8, if that is not
\* all that remains.
Parts(remaining) == {n \in 1 .. remaining - 1 : 2 * n + 1 >= remaining /\ 5 * n <= 4 * remaining}

\* Faulty variant: parts are filled also without the fill model.
FillSizesAlways(ord, price) ==
  IF ~Reached(ord, price) THEN {0}
  ELSE {ord.quantity} \cup Parts(ord.quantity - ord.filled)

\* The fill model may leave a limit order that is reached unfilled: the other
\* side of the spread is out of reach, or the dice are against it, with odds by
\* distance, waiting and volume.
Dice(ord) == IF realism /\ ord.type = "LIMIT" THEN {0} ELSE {}

\* How much of a resting order a tick may fill: by the dice nothing, a part of
\* what remains when the volume is thin, and otherwise the last fill, which
\* always books the order's quantity.
FillSizes(ord, price) ==
  IF ~Reached(ord, price) THEN {0}
  ELSE {ord.quantity} \cup Dice(ord) \cup
       (IF realism THEN Parts(ord.quantity - ord.filled) ELSE {})

Filled(ord, n) ==
  IF n = 0 THEN ord
  ELSE IF n = ord.quantity THEN [ord EXCEPT !.status = "FILLED", !.filled = n]
  ELSE [ord EXCEPT !.status = "PARTIALLY_FILLED", !.filled = @ + n]

\* The account after the fills of a tick, one order after the other.
SettleAll(turns, n, price) ==
  LET after[i \in 0 .. Len(turns)] ==
        IF i = 0 THEN account
        ELSE LET o == turns[i]
             IN Settle(after[i - 1], book[o], n[o], FillPrice(book[o], price))
  IN after[Len(turns)]

\* First the orders the price runs away from are cancelled, then the others
\* are filled one after the other.  The engine goes by age; here any order.
Tick(s, price) ==
  LET live == {o \in resting : book[o].symbol = s}
      gone == {o \in live : RunsAway(book[o], price)}
  IN \E n \in [live \ gone -> {0} \cup UNION {FillSizes(book[o], price) : o \in live \ gone}] :
       LET hit == {o \in live \ gone : n[o] > 0}
       IN /\ \A o \in live \ gone : n[o] \in FillSizes(book[o], price)
          /\ ltp' = [ltp EXCEPT ![s] = price]
          /\ book' = [o \in DOMAIN book |->
                        IF o \in gone THEN [book[o] EXCEPT !.status = "CANCELLED"]
                        ELSE IF o \in hit THEN Filled(book[o], n[o])
                        ELSE book[o]]
          /\ resting' = {o \in resting : book'[o].status \in {"PENDING", "PARTIALLY_FILLED"}}
          /\ booked' = [o \in Orders |-> booked[o] + (IF o \in hit THEN n[o] ELSE 0)]
          /\ \E turns \in SetToSeqs(hit) : account' = SettleAll(turns, n, price)
          /\ UNCHANGED realism

\* get_pnl: the profit realised on closed quantities, and unrealised on open
\* ones at the last price.
PnlOf(p, last) == p.pnl + p.net * (last - p.entry)

PaperNext ==
  \/ \E o \in Orders : PlaceMarket(o) \/ PlaceResting(o) \/ PlaceRefused(o)
                         \/ PlaceUnsupported(o) \/ Cancel(o)
  \/ \E s \in Symbols, price \in Prices : Tick(s, price)

PaperSpec == PaperInit /\ [][PaperNext]_paperVars
-----------------------------------------------------------------------------
\* Properties.

\* The profit that get_pnl reports is what the cash and the open positions are
\* worth, before fees: through averaging, partial closes, reversals and
\* slippage, no money appears or is lost, but for the fractions of averages.
PnlAddsUp ==
  LET reported == [s \in Symbols |-> PnlOf(account.pos[s], ltp[s])]
      worth == [s \in Symbols |-> account.pos[s].net * ltp[s]]
  IN SumFunction(reported) = account.cash + SumFunction(worth) + account.fees + account.rounded

\* What the fills of the orders bought of a symbol, less what they sold.
Bought(s) ==
  [o \in Orders |-> IF o \in DOMAIN book /\ book[o].symbol = s
                    THEN Signed(book[o].side, booked[o]) ELSE 0]

\* The net quantity of a position is what the fills of its orders bought less
\* what they sold, cancelled and partly filled orders included.
PositionIsBooked == \A s \in Symbols : account.pos[s].net = SumFunction(Bought(s))

\* How far fills and order may differ.  Without the fill model they agree.
\* With it the last fill may book the parts filled before it again, which
\* stays below twice the quantity.
FillsBounded ==
  \A o \in DOMAIN book :
    /\ book[o].filled <= booked[o]
    /\ booked[o] < 2 * book[o].quantity
    /\ booked[o] # book[o].filled => realism /\ book[o].type \in {"LIMIT", "SL"}

Closed == {o \in DOMAIN book : book[o].status \in {"FILLED", "CANCELLED", "REJECTED"}}

\* Nothing happens to an order any more once it is filled, cancelled or
\* rejected, whatever ticks and cancellations follow.
ClosedStaysClosed ==
  [][\A o \in Closed : book'[o] = book[o] /\ booked'[o] = booked[o]]_paperVars

\* paper_trading.py: a partial fill fills part and keeps the rest pending, so
\* no order is filled beyond its quantity.
NeverOverfilled == \A o \in DOMAIN book : booked[o] <= book[o].quantity
=============================================================================
