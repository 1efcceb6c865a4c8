------------------------------- MODULE Ledger -------------------------------
(***************************************************************************)
(* The trade ledger (execution/ledger.py, ledger_recorder.py): a table of  *)
(* fills keyed by fill id, what the recorder writes into it for each event *)
(* it hears, and the first-in-first-out pairing of its fills.  A row is    *)
(* keyed here by its order and its source, which is what its id is made of *)
(***************************************************************************)
EXTENDS Integers, SequencesExt

\* A row of a fill; side "none" is the NULL that a postback leaves.
Row(order, source, symbol, side, quantity, price) ==
  [order |-> order, source |-> source, symbol |-> symbol, side |-> side,
   quantity |-> quantity, price |-> price]

HasRow(rows, order, source) ==
  \E i \in DOMAIN rows : rows[i].order = order /\ rows[i].source = source

\* Faulty variant: a fill is taken for a repeated one if it only looks the same.
RecordFillAlike(rows, row) ==
  IF \E i \in DOMAIN rows : [rows[i] EXCEPT !.order = row.order] = row THEN rows
  ELSE Append(rows, row)

\* INSERT OR IGNORE.
RecordFill(rows, row) ==
  IF HasRow(rows, row.order, row.source) THEN rows ELSE Append(rows, row)

OnOrderFilled(rows, e) ==
  RecordFill(rows, Row(e.order, "paper", e.symbol, e.side, e.quantity, e.price))

\* The symbol of the first row of an order that has one.
SymbolForOrder(rows, order) ==
  LET known == {i \in DOMAIN rows : rows[i].order = order}
  IN IF known = {} THEN "none" ELSE rows[Min(known)].symbol

\* A postback names its order only, and is skipped if no row tells the symbol.
OnOrderUpdated(rows, e) ==
  LET symbol == SymbolForOrder(rows, e.order)
  IN IF symbol = "none" THEN rows
     ELSE RecordFill(rows, Row(e.order, "postback", symbol, "none", e.quantity, e.price))

-----------------------------------------------------------------------------
\* pair_fills: rows of one symbol, oldest first.

Less(m, n) == IF m < n THEN m ELSE n

\* One entry of the opposite queue meets what is left of a fill.
PairWith(acc, entry) ==
  LET paired == Less(entry.left, acc.left)
      gain == IF acc.fill.side = "BUY" THEN entry.price - acc.fill.price
              ELSE acc.fill.price - entry.price
  IN [fill |-> acc.fill,
      left |-> acc.left - paired,
      queue |-> IF entry.left > paired
                THEN Append(acc.queue, [entry EXCEPT !.left = @ - paired]) ELSE acc.queue,
      pairs |-> IF paired = 0 THEN acc.pairs
                ELSE Append(acc.pairs, [entry |-> entry.order, exit |-> acc.fill.order,
                                        quantity |-> paired, pnl |-> gain * paired])]

\* What a fill leaves of a queue that it meets from the head, and of itself.
Meet(fill, queue, pairs) ==
  LET met[i \in 0 .. Len(queue)] ==
        IF i = 0 THEN [fill |-> fill, left |-> fill.quantity, queue |-> <<>>, pairs |-> pairs]
        ELSE PairWith(met[i - 1], queue[i])
  IN met[Len(queue)]

\* Faulty variant: a fill joins with all of its quantity.
JoinWhole(queue, fill, left) ==
  Append(queue, [order |-> fill.order, price |-> fill.price, left |-> fill.quantity])

\* What is left of a fill joins the queue of its own side.
Join(queue, fill, left) ==
  IF left = 0 THEN queue
  ELSE Append(queue, [order |-> fill.order, price |-> fill.price, left |-> left])

\* A buy meets the shorts and joins the longs, a sale the other way round.  Rows
\* without a side take no part.
PairFill(acc, fill) ==
  IF fill.side = "BUY"
  THEN LET met == Meet(fill, acc.SELL, acc.pairs)
       IN [pairs |-> met.pairs, BUY |-> Join(acc.BUY, fill, met.left), SELL |-> met.queue]
  ELSE IF fill.side = "SELL"
  THEN LET met == Meet(fill, acc.BUY, acc.pairs)
       IN [pairs |-> met.pairs, BUY |-> met.queue, SELL |-> Join(acc.SELL, fill, met.left)]
  ELSE acc

\* The rows of one symbol in turn.  BUY and SELL are the queues of unpaired longs
\* and shorts.
PairFills(rows, symbol) ==
  LET paired[i \in 0 .. Len(rows)] ==
        IF i = 0 THEN [pairs |-> <<>>, BUY |-> <<>>, SELL |-> <<>>]
        ELSE IF rows[i].symbol = symbol THEN PairFill(paired[i - 1], rows[i])
        ELSE paired[i - 1]
  IN paired[Len(rows)]

Left(queue) == SumFunction([i \in DOMAIN queue |-> queue[i].left])

\* The position that the ledger knows of: longs less shorts left over.
OpenRemainder(rows, symbol) ==
  LET paired == PairFills(rows, symbol)
  IN Left(paired.BUY) - Left(paired.SELL)
=============================================================================
