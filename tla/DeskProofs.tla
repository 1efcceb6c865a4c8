----------------------------- MODULE DeskProofs -----------------------------
(***************************************************************************)
(* Proofs about the desk: the fills that the paper engine publishes and    *)
(* what becomes of them on the bus and in the trade ledger.                *)
(***************************************************************************)
EXTENDS Desk, PaperTradingProofs, InductionLemmas, TLAPS

\* The rows of the fills table.
Rows ==
  [order : Orders, source : {"paper", "postback"}, symbol : Symbols, side : Sides \cup {"none"},
   quantity : Nat, price : Int]

\* The events, and the rows, that tell of an order's fill.
FillOf(o) == {e \in BusEvents : e.topic = "filled" /\ e.order = o}
PaperRows(o) == {r \in Rows : r.order = o /\ r.source = "paper"}

\* A filled order is told once, on the bus or in the ledger.
ToldOnce(o) ==
  Cardinality(PlacesOf(queue, FillOf(o))) + Cardinality(PlacesOf(ledger, PaperRows(o)))
    = IF IsFilled(o) THEN 1 ELSE 0

\* What a fill event, or a row, adds to the position of a symbol.
EventNet(s) ==
  [e \in BusEvents |-> IF e.topic = "filled" /\ e.symbol = s THEN Signed(e.side, e.quantity) ELSE 0]
RowNet(s) ==
  [r \in Rows |-> IF r.symbol = s /\ r.side \in Sides THEN Signed(r.side, r.quantity) ELSE 0]

\* The fills told add up to what was bought.
Explained(s) == TotalOf(queue, EventNet(s)) + TotalOf(ledger, RowNet(s)) = SumFunction(Bought(s))

DeskInv ==
  /\ BookInv /\ AccountOK /\ PositionIsBooked
  /\ queue \in Seq(BusEvents) /\ ledger \in Seq(Rows)
  /\ ledgerOpen => \A o \in Orders : ToldOnce(o)
  /\ ~realism /\ ledgerOpen => \A s \in Symbols : Explained(s)

LEMMA NetTypes ==
  ASSUME NEW s \in Symbols
  PROVE  EventNet(s) \in [BusEvents -> Int] /\ RowNet(s) \in [Rows -> Int]
  <1>1. ASSUME NEW r \in Rows PROVE r.quantity \in Int
    BY DEF Rows
  <1>2. ASSUME NEW e \in BusEvents, e.topic = "filled" PROVE e.quantity \in Int
    BY <1>2 DEF BusEvents
  <1>3. EventNet(s) \in [BusEvents -> Int]
    BY <1>2 DEF EventNet, Signed
  <1>4. RowNet(s) \in [Rows -> Int]
    BY <1>1 DEF RowNet, Signed
  <1> QED BY <1>3, <1>4

LEMMA ToldMeansReached ==
  ASSUME queue \in Seq(BusEvents), ledger \in Seq(Rows), ledgerOpen => \A o \in Orders : ToldOnce(o)
  PROVE  FillsReachLedger
  <1>1. ASSUME NEW o \in Orders
        PROVE  QueuedFills(o) = PlacesOf(queue, FillOf(o)) /\ LedgerFills(o) = PlacesOf(ledger, PaperRows(o))
    <2>1. DOMAIN queue = 1 .. Len(queue) /\ \A i \in 1 .. Len(queue) : queue[i] \in BusEvents
      OBVIOUS
    <2>2. DOMAIN ledger = 1 .. Len(ledger) /\ \A i \in 1 .. Len(ledger) : ledger[i] \in Rows
      OBVIOUS
    <2>3. QueuedFills(o) = PlacesOf(queue, FillOf(o))
      BY <2>1, Zenon DEF QueuedFills, PlacesOf, FillOf
    <2>4. LedgerFills(o) = PlacesOf(ledger, PaperRows(o))
      BY <2>2, Zenon DEF LedgerFills, PlacesOf, PaperRows
    <2> QED BY <2>3, <2>4
  <1> QED BY <1>1 DEF FillsReachLedger, ToldOnce, IsFilled

-----------------------------------------------------------------------------
\* Pairing fills first in, first out.

\* Entries of the queues, pairs, and where pairing stands.
Entries == [order : Orders, price : Int, left : Nat]
Pairs == [entry : Orders, exit : Orders, quantity : Nat, pnl : Int]
Pairings == [pairs : Seq(Pairs), BUY : Seq(Entries), SELL : Seq(Entries)]
Meetings(fill) == [fill : {fill}, left : Nat, queue : Seq(Entries), pairs : Seq(Pairs)]

LeftOf == [e \in Entries |-> e.left]

LEMMA LeftIsTotal ==
  ASSUME NEW q \in Seq(Entries)
  PROVE  Left(q) = TotalOf(q, LeftOf) /\ LeftOf \in [Entries -> Int] /\ Left(q) \in Int
  <1>1. LeftOf \in [Entries -> Int]
    BY DEF LeftOf, Entries
  <1>2. DOMAIN q = 1 .. Len(q) /\ \A i \in 1 .. Len(q) : LeftOf[q[i]] = q[i].left
    BY DEF LeftOf
  <1>3. [i \in DOMAIN q |-> q[i].left] = [i \in 1 .. Len(q) |-> LeftOf[q[i]]]
    BY <1>2
  <1>4. Left(q) = TotalOf(q, LeftOf)
    BY <1>3 DEF Left, TotalOf, SumTo
  <1> QED BY <1>1, <1>4, SumToNext

\* One entry is met.
LEMMA MeetsOne ==
  ASSUME NEW fill \in Rows, NEW acc \in Meetings(fill), NEW e \in Entries
  PROVE  /\ PairWith(acc, e) \in Meetings(fill)
         /\ Left(PairWith(acc, e).queue) - Left(acc.queue) = e.left + PairWith(acc, e).left - acc.left
  <1> DEFINE paired == Less(e.left, acc.left)
             gain == IF acc.fill.side = "BUY" THEN e.price - acc.fill.price ELSE acc.fill.price - e.price
             rest == [e EXCEPT !.left = @ - paired]
             pair == [entry |-> e.order, exit |-> acc.fill.order, quantity |-> paired, pnl |-> gain * paired]
             kept == IF e.left > paired THEN Append(acc.queue, rest) ELSE acc.queue
             pairs == IF paired = 0 THEN acc.pairs ELSE Append(acc.pairs, pair)
             next == PairWith(acc, e)
  <1>1. /\ acc.fill = fill /\ acc.left \in Nat /\ acc.queue \in Seq(Entries) /\ acc.pairs \in Seq(Pairs)
        /\ e.order \in Orders /\ e.price \in Int /\ e.left \in Nat
        /\ fill.order \in Orders /\ fill.price \in Int
    BY DEF Meetings, Entries, Rows
  <1>2. paired \in Nat /\ paired <= e.left /\ paired <= acc.left /\ (paired = e.left \/ paired = acc.left)
    BY <1>1 DEF Less
  <1>3. gain * paired \in Int
    <2>1. gain \in Int
      BY <1>1
    <2> HIDE DEF gain, paired
    <2> QED BY <1>2, <2>1
  <1>4. pair \in Pairs
    <2> HIDE DEF gain, paired
    <2> QED BY <1>1, <1>2, <1>3 DEF Pairs
  <1>5. rest \in Entries /\ rest.left = e.left - paired
    <2> HIDE DEF paired
    <2> QED BY <1>1, <1>2 DEF Entries
  <1>6. next = [fill |-> acc.fill, left |-> acc.left - paired, queue |-> kept, pairs |-> pairs]
    BY DEF PairWith
  <1> HIDE DEF paired, gain, rest, pair
  <1>7. kept \in Seq(Entries) /\ pairs \in Seq(Pairs)
    BY <1>1, <1>4, <1>5
  <1>8. Left(kept) = Left(acc.queue) + e.left - paired /\ Left(acc.queue) \in Int
    <2>1. Left(acc.queue) = TotalOf(acc.queue, LeftOf) /\ LeftOf \in [Entries -> Int] /\ Left(acc.queue) \in Int
      BY <1>1, LeftIsTotal
    <2>2. CASE e.left > paired
      <3>1. TotalOf(Append(acc.queue, rest), LeftOf) = TotalOf(acc.queue, LeftOf) + LeftOf[rest]
        BY <1>1, <1>5, <2>1, TotalAppend
      <3>2. LeftOf[rest] = rest.left
        BY <1>5 DEF LeftOf
      <3>3. Left(Append(acc.queue, rest)) = TotalOf(Append(acc.queue, rest), LeftOf)
        <4>1. Append(acc.queue, rest) \in Seq(Entries)
          BY <1>1, <1>5
        <4> QED BY <4>1, LeftIsTotal
      <3> QED BY <1>1, <1>2, <1>5, <2>1, <2>2, <3>1, <3>2, <3>3
    <2>3. CASE ~(e.left > paired)
      BY <1>1, <1>2, <2>1, <2>3
    <2> QED BY <2>2, <2>3
  <1> HIDE DEF kept, pairs, next
  <1>a. next = [fill |-> fill, left |-> acc.left - paired, queue |-> kept, pairs |-> pairs]
    BY <1>1, <1>6
  <1>b. acc.left - paired \in Nat
    BY <1>1, <1>2
  <1>9. next \in Meetings(fill) /\ next.left = acc.left - paired /\ next.queue = kept
    BY <1>7, <1>a, <1>b DEF Meetings
  <1>10. Left(next.queue) - Left(acc.queue) = e.left + next.left - acc.left
    BY <1>1, <1>2, <1>8, <1>9
  <1> QED BY <1>9, <1>10 DEF next

\* What a queue gives is what the fill takes, one entry further.
LEMMA GivesOneMore ==
  ASSUME NEW before \in Int, NEW inA \in Int, NEW inB \in Int, NEW all \in Int,
         NEW leftA \in Int, NEW leftB \in Int, NEW leftE \in Int,
         before - inA = all - leftA, inB - inA = leftE + leftB - leftA
  PROVE  (before + leftE) - inB = all - leftB
  OBVIOUS

\* A fill meets a queue: the queue gives what the fill takes.
LEMMA MeetsAll ==
  ASSUME NEW fill \in Rows, NEW q \in Seq(Entries), NEW pairs \in Seq(Pairs)
  PROVE  /\ Meet(fill, q, pairs) \in Meetings(fill)
         /\ Left(q) - Left(Meet(fill, q, pairs).queue) = fill.quantity - Meet(fill, q, pairs).left
  <1> DEFINE N == Len(q)
             V == Meetings(fill)
             base == [fill |-> fill, left |-> fill.quantity, queue |-> <<>>, pairs |-> pairs]
             step == [i \in 1 .. N |-> [a \in V |-> PairWith(a, q[i])]]
             Good(f) == f = [i \in 0 .. N |-> IF i = 0 THEN base ELSE PairWith(f[i - 1], q[i])]
             it == CHOOSE f : Good(f)
  <1>1. N \in Nat /\ \A i \in 1 .. N : q[i] \in Entries
    OBVIOUS
  <1>2. base \in V
    <2>1. fill.quantity \in Nat
      BY DEF Rows
    <2> QED BY <2>1 DEF Meetings
  <1>3. step \in [1 .. N -> [V -> V]]
    <2>1. ASSUME NEW i \in 1 .. N, NEW a \in V PROVE PairWith(a, q[i]) \in V
      BY <1>1, <2>1, MeetsOne
    <2> QED BY <2>1
  <1>4. PICK g \in [0 .. N -> V] : Along(g, N, base, step)
    <2> HIDE DEF N, V, base, step
    <2> QED BY <1>1, <1>2, <1>3, Recursion
  <1>5. g[0] = base /\ \A i \in 1 .. N : i - 1 \in 0 .. N /\ g[i - 1] \in V /\ g[i] = PairWith(g[i - 1], q[i])
    <2>1. ASSUME NEW i \in 1 .. N PROVE i - 1 \in 0 .. N /\ g[i - 1] \in V /\ g[i] = PairWith(g[i - 1], q[i])
      <3>1. i - 1 \in 0 .. N
        BY <1>1
      <3>2. g[i - 1] \in V
        <4> HIDE DEF V, N
        <4> QED BY <1>4, <3>1
      <3>3. g[i] = step[i][g[i - 1]]
        <4> HIDE DEF step, V, base
        <4> QED BY <1>4 DEF Along
      <3> HIDE DEF V, N
      <3> QED BY <3>1, <3>2, <3>3
    <2> HIDE DEF V, N, base, step
    <2> QED BY <1>4, <2>1 DEF Along
  <1>6. Good(g)
    <2> HIDE DEF V, base, step
    <2> QED BY <1>4, <1>5
  <1>7. Good(it)
    <2> HIDE DEF Good
    <2> QED BY <1>6
  <1>8. it[0] = base /\ \A i \in 1 .. N : it[i] = PairWith(it[i - 1], q[i])
    <2> HIDE DEF it, base
    <2> QED BY <1>1, <1>7
  <1> DEFINE T == {k \in Nat : k \in 0 .. N =>
                      it[k] = g[k] /\ SumTo(q, LeftOf, k) - Left(g[k].queue) = fill.quantity - g[k].left}
  <1> HIDE DEF it, base, Good, step
  <1>9. 0 \in T
    <2>1. SumTo(q, LeftOf, 0) = 0 /\ Left(<<>>) = 0
      <3> DEFINE e == <<>>
      <3>1. e \in Seq(Entries) /\ Len(e) = 0
        OBVIOUS
      <3> HIDE DEF e
      <3>2. Left(e) = TotalOf(e, LeftOf) /\ LeftOf \in [Entries -> Int]
        BY <3>1, LeftIsTotal
      <3>3. SumTo(q, LeftOf, 0) = 0 /\ SumTo(e, LeftOf, 0) = 0
        BY <3>1, <3>2, SumToNext
      <3> QED BY <3>1, <3>2, <3>3 DEF TotalOf, e
    <2>2. g[0].queue = <<>> /\ g[0].left = fill.quantity /\ fill.quantity \in Nat
      <3> HIDE DEF V
      <3> QED BY <1>5 DEF base, Rows
    <2> HIDE DEF V, N
    <2> QED BY <1>5, <1>8, <2>1, <2>2
  <1>10. ASSUME NEW k \in T PROVE k + 1 \in T
    <2> SUFFICES ASSUME k + 1 \in 0 .. N
                 PROVE  /\ it[k + 1] = g[k + 1]
                        /\ SumTo(q, LeftOf, k + 1) - Left(g[k + 1].queue) = fill.quantity - g[k + 1].left
      OBVIOUS
    <2> DEFINE a == g[k]
               e == q[k + 1]
               b == g[k + 1]
    <2>1. k \in Nat /\ k \in 0 .. N /\ k + 1 \in 1 .. N /\ (k + 1) - 1 = k
      BY <1>1
    <2>2. it[k] = a /\ SumTo(q, LeftOf, k) - Left(a.queue) = fill.quantity - a.left
      BY <2>1
    <2>3. a \in V /\ b = PairWith(a, e) /\ e \in Entries /\ it[k + 1] = PairWith(it[k], e)
      <3> HIDE DEF V, N
      <3> QED BY <1>1, <1>5, <1>8, <2>1
    <2>4. b \in V /\ Left(b.queue) - Left(a.queue) = e.left + b.left - a.left
      <3> HIDE DEF a, b, e
      <3> QED BY <2>3, MeetsOne
    <2>5. a.left \in Nat /\ b.left \in Nat /\ e.left \in Nat /\ Left(a.queue) \in Int /\ Left(b.queue) \in Int
      <3> HIDE DEF a, b, e
      <3>1. a.queue \in Seq(Entries) /\ b.queue \in Seq(Entries) /\ a.left \in Nat /\ b.left \in Nat /\ e.left \in Nat
        BY <2>3, <2>4 DEF Meetings, Entries
      <3> QED BY <3>1, LeftIsTotal
    <2>6. SumTo(q, LeftOf, k + 1) = SumTo(q, LeftOf, k) + e.left /\ SumTo(q, LeftOf, k) \in Int
      <3> DEFINE j == k + 1
      <3>1. j \in 1 .. Len(q) /\ j - 1 = k /\ k \in 0 .. Len(q) /\ LeftOf \in [Entries -> Int]
        BY <2>1, LeftIsTotal
      <3>2. LeftOf[q[j]] = e.left
        BY <2>3 DEF LeftOf
      <3> HIDE DEF j, e
      <3>3. SumTo(q, LeftOf, j) = SumTo(q, LeftOf, j - 1) + LeftOf[q[j]]
        BY <3>1, SumToNext
      <3>4. SumTo(q, LeftOf, k) \in Int
        BY <3>1, SumToNext
      <3> QED BY <3>1, <3>2, <3>3, <3>4 DEF j
    <2>7. fill.quantity \in Nat
      BY DEF Rows
    <2> HIDE DEF a, b, e
    <2>8. SumTo(q, LeftOf, k + 1) - Left(b.queue) = fill.quantity - b.left
      <3> DEFINE before == SumTo(q, LeftOf, k)
                 after == SumTo(q, LeftOf, k + 1)
                 inA == Left(a.queue)
                 inB == Left(b.queue)
                 all == fill.quantity
                 leftA == a.left
                 leftB == b.left
                 leftE == e.left
      <3>1. /\ before - inA = all - leftA /\ inB - inA = leftE + leftB - leftA /\ after = before + leftE
            /\ before \in Int /\ inA \in Int /\ inB \in Int
            /\ all \in Int /\ leftA \in Int /\ leftB \in Int /\ leftE \in Int
        BY <2>2, <2>4, <2>5, <2>6, <2>7
      <3> HIDE DEF before, after, inA, inB, all, leftA, leftB, leftE
      <3>2. (before + leftE) - inB = all - leftB
        BY <3>1, GivesOneMore
      <3> QED BY <3>1, <3>2 DEF after, inB, all, leftB
    <2> QED BY <2>2, <2>3, <2>8 DEF b
  <1>11. T = Nat
    <2>1. T \in SUBSET Nat
      OBVIOUS
    <2> HIDE DEF T
    <2> QED BY <1>9, <1>10, <2>1, SetInduction
  <1>12. it[N] = g[N] /\ SumTo(q, LeftOf, N) - Left(g[N].queue) = fill.quantity - g[N].left
    <2>1. N \in T /\ N \in 0 .. N
      <3> HIDE DEF T, N
      <3> QED BY <1>1, <1>11
    <2> HIDE DEF N, V
    <2> QED BY <2>1
  <1>13. Meet(fill, q, pairs) = it[N]
    BY DEF Meet, it, Good, base
  <1>14. g[N] \in V
    <2>1. N \in 0 .. N
      BY <1>1
    <2> HIDE DEF V, N
    <2> QED BY <1>4, <2>1
  <1>15. SumTo(q, LeftOf, N) = Left(q)
    BY LeftIsTotal DEF TotalOf
  <1> HIDE DEF N
  <1> QED BY <1>12, <1>13, <1>14, <1>15

\* Longs less shorts that a pairing has left over.
Open(acc) == Left(acc.BUY) - Left(acc.SELL)

LEMMA JoinsLeft ==
  ASSUME NEW fill \in Rows, NEW q \in Seq(Entries), NEW left \in Nat
  PROVE  Join(q, fill, left) \in Seq(Entries) /\ Left(Join(q, fill, left)) = Left(q) + left
  <1> DEFINE e == [order |-> fill.order, price |-> fill.price, left |-> left]
  <1>1. e \in Entries /\ LeftOf[e] = left
    BY DEF Rows, Entries, LeftOf
  <1>2. Left(q) = TotalOf(q, LeftOf) /\ LeftOf \in [Entries -> Int] /\ Left(q) \in Int
    BY LeftIsTotal
  <1>3. CASE left = 0
    BY <1>2, <1>3 DEF Join
  <1>4. CASE left # 0
    <2>1. Join(q, fill, left) = Append(q, e)
      BY <1>4 DEF Join
    <2> HIDE DEF e
    <2>2. Append(q, e) \in Seq(Entries)
      BY <1>1
    <2>3. Left(Append(q, e)) = TotalOf(Append(q, e), LeftOf)
      BY <2>2, LeftIsTotal
    <2>4. TotalOf(Append(q, e), LeftOf) = TotalOf(q, LeftOf) + LeftOf[e]
      BY <1>1, <1>2, TotalAppend
    <2> QED BY <1>1, <1>2, <2>1, <2>2, <2>3, <2>4
  <1> QED BY <1>3, <1>4

\* What a fill takes of a queue and what is left of it are all of it, in either
\* direction.
LEMMA TakesAndJoins ==
  ASSUME NEW q \in Int, NEW after \in Int, NEW own \in Int, NEW left \in Int, NEW n \in Int,
         q - after = n - left
  PROVE  (own + left) - after = own - q + n /\ after - (own + left) = q - own + (-n)
  OBVIOUS

LEMMA PairsOne ==
  ASSUME NEW fill \in Rows, NEW acc \in Pairings
  PROVE  /\ PairFill(acc, fill) \in Pairings
         /\ Open(PairFill(acc, fill)) = Open(acc) + (IF fill.side \in Sides THEN Signed(fill.side, fill.quantity) ELSE 0)
         /\ Open(acc) \in Int
  <1>1. /\ acc.pairs \in Seq(Pairs) /\ acc.BUY \in Seq(Entries) /\ acc.SELL \in Seq(Entries)
        /\ fill.quantity \in Nat
    BY DEF Pairings, Rows
  <1>2. Left(acc.BUY) \in Int /\ Left(acc.SELL) \in Int
    BY <1>1, LeftIsTotal
  <1>3. ASSUME NEW q \in Seq(Entries), NEW own \in Seq(Entries)
        PROVE  LET met == Meet(fill, q, acc.pairs)
               IN /\ met.pairs \in Seq(Pairs) /\ met.queue \in Seq(Entries)
                  /\ Join(own, fill, met.left) \in Seq(Entries)
                  /\ Left(Join(own, fill, met.left)) - Left(met.queue) = Left(own) - Left(q) + fill.quantity
                  /\ Left(met.queue) - Left(Join(own, fill, met.left)) = Left(q) - Left(own) + (-fill.quantity)
    <2> DEFINE met == Meet(fill, q, acc.pairs)
    <2>1. met \in Meetings(fill) /\ Left(q) - Left(met.queue) = fill.quantity - met.left
      BY <1>1, MeetsAll
    <2> HIDE DEF met
    <2>2. met.left \in Nat /\ met.queue \in Seq(Entries) /\ met.pairs \in Seq(Pairs)
      BY <2>1 DEF Meetings
    <2>3. Join(own, fill, met.left) \in Seq(Entries) /\ Left(Join(own, fill, met.left)) = Left(own) + met.left
      BY <2>2, JoinsLeft
    <2>4. Left(own) \in Int /\ Left(q) \in Int /\ Left(met.queue) \in Int
      BY <2>2, LeftIsTotal
    <2>5. /\ Left(Join(own, fill, met.left)) - Left(met.queue) = Left(own) - Left(q) + fill.quantity
          /\ Left(met.queue) - Left(Join(own, fill, met.left)) = Left(q) - Left(own) + (-fill.quantity)
      <3> DEFINE l == met.left
                 n == fill.quantity
                 after == Left(met.queue)
                 mine == Left(own)
                 before == Left(q)
      <3>1. l \in Int /\ n \in Int /\ after \in Int /\ mine \in Int /\ before \in Int /\ before - after = n - l
        BY <1>1, <2>1, <2>2, <2>4
      <3>2. Left(Join(own, fill, l)) = mine + l
        BY <2>3
      <3> HIDE DEF l, n, after, mine, before
      <3>3. (mine + l) - after = mine - before + n /\ after - (mine + l) = before - mine + (-n)
        BY <3>1, TakesAndJoins
      <3> QED BY <3>2, <3>3 DEF l, n, after, mine, before
    <2> QED BY <2>2, <2>3, <2>5 DEF met
  <1>4. CASE fill.side = "BUY"
    <2> DEFINE met == Meet(fill, acc.SELL, acc.pairs)
               own == Join(acc.BUY, fill, met.left)
    <2>1. PairFill(acc, fill) = [pairs |-> met.pairs, BUY |-> own, SELL |-> met.queue]
      BY <1>4 DEF PairFill
    <2>2. /\ met.pairs \in Seq(Pairs) /\ met.queue \in Seq(Entries) /\ own \in Seq(Entries)
          /\ Left(own) - Left(met.queue) = Left(acc.BUY) - Left(acc.SELL) + fill.quantity
      BY <1>1, <1>3
    <2> HIDE DEF met, own
    <2> QED BY <1>1, <1>2, <1>4, <2>1, <2>2 DEF Pairings, Open, Signed, Sides
  <1>5. CASE fill.side = "SELL"
    <2> DEFINE met == Meet(fill, acc.BUY, acc.pairs)
               own == Join(acc.SELL, fill, met.left)
    <2>1. PairFill(acc, fill) = [pairs |-> met.pairs, BUY |-> met.queue, SELL |-> own]
      BY <1>5 DEF PairFill
    <2>2. /\ met.pairs \in Seq(Pairs) /\ met.queue \in Seq(Entries) /\ own \in Seq(Entries)
          /\ Left(met.queue) - Left(own) = Left(acc.BUY) - Left(acc.SELL) + (-fill.quantity)
      BY <1>1, <1>3
    <2> HIDE DEF met, own
    <2> QED BY <1>1, <1>2, <1>5, <2>1, <2>2 DEF Pairings, Open, Signed, Sides
  <1>6. CASE fill.side \notin Sides
    <2>1. PairFill(acc, fill) = acc
      BY <1>6 DEF PairFill, Sides
    <2> QED BY <1>2, <1>6, <2>1 DEF Open
  <1>7. Open(acc) \in Int
    BY <1>2 DEF Open
  <1> QED BY <1>4, <1>5, <1>6, <1>7 DEF Sides

\* What pairing leaves over of a symbol is what its rows add up to.
LEMMA RemainderIsTotal ==
  ASSUME NEW rows \in Seq(Rows), NEW s \in Symbols
  PROVE  OpenRemainder(rows, s) = TotalOf(rows, RowNet(s))
  <1> DEFINE N == Len(rows)
             W == RowNet(s)
             base == [pairs |-> <<>>, BUY |-> <<>>, SELL |-> <<>>]
             Next1(a, r) == IF r.symbol = s THEN PairFill(a, r) ELSE a
             step == [i \in 1 .. N |-> [a \in Pairings |-> Next1(a, rows[i])]]
             Good(f) == f = [i \in 0 .. N |-> IF i = 0 THEN base
                                              ELSE IF rows[i].symbol = s THEN PairFill(f[i - 1], rows[i])
                                              ELSE f[i - 1]]
             it == CHOOSE f : Good(f)
  <1>1. N \in Nat /\ (\A i \in 1 .. N : rows[i] \in Rows) /\ W \in [Rows -> Int]
    BY NetTypes
  <1>2. base \in Pairings
    BY DEF Pairings
  <1>a. ASSUME NEW a \in Pairings, NEW r \in Rows
        PROVE  Next1(a, r) \in Pairings /\ Open(Next1(a, r)) = Open(a) + W[r] /\ Open(a) \in Int
    <2>1. /\ PairFill(a, r) \in Pairings /\ Open(a) \in Int
          /\ Open(PairFill(a, r)) = Open(a) + (IF r.side \in Sides THEN Signed(r.side, r.quantity) ELSE 0)
      BY PairsOne
    <2>2. W[r] = IF r.symbol = s /\ r.side \in Sides THEN Signed(r.side, r.quantity) ELSE 0
      BY DEF RowNet
    <2> HIDE DEF W
    <2>3. CASE r.symbol = s
      BY <2>1, <2>2, <2>3
    <2>4. CASE r.symbol # s
      BY <2>1, <2>2, <2>4
    <2> QED BY <2>3, <2>4
  <1> HIDE DEF W
  <1>3. step \in [1 .. N -> [Pairings -> Pairings]]
    <2> HIDE DEF Next1
    <2>1. ASSUME NEW i \in 1 .. N, NEW a \in Pairings PROVE Next1(a, rows[i]) \in Pairings
      BY <1>1, <1>a
    <2> QED BY <2>1
  <1>4. PICK g \in [0 .. N -> Pairings] : Along(g, N, base, step)
    <2> HIDE DEF N, base, step
    <2> QED BY <1>1, <1>2, <1>3, Recursion
  <1>5. g[0] = base /\ \A i \in 1 .. N : g[i - 1] \in Pairings /\ g[i] = Next1(g[i - 1], rows[i])
    <2>1. ASSUME NEW i \in 1 .. N PROVE g[i - 1] \in Pairings /\ g[i] = Next1(g[i - 1], rows[i])
      <3>1. i - 1 \in 0 .. N
        BY <1>1
      <3>2. g[i - 1] \in Pairings
        <4> HIDE DEF N
        <4> QED BY <1>4, <3>1
      <3>3. g[i] = step[i][g[i - 1]]
        <4> HIDE DEF step, base
        <4> QED BY <1>4 DEF Along
      <3> HIDE DEF N, Next1
      <3> QED BY <3>2, <3>3
    <2> HIDE DEF N, base, step, Next1
    <2> QED BY <1>4, <2>1 DEF Along
  <1>6. Good(g)
    <2> HIDE DEF base, step
    <2> QED BY <1>4, <1>5
  <1>7. Good(it)
    <2> HIDE DEF Good
    <2> QED BY <1>6
  <1>8. it[0] = base /\ \A i \in 1 .. N : it[i] = Next1(it[i - 1], rows[i])
    <2> HIDE DEF it, base
    <2>1. it = [i \in 0 .. N |-> IF i = 0 THEN base
                                ELSE IF rows[i].symbol = s THEN PairFill(it[i - 1], rows[i])
                                ELSE it[i - 1]]
      BY <1>7
    <2> HIDE DEF Good
    <2>2. it[0] = base
      <3>1. 0 \in 0 .. N
        BY <1>1
      <3> HIDE DEF N
      <3> QED BY <2>1, <3>1
    <2>3. ASSUME NEW i \in 1 .. N PROVE it[i] = Next1(it[i - 1], rows[i])
      <3>1. i \in 0 .. N /\ i # 0
        BY <1>1
      <3> HIDE DEF N
      <3>2. it[i] = IF i = 0 THEN base
                    ELSE IF rows[i].symbol = s THEN PairFill(it[i - 1], rows[i]) ELSE it[i - 1]
        BY <2>1, <3>1
      <3> QED BY <3>1, <3>2
    <2> QED BY <2>2, <2>3
  <1> DEFINE T == {k \in Nat : k \in 0 .. N => it[k] = g[k] /\ Open(g[k]) = SumTo(rows, W, k)}
  <1> HIDE DEF it, base, Good, step, Next1
  <1>9. 0 \in T
    <2>1. SumTo(rows, W, 0) = 0
      BY <1>1, SumToNext
    <2>2. Open(base) = 0
      <3> DEFINE e == <<>>
      <3>1. e \in Seq(Entries) /\ Len(e) = 0
        OBVIOUS
      <3>2. base.BUY = e /\ base.SELL = e
        BY DEF base
      <3> HIDE DEF e
      <3>3. Left(e) \in Int
        BY <3>1, LeftIsTotal
      <3> QED BY <3>2, <3>3 DEF Open
    <2> QED BY <1>5, <1>8, <2>1, <2>2
  <1>10. ASSUME NEW k \in T PROVE k + 1 \in T
    <2> SUFFICES ASSUME k + 1 \in 0 .. N
                 PROVE  it[k + 1] = g[k + 1] /\ Open(g[k + 1]) = SumTo(rows, W, k + 1)
      OBVIOUS
    <2>1. k \in Nat /\ k \in 0 .. N /\ k + 1 \in 1 .. N /\ (k + 1) - 1 = k
      BY <1>1
    <2>2. it[k] = g[k] /\ Open(g[k]) = SumTo(rows, W, k)
      BY <2>1
    <2>3. g[k] \in Pairings /\ rows[k + 1] \in Rows /\ g[k + 1] = Next1(g[k], rows[k + 1])
          /\ it[k + 1] = Next1(it[k], rows[k + 1])
      <3> HIDE DEF N
      <3> QED BY <1>1, <1>5, <1>8, <2>1
    <2>4. Open(g[k + 1]) = Open(g[k]) + W[rows[k + 1]]
      BY <1>a, <2>3
    <2>5. SumTo(rows, W, k + 1) = SumTo(rows, W, k) + W[rows[k + 1]]
      <3> DEFINE j == k + 1
      <3>1. j \in 1 .. Len(rows) /\ j - 1 = k
        BY <2>1
      <3> HIDE DEF j
      <3>2. SumTo(rows, W, j) = SumTo(rows, W, j - 1) + W[rows[j]]
        BY <1>1, <3>1, SumToNext
      <3> QED BY <3>1, <3>2 DEF j
    <2> QED BY <2>2, <2>3, <2>4, <2>5
  <1>11. T = Nat
    <2>1. T \in SUBSET Nat
      OBVIOUS
    <2> HIDE DEF T
    <2> QED BY <1>9, <1>10, <2>1, SetInduction
  <1>12. it[N] = g[N] /\ Open(g[N]) = SumTo(rows, W, N)
    <2>1. N \in T /\ N \in 0 .. N
      <3> HIDE DEF T, N
      <3> QED BY <1>1, <1>11
    <2> HIDE DEF N
    <2> QED BY <2>1
  <1>13. PairFills(rows, s) = it[N]
    BY DEF PairFills, it, Good, base
  <1>14. OpenRemainder(rows, s) = Open(PairFills(rows, s))
    BY DEF OpenRemainder, Open
  <1> HIDE DEF N
  <1> QED BY <1>12, <1>13, <1>14 DEF TotalOf, N, W

-----------------------------------------------------------------------------
\* What the engine publishes.

LEMMA NewsTells ==
  ASSUME BookInv, BookInv', FillsFollow, NEW x \in DOMAIN book', booked'[x] # booked[x]
  PROVE  /\ News(x) \in Seq(BusEvents)
         /\ \A o \in Orders : Cardinality(PlacesOf(News(x), FillOf(o)))
                                = IF o = x /\ book'[x].status = "FILLED" THEN 1 ELSE 0
         /\ \A s \in Symbols : TotalOf(News(x), EventNet(s))
                                 = IF book'[x].status = "FILLED" /\ book'[x].symbol = s
                                   THEN Signed(book'[x].side, book'[x].quantity) ELSE 0
  <1> DEFINE ord == book'[x]
             price == FillPrice(ord, ltp'[ord.symbol])
             n == booked'[x] - booked[x]
             first == FilledEvent(x, ord, price)
             last == PositionEvent(ord, n)
  <1>1. x \in Orders /\ ord \in OrderRecords /\ ltp' \in [Symbols -> Prices \cup {0}]
    BY DEF BookInv, PaperTypeOK
  <1>2. ord.symbol \in Symbols /\ ord.side \in Sides /\ ord.quantity \in Nat \ {0}
    BY <1>1 DEF OrderRecords
  <1>3. price \in Int
    <2>1. ltp'[ord.symbol] \in Prices \cup {0}
      BY <1>1, <1>2
    <2> HIDE DEF ord
    <2> QED BY <1>1, <2>1, PriceOfFill
  <1>4. n \in Nat \ {0}
    <2>1. booked \in [Orders -> Nat] /\ booked' \in [Orders -> Nat] /\ booked'[x] >= booked[x]
      BY DEF BookInv, PaperTypeOK, FillsFollow
    <2> QED BY <1>1, <2>1
  <1> HIDE DEF ord, price, n
  <1>5. /\ first \in BusEvents /\ first.topic = "filled" /\ first.order = x
        /\ first.symbol = ord.symbol /\ first.side = ord.side /\ first.quantity = ord.quantity
    BY <1>1, <1>2, <1>3 DEF FilledEvent, BusEvents
  <1>6. last \in BusEvents /\ last.topic = "position"
    BY <1>2, <1>4 DEF PositionEvent, BusEvents
  <1>7. News(x) = (IF ord.status = "FILLED" THEN <<first>> ELSE <<>>) \o <<last>>
    BY DEF News, ord, price, n
  <1> HIDE DEF first, last
  <1>8. CASE ord.status = "FILLED"
    <2> DEFINE a == <<first>>  b == <<last>>
    <2>1. a \in Seq(BusEvents) /\ b \in Seq(BusEvents)
      BY <1>5, <1>6
    <2>2. ASSUME NEW o \in Orders PROVE Cardinality(PlacesOf(a \o b, FillOf(o))) = IF o = x THEN 1 ELSE 0
      <3>1. Cardinality(PlacesOf(a, FillOf(o))) = IF o = x THEN 1 ELSE 0
        <4>1. first \in FillOf(o) <=> o = x
          BY <1>5 DEF FillOf
        <4> QED BY <4>1, PlacesOfFew
      <3>2. Cardinality(PlacesOf(b, FillOf(o))) = 0
        <4>1. last \notin FillOf(o)
          BY <1>6 DEF FillOf
        <4> QED BY <4>1, PlacesOfFew
      <3>3. Cardinality(PlacesOf(a \o b, FillOf(o)))
              = Cardinality(PlacesOf(a, FillOf(o))) + Cardinality(PlacesOf(b, FillOf(o)))
        <4> HIDE DEF a, b
        <4> QED BY <2>1, PlacesJoin
      <3> HIDE DEF a, b
      <3> QED BY <3>1, <3>2, <3>3
    <2>3. ASSUME NEW s \in Symbols
          PROVE  TotalOf(a \o b, EventNet(s)) = IF ord.symbol = s THEN Signed(ord.side, ord.quantity) ELSE 0
      <3>1. TotalOf(a, EventNet(s)) = EventNet(s)[first] /\ TotalOf(b, EventNet(s)) = EventNet(s)[last]
        BY <1>5, <1>6, NetTypes, TotalOfFew
      <3>2. EventNet(s)[first] = IF ord.symbol = s THEN Signed(ord.side, ord.quantity) ELSE 0
        BY <1>5 DEF EventNet
      <3>3. EventNet(s)[last] = 0 /\ EventNet(s)[first] \in Int
        <4>1. EventNet(s)[last] = 0
          BY <1>6 DEF EventNet
        <4> QED BY <1>5, <4>1, NetTypes
      <3>4. TotalOf(a \o b, EventNet(s)) = TotalOf(a, EventNet(s)) + TotalOf(b, EventNet(s))
        <4> HIDE DEF a, b
        <4> QED BY <2>1, NetTypes, TotalJoin
      <3> HIDE DEF a, b
      <3> QED BY <3>1, <3>2, <3>3, <3>4
    <2>4. a \o b \in Seq(BusEvents)
      BY <2>1
    <2>5. News(x) = a \o b
      BY <1>7, <1>8
    <2> HIDE DEF a, b
    <2> QED BY <1>8, <2>2, <2>3, <2>4, <2>5 DEF ord
  <1>9. CASE ord.status # "FILLED"
    <2> DEFINE b == <<last>>
    <2>1. b \in Seq(BusEvents)
      BY <1>6
    <2>2. News(x) = b
      <3>1. News(x) = <<>> \o b
        BY <1>7, <1>9
      <3> HIDE DEF b
      <3> QED BY <2>1, <3>1, ConcatEmptySeq
    <2>3. ASSUME NEW o \in Orders PROVE Cardinality(PlacesOf(b, FillOf(o))) = 0
      <3>1. last \notin FillOf(o)
        BY <1>6 DEF FillOf
      <3> QED BY <3>1, PlacesOfFew
    <2>4. ASSUME NEW s \in Symbols PROVE TotalOf(b, EventNet(s)) = 0
      <3>1. TotalOf(b, EventNet(s)) = EventNet(s)[last]
        BY <1>6, NetTypes, TotalOfFew
      <3> QED BY <1>6, <3>1 DEF EventNet
    <2> HIDE DEF b
    <2> QED BY <1>9, <2>1, <2>2, <2>3, <2>4 DEF ord
  <1> QED BY <1>8, <1>9

\* The events of a step, told order by order.
Hit == {o \in DOMAIN book' : booked'[o] # booked[o]}

InTurn(events, turns, g) ==
  /\ Len(turns) \in Nat /\ NoneTwice(turns)
  /\ \A i \in 1 .. Len(turns) : turns[i] \in Hit
  /\ \A x \in Hit : \E i \in 1 .. Len(turns) : turns[i] = x
  /\ g \in [0 .. Len(turns) -> Seq(BusEvents)] /\ g[0] = <<>> /\ events = g[Len(turns)]
  /\ \A i \in 1 .. Len(turns) : g[i - 1] \in Seq(BusEvents) /\ g[i] = g[i - 1] \o News(turns[i])

\* The orders told before turn k + 1.
ToldBy(turns, k, o) == \E i \in 1 .. k : turns[i] = o

LEMMA EventsInTurn ==
  ASSUME BookInv, StepKeeps, NEW events \in FillEvents
  PROVE  \E turns, g : InTurn(events, turns, g)
  <1>0. BookInv' /\ FillsFollow
    BY DEF StepKeeps
  <1>1. PICK turns \in SetToSeqs(Hit) : events = FlattenSeq([i \in DOMAIN turns |-> News(turns[i])])
    BY DEF FillEvents, Hit
  <1>2. IsFiniteSet(Hit)
    <2>1. Hit \subseteq Orders
      BY <1>0 DEF BookInv, PaperTypeOK, Hit
    <2> QED BY <2>1, PaperAssumption, FS_Subset
  <1> DEFINE n == Len(turns)
             seqs == [i \in 1 .. n |-> News(turns[i])]
  <1>3. /\ n \in Nat /\ turns \in Seq(Hit) /\ NoneTwice(turns)
        /\ \A i \in 1 .. n : turns[i] \in Hit
        /\ \A x \in Hit : \E i \in 1 .. n : turns[i] = x
    <2>1. n \in Nat /\ turns \in Seq(Hit) /\ turns \in [1 .. n -> Hit]
      BY <1>1, <1>2, TurnsOf
    <2>2. \A x \in Hit : \E i \in 1 .. n : turns[i] = x
      BY <1>1, <1>2, TurnsOf
    <2>3. NoneTwice(turns)
      BY <1>1, <1>2, TurnsOf DEF NoneTwice
    <2> QED BY <2>1, <2>2, <2>3
  <1>4. ASSUME NEW x \in Hit PROVE News(x) \in Seq(BusEvents)
    BY <1>0, NewsTells DEF Hit
  <1>5. events = FlattenSeq(seqs) /\ seqs \in Seq(Seq(BusEvents)) /\ Len(seqs) = n
    <2>1. DOMAIN turns = 1 .. n
      BY <1>3
    <2>2. seqs \in [1 .. n -> Seq(BusEvents)]
      <3> HIDE DEF n
      <3> QED BY <1>3, <1>4
    <2>3. seqs \in Seq(Seq(BusEvents)) /\ Len(seqs) = n
      <3> HIDE DEF seqs, n
      <3> QED BY <1>3, <2>2
    <2> QED BY <1>1, <2>1, <2>3
  <1>6. PICK g \in [0 .. n -> Seq(BusEvents)] : Along(g, n, <<>>, Joining(seqs, BusEvents)) /\ events = g[n]
    <2> HIDE DEF seqs, n
    <2> QED BY <1>5, FlattenAlong
  <1>7. g[0] = <<>>
    BY <1>6 DEF Along
  <1>8. ASSUME NEW i \in 1 .. n PROVE g[i - 1] \in Seq(BusEvents) /\ g[i] = g[i - 1] \o News(turns[i])
    <2>1. i - 1 \in 0 .. n
      BY <1>3
    <2>2. g[i - 1] \in Seq(BusEvents)
      BY <1>6, <2>1
    <2>3. g[i] = Joining(seqs, BusEvents)[i][g[i - 1]]
      BY <1>6 DEF Along
    <2>4. Joining(seqs, BusEvents)[i][g[i - 1]] = g[i - 1] \o seqs[i]
      <3>1. i \in 1 .. Len(seqs)
        BY <1>5
      <3> HIDE DEF seqs
      <3> QED BY <2>2, <3>1 DEF Joining
    <2> QED BY <2>2, <2>3, <2>4
  <1>9. InTurn(events, turns, g)
    <2> HIDE DEF seqs
    <2> QED BY <1>3, <1>6, <1>7, <1>8 DEF InTurn
  <1> QED BY <1>9

\* One turn further.
Turn(turns, g, k) ==
  /\ k \in 0 .. Len(turns) /\ turns[k + 1] \in Hit
  /\ g[k] \in Seq(BusEvents) /\ News(turns[k + 1]) \in Seq(BusEvents)
  /\ g[k + 1] = g[k] \o News(turns[k + 1])
  /\ ~ToldBy(turns, k, turns[k + 1])
  /\ \A o : ToldBy(turns, k + 1, o) <=> ToldBy(turns, k, o) \/ o = turns[k + 1]

LEMMA OneTurn ==
  ASSUME BookInv, StepKeeps, NEW events, NEW turns, NEW g, InTurn(events, turns, g),
         NEW k \in Nat, k + 1 \in 0 .. Len(turns)
  PROVE  Turn(turns, g, k)
  <1>1. Len(turns) \in Nat /\ k \in 0 .. Len(turns) /\ k + 1 \in 1 .. Len(turns) /\ (k + 1) - 1 = k
    BY DEF InTurn
  <1>2. turns[k + 1] \in Hit /\ g[k] \in Seq(BusEvents) /\ g[k + 1] = g[k] \o News(turns[k + 1])
    BY <1>1 DEF InTurn
  <1>3. News(turns[k + 1]) \in Seq(BusEvents)
    <2> DEFINE x == turns[k + 1]
    <2>1. x \in DOMAIN book' /\ booked'[x] # booked[x]
      BY <1>2 DEF Hit
    <2> HIDE DEF x
    <2>2. News(x) \in Seq(BusEvents)
      BY <2>1, NewsTells DEF StepKeeps
    <2> QED BY <2>2 DEF x
  <1>4. ~ToldBy(turns, k, turns[k + 1])
    <2>1. \A i \in 1 .. k : i \in 1 .. Len(turns) /\ i # k + 1
      BY <1>1
    <2> QED BY <1>1, <2>1 DEF InTurn, NoneTwice, ToldBy
  <1>5. ASSUME NEW o PROVE ToldBy(turns, k + 1, o) <=> ToldBy(turns, k, o) \/ o = turns[k + 1]
    BY <1>1 DEF ToldBy
  <1> QED BY <1>1, <1>2, <1>3, <1>4, <1>5 DEF Turn

\* Each order that a step fills is told once, and no other order.
NewlyFilled(o) == IsFilled(o)' /\ ~IsFilled(o)

LEMMA EventsTell ==
  ASSUME BookInv, StepKeeps, NEW events \in FillEvents
  PROVE  /\ events \in Seq(BusEvents)
         /\ \A o \in Orders : Cardinality(PlacesOf(events, FillOf(o))) = IF NewlyFilled(o) THEN 1 ELSE 0
  <1>0. BookInv' /\ ClosedKept /\ FillsFollow
    BY DEF StepKeeps
  <1>1. PICK turns, g : InTurn(events, turns, g)
    BY EventsInTurn
  <1> DEFINE n == Len(turns)
  <1>2. n \in Nat /\ n \in 0 .. n /\ g[0] = <<>> /\ events = g[n] /\ g[n] \in Seq(BusEvents)
    BY <1>1 DEF InTurn
  <1>3. ASSUME NEW o \in Orders
        PROVE  Cardinality(PlacesOf(events, FillOf(o))) = IF NewlyFilled(o) THEN 1 ELSE 0
    <2> DEFINE E == FillOf(o)
               Told(k) == ToldBy(turns, k, o) /\ book'[o].status = "FILLED"
               T == {k \in Nat : k \in 0 .. n => Cardinality(PlacesOf(g[k], E)) = IF Told(k) THEN 1 ELSE 0}
    <2>1. 0 \in T
      <3>1. ~Told(0)
        BY DEF ToldBy
      <3> HIDE DEF E, Told
      <3> QED BY <1>2, <3>1, PlacesOfFew
    <2>2. ASSUME NEW k \in T PROVE k + 1 \in T
      <3> SUFFICES ASSUME k + 1 \in 0 .. n
                   PROVE  Cardinality(PlacesOf(g[k + 1], E)) = IF Told(k + 1) THEN 1 ELSE 0
        OBVIOUS
      <3> DEFINE x == turns[k + 1]
      <3>0. k \in Nat /\ k + 1 \in 0 .. Len(turns)
        OBVIOUS
      <3>a. Turn(turns, g, k)
        <4> HIDE DEF T, n
        <4> QED BY <1>1, <3>0, OneTurn
      <3>1. /\ k \in 0 .. n /\ x \in Hit /\ g[k] \in Seq(BusEvents) /\ News(x) \in Seq(BusEvents)
            /\ g[k + 1] = g[k] \o News(x) /\ ~ToldBy(turns, k, x)
            /\ ToldBy(turns, k + 1, o) <=> ToldBy(turns, k, o) \/ o = x
        <4> HIDE DEF T
        <4> QED BY <3>a DEF Turn
      <3>2. Cardinality(PlacesOf(g[k], E)) = IF Told(k) THEN 1 ELSE 0
        BY <3>1
      <3> HIDE DEF x, n, T
      <3>3. Cardinality(PlacesOf(News(x), E)) = IF o = x /\ book'[x].status = "FILLED" THEN 1 ELSE 0
        BY <1>0, <3>1, NewsTells DEF Hit
      <3>4. Cardinality(PlacesOf(g[k + 1], E)) = Cardinality(PlacesOf(g[k], E)) + Cardinality(PlacesOf(News(x), E))
        <4> HIDE DEF E
        <4> QED BY <3>1, PlacesJoin
      <3> HIDE DEF E
      <3> QED BY <3>1, <3>2, <3>3, <3>4
    <2>3. T = Nat
      <3>1. T \in SUBSET Nat
        OBVIOUS
      <3> HIDE DEF T
      <3> QED BY <2>1, <2>2, <3>1, SetInduction
    <2>4. Cardinality(PlacesOf(g[n], E)) = IF Told(n) THEN 1 ELSE 0
      <3>1. n \in T /\ n \in 0 .. n
        <4> HIDE DEF T, n
        <4> QED BY <1>2, <2>3
      <3> HIDE DEF n, E, Told
      <3> QED BY <3>1
    <2>5. ToldBy(turns, n, o) <=> o \in Hit
      BY <1>1 DEF InTurn, ToldBy
    <2>6. o \in Hit /\ book'[o].status = "FILLED" <=> NewlyFilled(o)
      BY <1>0 DEF ClosedKept, Closed, FillsFollow, NewlyFilled, IsFilled, Hit
    <2> HIDE DEF n
    <2> QED BY <1>2, <2>4, <2>5, <2>6
  <1> QED BY <1>2, <1>3

\* Without the fill model the fills told in a step are what it books: after k turns, what
\* the orders told so far bought.
BoughtBy(turns, k, s) == [o \in Orders |-> IF ToldBy(turns, k, o) THEN Bought(s)'[o] ELSE Bought(s)[o]]

LEMMA EventsAddUp ==
  ASSUME BookInv, StepKeeps, NEW events \in FillEvents, ~realism, NEW s \in Symbols
  PROVE  /\ SumFunction(Bought(s)) \in Int /\ TotalOf(events, EventNet(s)) \in Int
         /\ SumFunction(Bought(s)') = SumFunction(Bought(s)) + TotalOf(events, EventNet(s))
  <1>0. /\ BookInv' /\ FillsFollow /\ IsFiniteSet(Orders) /\ DOMAIN book' \subseteq Orders
        /\ booked \in [Orders -> Nat] /\ booked' \in [Orders -> Nat]
    BY PaperAssumption DEF StepKeeps, BookInv, PaperTypeOK
  <1>1. PICK turns, g : InTurn(events, turns, g)
    BY EventsInTurn
  <1> DEFINE n == Len(turns)
             W == EventNet(s)
             B(k) == BoughtBy(turns, k, s)
  <1>2. /\ n \in Nat /\ n \in 0 .. n /\ g[0] = <<>> /\ events = g[n] /\ g[n] \in Seq(BusEvents)
        /\ W \in [BusEvents -> Int]
    BY <1>1, NetTypes DEF InTurn
  <1>3. Bought(s) \in [Orders -> Int] /\ Bought(s)' \in [Orders -> Int]
    BY <1>0 DEF Bought, Signed
  <1>4. ASSUME NEW k PROVE B(k) \in [Orders -> Int]
    BY <1>3 DEF BoughtBy
  <1>5. B(0) = Bought(s) /\ SumFunction(Bought(s)) \in Int
    <2>1. \A o \in Orders : ~ToldBy(turns, 0, o)
      BY DEF ToldBy
    <2>2. B(0) = [o \in Orders |-> Bought(s)[o]]
      BY <2>1 DEF BoughtBy
    <2>3. SumFunction(Bought(s)) \in Int
      BY <1>0, <1>3, SumIsNumber
    <2> QED BY <1>3, <2>2, <2>3
  <1>6. B(n) = Bought(s)'
    <2>1. ASSUME NEW o \in Orders, ~ToldBy(turns, n, o) PROVE Bought(s)[o] = Bought(s)'[o]
      <3>1. o \notin Hit
        BY <1>1, <2>1 DEF InTurn, ToldBy
      <3>2. CASE o \in DOMAIN book
        <4>1. o \in DOMAIN book' /\ book'[o].symbol = book[o].symbol /\ book'[o].side = book[o].side
          BY <1>0, <3>2 DEF FillsFollow
        <4>2. booked'[o] = booked[o]
          BY <3>1, <4>1 DEF Hit
        <4> QED BY <3>2, <4>1, <4>2 DEF Bought
      <3>3. CASE o \notin DOMAIN book
        <4>1. booked[o] = 0
          BY <3>3 DEF BookInv, Unplaced
        <4>2. o \in DOMAIN book' => booked'[o] = 0
          BY <3>1, <4>1 DEF Hit
        <4> QED BY <3>3, <4>2 DEF Bought, Signed
      <3> QED BY <3>2, <3>3
    <2>2. B(n) = [o \in Orders |-> Bought(s)'[o]]
      BY <2>1 DEF BoughtBy
    <2> QED BY <1>3, <2>2
  <1> HIDE DEF B
  <1> DEFINE T == {k \in Nat : k \in 0 .. n =>
                      TotalOf(g[k], W) \in Int /\ SumFunction(B(k)) = SumFunction(Bought(s)) + TotalOf(g[k], W)}
  <1>7. 0 \in T
    <2> DEFINE e == <<>>
    <2>1. e \in Seq(BusEvents) /\ Len(e) = 0
      OBVIOUS
    <2> HIDE DEF e, W
    <2>2. TotalOf(e, W) = 0
      BY <1>2, <2>1, SumToNext DEF TotalOf
    <2> QED BY <1>2, <1>5, <2>2 DEF e
  <1>8. ASSUME NEW k \in T PROVE k + 1 \in T
    <2> SUFFICES ASSUME k + 1 \in 0 .. n
                 PROVE  /\ TotalOf(g[k + 1], W) \in Int
                        /\ SumFunction(B(k + 1)) = SumFunction(Bought(s)) + TotalOf(g[k + 1], W)
      OBVIOUS
    <2> DEFINE x == turns[k + 1]
               d == IF book'[x].symbol = s THEN Signed(book'[x].side, book'[x].quantity) ELSE 0
    <2>0. k \in Nat /\ k + 1 \in 0 .. Len(turns)
      OBVIOUS
    <2>1. /\ k \in 0 .. n /\ x \in Hit /\ g[k] \in Seq(BusEvents) /\ News(x) \in Seq(BusEvents)
          /\ g[k + 1] = g[k] \o News(x) /\ ~ToldBy(turns, k, x)
          /\ \A o : ToldBy(turns, k + 1, o) <=> ToldBy(turns, k, o) \/ o = x
      <3> HIDE DEF T
      <3>1. Turn(turns, g, k)
        <4> HIDE DEF n
        <4> QED BY <1>1, <2>0, OneTurn
      <3> QED BY <3>1 DEF Turn
    <2>2. TotalOf(g[k], W) \in Int /\ SumFunction(B(k)) = SumFunction(Bought(s)) + TotalOf(g[k], W)
      BY <2>1
    <2> HIDE DEF x, n, W, T
    <2>3. x \in DOMAIN book' /\ x \in Orders /\ booked'[x] # booked[x]
      BY <1>0, <2>1 DEF Hit
    <2>4. book'[x].status = "FILLED" /\ booked[x] = 0 /\ booked'[x] = book'[x].quantity
      BY <1>0, <2>3 DEF FillsFollow, FilledAtOnce
    <2>5. TotalOf(News(x), W) = d /\ d \in Int
      <3>1. TotalOf(News(x), W) = d
        BY <1>0, <2>3, <2>4, NewsTells DEF W
      <3>2. TotalOf(News(x), W) \in Int
        BY <1>2, <2>1, SumToNext
      <3> QED BY <3>1, <3>2
    <2>6. TotalOf(g[k + 1], W) = TotalOf(g[k], W) + TotalOf(News(x), W)
      BY <1>2, <2>1, TotalJoin
    <2>7. B(k + 1)[x] = B(k)[x] + d
      <3>1. B(k + 1)[x] = d
        BY <2>1, <2>3, <2>4 DEF B, BoughtBy, Bought
      <3>2. B(k)[x] = 0
        BY <2>1, <2>3, <2>4 DEF B, BoughtBy, Bought, Signed
      <3> HIDE DEF d
      <3> QED BY <2>5, <3>1, <3>2
    <2> HIDE DEF d
    <2>8. DifferAt(B(k), B(k + 1), x, Orders)
      BY <2>1 DEF B, BoughtBy, DifferAt
    <2>9. Shifts(B(k), B(k + 1), x, d)
      BY <1>4, <2>3, <2>5, <2>7, <2>8 DEF Shifts
    <2>10. SumFunction(B(k + 1)) = SumFunction(B(k)) + d
      BY <2>9, SumShifts
    <2> QED BY <1>5, <2>2, <2>5, <2>6, <2>10
  <1>9. T = Nat
    <2>1. T \in SUBSET Nat
      OBVIOUS
    <2> HIDE DEF T
    <2> QED BY <1>7, <1>8, <2>1, SetInduction
  <1>10. TotalOf(g[n], W) \in Int /\ SumFunction(B(n)) = SumFunction(Bought(s)) + TotalOf(g[n], W)
    <2>1. n \in T /\ n \in 0 .. n
      <3> HIDE DEF T, n
      <3> QED BY <1>2, <1>9
    <2> HIDE DEF n, W
    <2> QED BY <2>1
  <1> HIDE DEF n
  <1> QED BY <1>2, <1>5, <1>6, <1>10

-----------------------------------------------------------------------------
\* Steps.

\* As many events, or rows, of fills as now, and they add up to the same.
SameFills(q) ==
  /\ \A o \in Orders : Cardinality(PlacesOf(q, FillOf(o))) = Cardinality(PlacesOf(queue, FillOf(o)))
  /\ \A s \in Symbols : TotalOf(q, EventNet(s)) = TotalOf(queue, EventNet(s))
SameRows(rows) ==
  /\ \A o \in Orders : Cardinality(PlacesOf(rows, PaperRows(o))) = Cardinality(PlacesOf(ledger, PaperRows(o)))
  /\ \A s \in Symbols : TotalOf(rows, RowNet(s)) = TotalOf(ledger, RowNet(s))

\* The engine publishes what it did in a step.
LEMMA EngineTells ==
  ASSUME DeskInv, StepKeeps, AccountOK', PositionIsBooked', realism' = realism, NEW events \in FillEvents,
         NEW q \in Seq(BusEvents), queue' = q \o events, SameFills(q),
         ledger' = ledger, ledgerOpen' = ledgerOpen
  PROVE  DeskInv'
  <1>1. BookInv' /\ ClosedKept /\ BookInv
    BY DEF StepKeeps, DeskInv
  <1>2. /\ events \in Seq(BusEvents)
        /\ \A o \in Orders : Cardinality(PlacesOf(events, FillOf(o))) = IF NewlyFilled(o) THEN 1 ELSE 0
    BY <1>1, EventsTell
  <1>3. queue' \in Seq(BusEvents)
    BY <1>2
  <1>4. ASSUME ledgerOpen, NEW o \in Orders PROVE ToldOnce(o)'
    <2> DEFINE E == FillOf(o)
               inLedger == Cardinality(PlacesOf(ledger, PaperRows(o)))
    <2>1. Cardinality(PlacesOf(queue, E)) + inLedger = IF IsFilled(o) THEN 1 ELSE 0
      BY <1>4 DEF DeskInv, ToldOnce
    <2>2. Cardinality(PlacesOf(queue', E)) = Cardinality(PlacesOf(q, E)) + Cardinality(PlacesOf(events, E))
      <3> HIDE DEF E
      <3> QED BY <1>2, PlacesJoin
    <2>3. Cardinality(PlacesOf(q, E)) = Cardinality(PlacesOf(queue, E))
      BY DEF SameFills
    <2>4. Cardinality(PlacesOf(events, E)) = IF NewlyFilled(o) THEN 1 ELSE 0
      BY <1>2
    <2>5. Cardinality(PlacesOf(q, E)) \in Nat /\ inLedger \in Nat
      BY PlacesFinite DEF DeskInv
    <2>6. IsFilled(o) => IsFilled(o)'
      <3>1. IsFilled(o) => o \in Closed
        BY DEF IsFilled, Closed
      <3>2. DOMAIN book \subseteq DOMAIN book'
        BY DEF StepKeeps, FillsFollow
      <3> QED BY <1>1, <3>1, <3>2 DEF IsFilled, ClosedKept
    <2>7. Cardinality(PlacesOf(queue', E)) + inLedger = IF IsFilled(o)' THEN 1 ELSE 0
      <3> HIDE DEF E, inLedger
      <3> QED BY <2>1, <2>2, <2>3, <2>4, <2>5, <2>6 DEF NewlyFilled
    <2> QED BY <2>7 DEF ToldOnce, FillOf, PaperRows, BusEvents
  <1>5. ASSUME ~realism, ledgerOpen, NEW s \in Symbols PROVE Explained(s)'
    <2> DEFINE W == EventNet(s)
               coming == TotalOf(queue, W)
               new == TotalOf(events, W)
               rows == TotalOf(ledger, RowNet(s))
               all == SumFunction(Bought(s))
    <2>1. all \in Int /\ new \in Int /\ SumFunction(Bought(s)') = all + new
      BY <1>1, <1>5, EventsAddUp
    <2>2. coming + rows = all
      BY <1>5 DEF DeskInv, Explained
    <2>3. W \in [BusEvents -> Int] /\ coming \in Int /\ rows \in Int
      <3>1. W \in [BusEvents -> Int] /\ RowNet(s) \in [Rows -> Int]
        BY NetTypes
      <3> HIDE DEF W
      <3> QED BY <3>1, SumToNext DEF DeskInv
    <2>4. TotalOf(queue', W) = coming + new
      <3>1. TotalOf(q, W) = coming
        BY DEF SameFills
      <3> HIDE DEF W
      <3>2. TotalOf(q \o events, W) = TotalOf(q, W) + new
        BY <1>2, <2>3, TotalJoin
      <3> QED BY <3>1, <3>2
    <2>5. TotalOf(queue', W) + rows = SumFunction(Bought(s)')
      <3> HIDE DEF W, coming, new, rows, all
      <3> QED BY <2>1, <2>2, <2>3, <2>4
    <2> QED BY <2>5 DEF Explained, EventNet, RowNet, BusEvents, Rows
  <1> QED BY <1>1, <1>3, <1>4, <1>5 DEF DeskInv

\* An event is taken that tells of no fill.
LEMMA OtherTaken ==
  ASSUME queue \in Seq(BusEvents), queue # <<>>, Head(queue).topic # "filled"
  PROVE  Tail(queue) \in Seq(BusEvents) /\ SameFills(Tail(queue))
  <1>1. Tail(queue) \in Seq(BusEvents)
    BY HeadTailProperties
  <1>2. ASSUME NEW o \in Orders
        PROVE  Cardinality(PlacesOf(Tail(queue), FillOf(o))) = Cardinality(PlacesOf(queue, FillOf(o)))
    <2>1. Head(queue) \notin FillOf(o)
      BY DEF FillOf
    <2>2. Cardinality(PlacesOf(queue, FillOf(o)))
            = (IF Head(queue) \in FillOf(o) THEN 1 ELSE 0) + Cardinality(PlacesOf(Tail(queue), FillOf(o)))
      BY PlacesTail
    <2>3. Cardinality(PlacesOf(Tail(queue), FillOf(o))) \in Nat
      BY <1>1, PlacesFinite
    <2> QED BY <2>1, <2>2, <2>3
  <1>3. ASSUME NEW s \in Symbols PROVE TotalOf(Tail(queue), EventNet(s)) = TotalOf(queue, EventNet(s))
    <2>1. EventNet(s) \in [BusEvents -> Int]
      BY NetTypes
    <2>2. EventNet(s)[Head(queue)] = 0
      <3>1. Head(queue) \in BusEvents
        BY HeadTailProperties
      <3> QED BY <3>1 DEF EventNet
    <2>3. TotalOf(queue, EventNet(s)) = EventNet(s)[Head(queue)] + TotalOf(Tail(queue), EventNet(s))
      BY <2>1, TotalTail
    <2>4. TotalOf(Tail(queue), EventNet(s)) \in Int
      BY <1>1, <2>1, SumToNext
    <2> QED BY <2>2, <2>3, <2>4
  <1> QED BY <1>1, <1>2, <1>3 DEF SameFills

\* The engine does nothing, and the events and rows of fills stay as many.
LEMMA OthersKeep ==
  ASSUME DeskInv, UNCHANGED paperVars, queue' \in Seq(BusEvents), ledger' \in Seq(Rows),
         ledgerOpen' => ledgerOpen, SameFills(queue'), SameRows(ledger')
  PROVE  DeskInv'
  <1>1. BookInv' /\ AccountOK' /\ PositionIsBooked' /\ realism' = realism
    BY DEF DeskInv, BookInv, PaperTypeOK, RestingShape, Unplaced, FillsBounded, AccountOK, paperVars,
           PositionIsBooked, Bought
  <1>2. ASSUME ledgerOpen, NEW o \in Orders PROVE ToldOnce(o)'
    <2>1. IsFilled(o)' <=> IsFilled(o)
      BY DEF IsFilled, paperVars
    <2>2. Cardinality(PlacesOf(queue', FillOf(o))) + Cardinality(PlacesOf(ledger', PaperRows(o)))
            = IF IsFilled(o)' THEN 1 ELSE 0
      BY <1>2, <2>1 DEF DeskInv, ToldOnce, SameFills, SameRows
    <2> QED BY <2>2 DEF ToldOnce, FillOf, PaperRows, BusEvents
  <1>3. ASSUME ~realism, ledgerOpen, NEW s \in Symbols PROVE Explained(s)'
    <2>1. Bought(s)' = Bought(s)
      BY DEF Bought, paperVars
    <2>2. TotalOf(queue', EventNet(s)) + TotalOf(ledger', RowNet(s)) = SumFunction(Bought(s)')
      BY <1>3, <2>1 DEF DeskInv, Explained, SameFills, SameRows
    <2> QED BY <2>2 DEF Explained, EventNet, RowNet, BusEvents, Rows
  <1> QED BY <1>1, <1>2, <1>3 DEF DeskInv

\* An event that tells of no fill is published.
LEMMA OtherPublished ==
  ASSUME DeskInv, UNCHANGED paperVars, NEW e \in BusEvents, e.topic # "filled",
         queue' = queue \o <<e>>, ledger' = ledger, ledgerOpen' = ledgerOpen
  PROVE  DeskInv'
  <1> DEFINE b == <<e>>
  <1>0. queue \in Seq(BusEvents) /\ ledger \in Seq(Rows)
    BY DEF DeskInv
  <1>1. b \in Seq(BusEvents) /\ queue' = queue \o b
    OBVIOUS
  <1>2. ASSUME NEW o \in Orders
        PROVE  Cardinality(PlacesOf(queue', FillOf(o))) = Cardinality(PlacesOf(queue, FillOf(o)))
    <2>1. Cardinality(PlacesOf(b, FillOf(o))) = 0
      <3>1. e \notin FillOf(o)
        BY DEF FillOf
      <3> QED BY <3>1, PlacesOfFew
    <2> HIDE DEF b
    <2>2. Cardinality(PlacesOf(queue \o b, FillOf(o)))
            = Cardinality(PlacesOf(queue, FillOf(o))) + Cardinality(PlacesOf(b, FillOf(o)))
      BY <1>0, <1>1, PlacesJoin
    <2>3. Cardinality(PlacesOf(queue, FillOf(o))) \in Nat
      BY <1>0, PlacesFinite
    <2> QED BY <1>1, <2>1, <2>2, <2>3
  <1>3. queue' \in Seq(BusEvents) /\ ledger' \in Seq(Rows)
    <2> HIDE DEF b
    <2> QED BY <1>0, <1>1
  <1>4. ASSUME NEW s \in Symbols PROVE TotalOf(queue', EventNet(s)) = TotalOf(queue, EventNet(s))
    <2>1. EventNet(s) \in [BusEvents -> Int] /\ EventNet(s)[e] = 0
      BY NetTypes DEF EventNet
    <2>2. TotalOf(b, EventNet(s)) = EventNet(s)[e]
      BY <2>1, TotalOfFew
    <2> HIDE DEF b
    <2>3. TotalOf(queue \o b, EventNet(s)) = TotalOf(queue, EventNet(s)) + TotalOf(b, EventNet(s))
      BY <1>0, <1>1, <2>1, TotalJoin
    <2>4. TotalOf(queue, EventNet(s)) \in Int
      BY <1>0, <2>1, SumToNext
    <2> QED BY <1>1, <2>1, <2>2, <2>3, <2>4
  <1> HIDE DEF b
  <1>5. SameFills(queue') /\ SameRows(ledger')
    BY <1>2, <1>4 DEF SameFills, SameRows
  <1> QED BY <1>3, <1>5, OthersKeep

\* The recorder writes the row of a fill that it hears of.
LEMMA FilledKeeps ==
  ASSUME DeskInv, DispatchFilled
  PROVE  DeskInv'
  <1> DEFINE e == Head(queue)
             x == e.order
             row == Row(x, "paper", e.symbol, e.side, e.quantity, e.price)
  <1>1. queue \in Seq(BusEvents) /\ queue # <<>> /\ ledger \in Seq(Rows) /\ e.topic = "filled"
    BY DEF DeskInv, DispatchFilled, Take
  <1>2. e \in BusEvents /\ Tail(queue) \in Seq(BusEvents)
    BY <1>1, HeadTailProperties
  <1>3. queue' = Tail(queue)
    <2>1. queue' = Tail(queue) \o <<>>
      BY DEF DispatchFilled, Take
    <2> QED BY <1>2, <2>1, ConcatEmptySeq
  <1>4. /\ x \in Orders /\ row \in Rows /\ row.order = x /\ row.source = "paper"
        /\ row.symbol = e.symbol /\ row.side = e.side /\ row.quantity = e.quantity /\ e.side \in Sides
    <2>1. e \in [topic : {"filled"}, order : Orders, symbol : Symbols, side : Sides,
                 quantity : Nat \ {0}, price : Int]
      BY <1>1, <1>2 DEF BusEvents
    <2> HIDE DEF e
    <2> QED BY <2>1 DEF Row, Rows
  <1>5. ASSUME NEW o \in Orders
        PROVE  /\ Cardinality(PlacesOf(queue, FillOf(o)))
                    = (IF o = x THEN 1 ELSE 0) + Cardinality(PlacesOf(queue', FillOf(o)))
               /\ Cardinality(PlacesOf(queue', FillOf(o))) \in Nat
    <2>1. e \in FillOf(o) <=> o = x
      BY <1>1, <1>2 DEF FillOf
    <2>2. Cardinality(PlacesOf(queue, FillOf(o)))
            = (IF e \in FillOf(o) THEN 1 ELSE 0) + Cardinality(PlacesOf(Tail(queue), FillOf(o)))
      BY <1>1, PlacesTail
    <2>3. Cardinality(PlacesOf(Tail(queue), FillOf(o))) \in Nat
      BY <1>2, PlacesFinite
    <2> HIDE DEF e, x
    <2> QED BY <1>3, <2>1, <2>2, <2>3
  <1>6. BookInv' /\ AccountOK' /\ PositionIsBooked' /\ realism' = realism
    BY DEF DeskInv, BookInv, PaperTypeOK, RestingShape, Unplaced, FillsBounded, AccountOK, paperVars,
           PositionIsBooked, Bought, DispatchFilled
  <1>7. CASE ~ledgerOpen
    <2>1. ledger' = ledger /\ ledgerOpen' = ledgerOpen
      BY <1>7 DEF DispatchFilled
    <2> QED BY <1>1, <1>2, <1>3, <1>6, <1>7, <2>1 DEF DeskInv
  <1>8. CASE ledgerOpen
    <2>1. ~HasRow(ledger, x, "paper")
      <3>1. Cardinality(PlacesOf(ledger, PaperRows(x))) = 0
        <4>1. Cardinality(PlacesOf(queue, FillOf(x))) + Cardinality(PlacesOf(ledger, PaperRows(x)))
                = IF IsFilled(x) THEN 1 ELSE 0
          BY <1>4, <1>8 DEF DeskInv, ToldOnce
        <4>2. Cardinality(PlacesOf(ledger, PaperRows(x))) \in Nat
          BY <1>1, PlacesFinite
        <4> HIDE DEF x
        <4> QED BY <1>4, <1>5, <4>1, <4>2
      <3>2. PlacesOf(ledger, PaperRows(x)) = {}
        BY <1>1, <3>1, PlacesFinite, FS_EmptySet
      <3>3. \A i \in 1 .. Len(ledger) : ledger[i] \in Rows /\ ledger[i] \notin PaperRows(x)
        BY <1>1, <3>2 DEF PlacesOf
      <3> HIDE DEF x
      <3> QED BY <1>1, <3>3 DEF HasRow, PaperRows
    <2>2. ledger' = Append(ledger, row) /\ ledgerOpen' = ledgerOpen
      BY <1>4, <1>8, <2>1 DEF DispatchFilled, OnOrderFilled, RecordFill
    <2>3. ledger' \in Seq(Rows)
      <3> HIDE DEF row
      <3> QED BY <1>1, <1>4, <2>2
    <2>4. ASSUME NEW o \in Orders PROVE ToldOnce(o)'
      <3>1. Cardinality(PlacesOf(ledger', PaperRows(o)))
              = Cardinality(PlacesOf(ledger, PaperRows(o))) + (IF o = x THEN 1 ELSE 0)
        <4>1. row \in PaperRows(o) <=> o = x
          BY <1>4 DEF PaperRows
        <4> HIDE DEF row, x
        <4>2. Cardinality(PlacesOf(Append(ledger, row), PaperRows(o)))
                = Cardinality(PlacesOf(ledger, PaperRows(o))) + (IF row \in PaperRows(o) THEN 1 ELSE 0)
          BY <1>1, <1>4, PlacesAppend
        <4> QED BY <2>2, <4>1, <4>2
      <3>2. Cardinality(PlacesOf(queue, FillOf(o))) + Cardinality(PlacesOf(ledger, PaperRows(o)))
              = IF IsFilled(o) THEN 1 ELSE 0
        BY <1>8 DEF DeskInv, ToldOnce
      <3>3. Cardinality(PlacesOf(ledger, PaperRows(o))) \in Nat
        BY <1>1, PlacesFinite
      <3>4. IsFilled(o)' <=> IsFilled(o)
        BY DEF DispatchFilled, IsFilled, paperVars
      <3>5. Cardinality(PlacesOf(queue', FillOf(o))) + Cardinality(PlacesOf(ledger', PaperRows(o)))
              = IF IsFilled(o)' THEN 1 ELSE 0
        <4> HIDE DEF x
        <4> QED BY <1>5, <3>1, <3>2, <3>3, <3>4
      <3> QED BY <3>5 DEF ToldOnce, FillOf, PaperRows, BusEvents
    <2>5. ASSUME ~realism, NEW s \in Symbols PROVE Explained(s)'
      <3> DEFINE W == EventNet(s)
                 R == RowNet(s)
      <3>1. W \in [BusEvents -> Int] /\ R \in [Rows -> Int]
        BY NetTypes
      <3>2. R[row] = W[e]
        <4> HIDE DEF row, e
        <4> QED BY <1>1, <1>2, <1>4 DEF RowNet, EventNet
      <3>3. TotalOf(queue, W) + TotalOf(ledger, R) = SumFunction(Bought(s))
        BY <1>8, <2>5 DEF DeskInv, Explained
      <3>4. Bought(s)' = Bought(s)
        BY DEF Bought, paperVars, DispatchFilled
      <3> HIDE DEF W, R, row
      <3>5. TotalOf(queue, W) = W[e] + TotalOf(Tail(queue), W)
        BY <1>1, <3>1, TotalTail
      <3>6. TotalOf(Append(ledger, row), R) = TotalOf(ledger, R) + R[row]
        BY <1>1, <1>4, <3>1, TotalAppend
      <3>7. TotalOf(Tail(queue), W) \in Int /\ TotalOf(ledger, R) \in Int /\ W[e] \in Int
        <4>1. TotalOf(Tail(queue), W) \in Int /\ TotalOf(ledger, R) \in Int
          BY <1>1, <1>2, <3>1, SumToNext
        <4> HIDE DEF e
        <4> QED BY <1>2, <3>1, <4>1
      <3>8. TotalOf(queue', W) + TotalOf(ledger', R) = SumFunction(Bought(s)')
        <4> HIDE DEF e, x
        <4> QED BY <1>3, <2>2, <3>2, <3>3, <3>4, <3>5, <3>6, <3>7
      <3> QED BY <3>8 DEF Explained, EventNet, RowNet, BusEvents, Rows, W, R
    <2> QED BY <1>2, <1>3, <1>6, <2>3, <2>4, <2>5 DEF DeskInv
  <1> QED BY <1>7, <1>8

\* A postback leaves a row of its own source, if any.
LEMMA UpdatedKeeps ==
  ASSUME DeskInv, DispatchUpdated
  PROVE  DeskInv'
  <1> DEFINE e == Head(queue)
             symbol == SymbolForOrder(ledger, e.order)
             row == Row(e.order, "postback", symbol, "none", e.quantity, e.price)
  <1>1. queue \in Seq(BusEvents) /\ queue # <<>> /\ ledger \in Seq(Rows) /\ e.topic = "updated"
    BY DEF DeskInv, DispatchUpdated, Take
  <1>2. e \in BusEvents /\ Tail(queue) \in Seq(BusEvents)
    BY <1>1, HeadTailProperties
  <1>3. queue' = Tail(queue)
    <2>1. queue' = Tail(queue) \o <<>>
      BY DEF DispatchUpdated, Take
    <2> QED BY <1>2, <2>1, ConcatEmptySeq
  <1>4. \/ ledger' = ledger
        \/ symbol # "none" /\ ledger' = Append(ledger, row)
    BY DEF DispatchUpdated, OnOrderUpdated, RecordFill
  <1>5. symbol # "none" => row \in Rows /\ row.source = "postback" /\ row.side = "none"
    <2>1. ASSUME symbol # "none" PROVE symbol \in Symbols
      <3> DEFINE known == {i \in DOMAIN ledger : ledger[i].order = e.order}
      <3>1. known # {} /\ symbol = ledger[Min(known)].symbol
        BY <2>1 DEF SymbolForOrder
      <3>2. known \subseteq 1 .. Len(ledger) /\ known \in SUBSET Nat
        BY <1>1
      <3>3. Min(known) \in 1 .. Len(ledger)
        <4> HIDE DEF known
        <4> QED BY <3>1, <3>2, LeastNumber
      <3>4. ledger[Min(known)] \in Rows
        <4> HIDE DEF known
        <4> QED BY <1>1, <3>3
      <3> HIDE DEF known
      <3> QED BY <3>1, <3>4 DEF Rows
    <2>2. e \in [topic : {"updated"}, order : Orders, quantity : Quantities, price : Prices]
      BY <1>1, <1>2 DEF BusEvents
    <2>3. e.order \in Orders /\ e.quantity \in Nat /\ e.price \in Int
      <3>1. \A q \in Quantities : q \in Nat
        BY PaperAssumption
      <3>2. \A p \in Prices : p \in Int
        BY PaperAssumption
      <3> HIDE DEF e
      <3> QED BY <2>2, <3>1, <3>2
    <2> HIDE DEF e, symbol
    <2> QED BY <2>1, <2>3 DEF Row, Rows
  <1>6. ledger' \in Seq(Rows)
    <2> HIDE DEF row, symbol
    <2> QED BY <1>1, <1>4, <1>5
  <1>7. ASSUME NEW o \in Orders
        PROVE  Cardinality(PlacesOf(ledger', PaperRows(o))) = Cardinality(PlacesOf(ledger, PaperRows(o)))
    <2> HIDE DEF row, symbol
    <2>1. CASE ledger' = ledger
      BY <2>1
    <2>2. CASE symbol # "none" /\ ledger' = Append(ledger, row)
      <3>1. row \notin PaperRows(o)
        BY <1>5, <2>2 DEF PaperRows
      <3>2. Cardinality(PlacesOf(Append(ledger, row), PaperRows(o)))
              = Cardinality(PlacesOf(ledger, PaperRows(o))) + (IF row \in PaperRows(o) THEN 1 ELSE 0)
        BY <1>1, <1>5, <2>2, PlacesAppend
      <3>3. Cardinality(PlacesOf(ledger, PaperRows(o))) \in Nat
        BY <1>1, PlacesFinite
      <3> QED BY <2>2, <3>1, <3>2, <3>3
    <2> QED BY <1>4, <2>1, <2>2
  <1>8. SameFills(queue')
    BY <1>1, <1>3, OtherTaken
  <1>9. UNCHANGED paperVars /\ ledgerOpen' = ledgerOpen
    BY DEF DispatchUpdated
  <1>10. ASSUME NEW s \in Symbols PROVE TotalOf(ledger', RowNet(s)) = TotalOf(ledger, RowNet(s))
    <2> HIDE DEF row, symbol
    <2>1. CASE ledger' = ledger
      BY <2>1
    <2>2. CASE symbol # "none" /\ ledger' = Append(ledger, row)
      <3>1. RowNet(s) \in [Rows -> Int] /\ RowNet(s)[row] = 0
        BY <1>5, <2>2, NetTypes DEF RowNet, Sides
      <3>2. TotalOf(Append(ledger, row), RowNet(s)) = TotalOf(ledger, RowNet(s)) + RowNet(s)[row]
        BY <1>1, <1>5, <2>2, <3>1, TotalAppend
      <3>3. TotalOf(ledger, RowNet(s)) \in Int
        BY <1>1, <3>1, SumToNext
      <3> QED BY <2>2, <3>1, <3>2, <3>3
    <2> QED BY <1>4, <2>1, <2>2
  <1> HIDE DEF e, symbol, row
  <1>11. SameRows(ledger')
    BY <1>7, <1>10 DEF SameRows
  <1> QED BY <1>2, <1>3, <1>6, <1>8, <1>9, <1>11, OthersKeep

\* The engine makes a step and publishes what it did.
LEMMA EngineKeeps ==
  ASSUME DeskInv, PaperNext, NEW events \in FillEvents,
         NEW q \in Seq(BusEvents), queue' = q \o events, SameFills(q),
         ledger' = ledger, ledgerOpen' = ledgerOpen
  PROVE  DeskInv'
  <1>1. StepKeeps /\ AccountOK' /\ PositionIsBooked'
    BY BookStep, AccountStep DEF DeskInv
  <1>2. realism' = realism
    BY DEF PaperNext, PlaceMarket, PlaceResting, PlaceUnsupported, PlaceRefused, Cancel, Tick
  <1> QED BY <1>1, <1>2, EngineTells

\* A position is closed by a market order for its quantity.
LEMMA CloseKeeps ==
  ASSUME DeskInv, NEW o \in Orders, NEW s \in Symbols, ClosePosition(o, s)
  PROVE  DeskInv'
  <1> DEFINE net == account.pos[s].net
             n == Abs(net)
             ord == [symbol |-> s, side |-> IF net > 0 THEN "SELL" ELSE "BUY", type |-> "MARKET",
                     quantity |-> n, level |-> 0, status |-> "FILLED", filled |-> n]
             price == FillPrice(ord, ltp[s])
  <1>1. BookInv /\ AccountOK /\ PositionIsBooked /\ net \in Int /\ net # 0
    BY DEF DeskInv, AccountOK, Accounts, Positions, ClosePosition
  <1>2. n \in Nat \ {0}
    BY <1>1 DEF Abs
  <1>3. Enter(o, ord) /\ booked' = [booked EXCEPT ![o] = n] /\ account' = Settle(account, ord, n, price)
        /\ UNCHANGED <<realism, resting, ltp>> /\ UNCHANGED <<ledger, ledgerOpen>>
        /\ \E events \in FillEvents : Publish(events)
    BY DEF ClosePosition
  <1>4. ord \in OrderRecords
    <2> HIDE DEF n
    <2> QED BY <1>2 DEF OrderRecords, Sides, Statuses
  <1>5. ord.filled = n /\ ord.quantity = n /\ ord.status = "FILLED"
    OBVIOUS
  <1>6. price \in Int
    <2>1. ltp[s] \in Prices \cup {0}
      BY <1>1 DEF BookInv, PaperTypeOK
    <2> HIDE DEF ord
    <2> QED BY <1>4, <2>1, PriceOfFill
  <1> HIDE DEF n, ord, price
  <1>7. BookInv'
    <2>1. ord.filled \in {0, ord.quantity} /\ booked' = [booked EXCEPT ![o] = ord.filled]
      BY <1>3, <1>5
    <2> QED BY <1>1, <1>3, <1>4, <2>1, EnterKeeps
  <1>8. ClosedKept /\ FillsFollow
    <2>1. n \in Nat /\ n # 0
      BY <1>2
    <2> QED BY <1>1, <1>3, <1>5, <2>1, EnterFollows
  <1>9. AccountOK' /\ PositionIsBooked'
    <2>1. n \in Nat /\ n # 0
      BY <1>2
    <2> QED BY <1>1, <1>3, <1>4, <1>6, <2>1, EnterBooks
  <1>10. StepKeeps
    BY <1>7, <1>8 DEF StepKeeps
  <1>11. queue \in Seq(BusEvents) /\ SameFills(queue)
    BY DEF DeskInv, SameFills
  <1> QED BY <1>3, <1>9, <1>10, <1>11, EngineTells DEF Publish

LEMMA NothingAddsUp ==
  ASSUME NEW s \in Symbols
  PROVE  TotalOf(<<>>, EventNet(s)) = 0 /\ TotalOf(<<>>, RowNet(s)) = 0
  <1> DEFINE e == <<>>
  <1>1. EventNet(s) \in [BusEvents -> Int] /\ RowNet(s) \in [Rows -> Int]
    BY NetTypes
  <1>2. e \in Seq(BusEvents) /\ e \in Seq(Rows) /\ Len(e) = 0
    OBVIOUS
  <1> HIDE DEF e
  <1>3. SumTo(e, EventNet(s), 0) = 0 /\ SumTo(e, RowNet(s), 0) = 0
    BY <1>1, <1>2, SumToNext
  <1>4. TotalOf(e, EventNet(s)) = 0 /\ TotalOf(e, RowNet(s)) = 0
    BY <1>2, <1>3 DEF TotalOf
  <1> QED BY <1>4 DEF e

LEMMA DeskInit == Init => DeskInv
  <1> SUFFICES ASSUME Init PROVE DeskInv
    OBVIOUS
  <1>1. BookInv /\ AccountOK /\ PositionIsBooked
    BY BookInit, PositionInit DEF Init, PositionInv
  <1>2. queue = <<>> /\ ledger = <<>>
    BY DEF Init, BusInit
  <1>3. ASSUME NEW o \in Orders PROVE ToldOnce(o)
    <2>1. ~IsFilled(o)
      BY DEF Init, PaperInit, IsFilled
    <2>2. Cardinality(PlacesOf(<<>>, FillOf(o))) = 0 /\ Cardinality(PlacesOf(<<>>, PaperRows(o))) = 0
      BY PlacesOfFew
    <2> QED BY <1>2, <2>1, <2>2 DEF ToldOnce
  <1>4. ASSUME NEW s \in Symbols PROVE Explained(s)
    <2>1. TotalOf(<<>>, EventNet(s)) = 0 /\ TotalOf(<<>>, RowNet(s)) = 0
      BY <1>2, NothingAddsUp
    <2>2. SumFunction(Bought(s)) = 0
      <3>1. Bought(s) \in [Orders -> Int] /\ \A o \in Orders : Bought(s)[o] = 0
        BY DEF Init, PaperInit, Bought
      <3> QED BY <3>1, PaperAssumption, SumOfZeros
    <2> QED BY <1>2, <2>1, <2>2 DEF Explained
  <1> QED BY <1>1, <1>2, <1>3, <1>4 DEF DeskInv

\* Every step keeps the invariant.
LEMMA DeskStep == DeskInv /\ [Next]_deskVars => DeskInv'
  <1> SUFFICES ASSUME DeskInv, [Next]_deskVars PROVE DeskInv'
    OBVIOUS
  <1>0. queue \in Seq(BusEvents) /\ ledger \in Seq(Rows)
    BY DEF DeskInv
  <1>1. ASSUME NEW o \in Orders, PlaceOrCancel(o) PROVE DeskInv'
    <2>1. PaperNext
      BY <1>1 DEF PlaceOrCancel, PaperNext
    <2>2. PICK events \in FillEvents : queue' = queue \o events
      BY <1>1 DEF PlaceOrCancel, Publish
    <2>3. ledger' = ledger /\ ledgerOpen' = ledgerOpen
      BY <1>1 DEF PlaceOrCancel
    <2> QED BY <1>0, <2>1, <2>2, <2>3, EngineKeeps DEF SameFills
  <1>2. CASE DispatchTick
    <2> DEFINE e == Head(queue)
    <2>1. queue # <<>> /\ e.topic = "tick" /\ e \in BusEvents
      BY <1>0, <1>2, HeadTailProperties DEF DispatchTick
    <2>2. e \in [topic : {"tick"}, symbol : Symbols, price : Prices]
      BY <2>1 DEF BusEvents
    <2>3. PaperNext
      <3>1. Tick(e.symbol, e.price) /\ e.symbol \in Symbols /\ e.price \in Prices
        BY <1>2, <2>2 DEF DispatchTick
      <3> QED BY <3>1 DEF PaperNext
    <2>4. PICK events \in FillEvents : queue' = Tail(queue) \o events
      BY <1>2 DEF DispatchTick, Take
    <2>5. ledger' = ledger /\ ledgerOpen' = ledgerOpen
      BY <1>2 DEF DispatchTick
    <2>6. e.topic # "filled"
      BY <2>1
    <2>7. Tail(queue) \in Seq(BusEvents) /\ SameFills(Tail(queue))
      BY <1>0, <2>1, <2>6, OtherTaken
    <2> QED BY <2>3, <2>4, <2>5, <2>7, EngineKeeps
  <1>3. CASE DispatchPosition
    <2>1. queue # <<>> /\ Head(queue).topic = "position" /\ queue' = Tail(queue) \o <<>>
      BY <1>3 DEF DispatchPosition, Take
    <2>2. Head(queue).topic # "filled"
      BY <2>1
    <2>3. Tail(queue) \in Seq(BusEvents) /\ SameFills(Tail(queue))
      BY <1>0, <2>1, <2>2, OtherTaken
    <2>4. queue' = Tail(queue)
      BY <2>1, <2>3, ConcatEmptySeq
    <2>5. UNCHANGED paperVars /\ ledger' = ledger /\ ledgerOpen' = ledgerOpen
      BY <1>3 DEF DispatchPosition
    <2>6. SameRows(ledger')
      BY <2>5 DEF SameRows
    <2> QED BY <1>0, <2>3, <2>4, <2>5, <2>6, OthersKeep
  <1>4. ASSUME NEW s \in Symbols, NEW price \in Prices, TickArrives(s, price) PROVE DeskInv'
    <2> DEFINE e == [topic |-> "tick", symbol |-> s, price |-> price]
    <2>1. e \in BusEvents /\ e.topic # "filled"
      BY DEF BusEvents
    <2>2. queue' = queue \o <<e>> /\ UNCHANGED paperVars /\ ledger' = ledger /\ ledgerOpen' = ledgerOpen
      BY <1>4 DEF TickArrives, Publish
    <2> HIDE DEF e
    <2> QED BY <2>1, <2>2, OtherPublished
  <1>5. ASSUME NEW o \in Orders, PostbackArrives(o) PROVE DeskInv'
    <2>1. PICK n \in Quantities, price \in Prices :
            queue' = queue \o <<[topic |-> "updated", order |-> o, quantity |-> n, price |-> price]>>
      BY <1>5 DEF PostbackArrives, Publish
    <2> DEFINE e == [topic |-> "updated", order |-> o, quantity |-> n, price |-> price]
    <2>2. e \in BusEvents /\ e.topic # "filled"
      BY DEF BusEvents
    <2>3. queue' = queue \o <<e>> /\ UNCHANGED paperVars /\ ledger' = ledger /\ ledgerOpen' = ledgerOpen
      BY <1>5, <2>1 DEF PostbackArrives
    <2> HIDE DEF e
    <2> QED BY <2>2, <2>3, OtherPublished
  <1>6. ASSUME UNCHANGED paperVars, queue' = queue, ledger' = ledger, ledgerOpen' = ledgerOpen
        PROVE  DeskInv'
    BY <1>0, <1>6, OthersKeep DEF SameFills, SameRows
  <1>7. CASE CloseLedger
    <2>1. UNCHANGED paperVars /\ queue' = queue /\ ledger' = ledger /\ ledgerOpen
      BY <1>7 DEF CloseLedger, busVars
    <2> QED BY <1>0, <2>1, OthersKeep DEF SameFills, SameRows
  <1>8. CASE StopBus
    <2>1. UNCHANGED paperVars /\ ledger' = ledger /\ ledgerOpen' = ledgerOpen /\ ~ledgerOpen
      BY <1>8 DEF StopBus
    <2> DEFINE e == [topic |-> "status"]
    <2>2. e \in BusEvents /\ e.topic # "filled" /\ queue' = Append(queue, e)
      BY <1>8 DEF StopBus, Stop, BusEvents
    <2> HIDE DEF e
    <2>3. queue' = queue \o <<e>>
      BY <1>0, <2>2, AppendIsConcat
    <2> QED BY <2>1, <2>2, <2>3, OtherPublished
  <1>9. ASSUME \/ StartRefresh \/ ContinueRefresh
               \/ \E s \in Symbols, d \in Directions : ProposeFromHint(s, d)
        PROVE  DeskInv'
    <2>1. UNCHANGED paperVars /\ queue' = queue /\ ledger' = ledger /\ ledgerOpen' = ledgerOpen
      BY <1>9 DEF StartRefresh, ContinueRefresh, ProposeFromHint, busVars
    <2> QED BY <1>6, <2>1
  <1>10. CASE UNCHANGED deskVars
    BY <1>6, <1>10 DEF deskVars, busVars
  <1> QED BY <1>1, <1>2, <1>3, <1>4, <1>5, <1>7, <1>8, <1>9, <1>10, CloseKeeps, FilledKeeps, UpdatedKeeps
          DEF Next, Operator, Dispatch, Refresh

\* Fills, ticks, repeated postbacks and closings interleave on the bus
\* (event_bus.py, ledger_recorder.py); until shutdown each order that the engine reports
\* filled is once on its way to the ledger or in it, for any orders, symbols and prices.
THEOREM EveryFillIsTold == Spec => []FillsReachLedger
  <1>1. DeskInv => FillsReachLedger
    BY ToldMeansReached DEF DeskInv
  <1> QED BY <1>1, DeskInit, DeskStep, PTL DEF Spec

\* What is on its way and what pairing leaves open is what the fills told add up to.
LEMMA ExplainedMeansPaired ==
  ASSUME DeskInv
  PROVE  LedgerExplainsPosition
  <1> SUFFICES ASSUME ~realism, ledgerOpen, NEW s \in Symbols
               PROVE  LET coming == [i \in DOMAIN queue |->
                                       IF queue[i].topic = "filled" /\ queue[i].symbol = s
                                       THEN Signed(queue[i].side, queue[i].quantity) ELSE 0]
                      IN account.pos[s].net = OpenRemainder(ledger, s) + SumFunction(coming)
    BY DEF LedgerExplainsPosition
  <1> DEFINE coming == [i \in DOMAIN queue |->
                          IF queue[i].topic = "filled" /\ queue[i].symbol = s
                          THEN Signed(queue[i].side, queue[i].quantity) ELSE 0]
  <1>1. queue \in Seq(BusEvents) /\ ledger \in Seq(Rows)
    BY DEF DeskInv
  <1>2. SumFunction(coming) = TotalOf(queue, EventNet(s))
    <2>1. DOMAIN queue = 1 .. Len(queue) /\ \A i \in 1 .. Len(queue) : queue[i] \in BusEvents
      BY <1>1
    <2>2. coming = [i \in 1 .. Len(queue) |-> EventNet(s)[queue[i]]]
      BY <2>1 DEF EventNet
    <2> HIDE DEF coming
    <2> QED BY <2>2 DEF TotalOf, SumTo
  <1>3. OpenRemainder(ledger, s) = TotalOf(ledger, RowNet(s))
    BY <1>1, RemainderIsTotal
  <1>4. TotalOf(queue, EventNet(s)) + TotalOf(ledger, RowNet(s)) = account.pos[s].net
    BY DEF DeskInv, Explained, PositionIsBooked
  <1>5. TotalOf(queue, EventNet(s)) \in Int /\ TotalOf(ledger, RowNet(s)) \in Int
    BY <1>1, NetTypes, SumToNext
  <1> HIDE DEF coming
  <1>6. account.pos[s].net = OpenRemainder(ledger, s) + SumFunction(coming)
    BY <1>2, <1>3, <1>4, <1>5
  <1> QED BY <1>6 DEF coming

\* The ledger hears of fills late and pairs them first in, first out (ledger.py,
\* pair_fills), apart from the engine, which averages (paper_trading.py, _fill_order).
\* Without the fill model the two agree at any time before shutdown: what pairing leaves
\* open and the fills on their way are the position, for any orders, quantities and prices.
THEOREM LedgerExplains == Spec => []LedgerExplainsPosition
  <1> QED BY ExplainedMeansPaired, DeskInit, DeskStep, PTL DEF Spec

\* The engine does at the desk what it does by itself, although there the bus hands it the
\* ticks and positions are closed by orders of their size (execution_orders_router.py,
\* close_position), which are none of the quantities a ticket may have: its profit adds up,
\* its positions are its fills and its fills stay bounded.
THEOREM EngineKeptAtDesk == Spec => [](PnlAddsUp /\ PositionIsBooked /\ FillsBounded)
  <1>1. DeskInv => PnlAddsUp /\ PositionIsBooked /\ FillsBounded
    BY BalanceAddsUp DEF DeskInv, BookInv
  <1> QED BY <1>1, DeskInit, DeskStep, PTL DEF Spec

-----------------------------------------------------------------------------
\* The types of the desk.

HintRecords == [symbol : Symbols, direction : Directions, outcome : Outcomes]
Snapshots == [symbol : Symbols, net : Int, pnl : Int]

DeskFlags == running \in BOOLEAN /\ ledgerOpen \in BOOLEAN
ProjectedOK == DOMAIN projected \subseteq Symbols /\ \A s \in DOMAIN projected : projected[s] \in Int
SidesTold == \A i \in DOMAIN ledger : ledger[i].side = "none" <=> ledger[i].source = "postback"
ShownOK == ProjectedOK /\ refresh \in Seq(Snapshots) /\ hints \in Seq(HintRecords) /\ SidesTold

LEMMA DeskFlagsStep == DeskFlags /\ [Next]_deskVars => DeskFlags'
  BY DEF DeskFlags, Next, Operator, Dispatch, Refresh, PlaceOrCancel, PostbackArrives, ClosePosition,
         ProposeFromHint, TickArrives, CloseLedger, StopBus, Stop, DispatchTick, DispatchPosition,
         DispatchFilled, DispatchUpdated, Take, StartRefresh, ContinueRefresh, deskVars, busVars

LEMMA ProjectKeeps ==
  ASSUME ProjectedOK, NEW s \in Symbols, NEW net \in Int, Project(s, net)
  PROVE  ProjectedOK'
  BY DEF ProjectedOK, Project

\* The hint that is found is one of those there are.
LEMMA HintFound ==
  ASSUME hints \in Seq(HintRecords), NEW symbol, NEW d, FindHint(hints, symbol, d) > 0
  PROVE  FindHint(hints, symbol, d) \in DOMAIN hints
  <1> DEFINE found == {0} \cup Unresolved(hints, symbol, d)
  <1>1. DOMAIN hints = 1 .. Len(hints) /\ Len(hints) \in Nat
    OBVIOUS
  <1>2. found \subseteq 0 .. Len(hints) /\ 0 \in found
    BY <1>1 DEF Unresolved
  <1> HIDE DEF found
  <1>3. Max(found) \in found
    BY <1>1, <1>2, GreatestNumber
  <1>4. FindHint(hints, symbol, d) = Max(found)
    BY DEF FindHint, found
  <1>5. FindHint(hints, symbol, d) \in 0 .. Len(hints)
    BY <1>2, <1>3, <1>4
  <1>6. \A n \in Nat : \A i \in 0 .. n : i > 0 => i \in 1 .. n
    OBVIOUS
  <1> QED BY <1>1, <1>5, <1>6, Zenon

LEMMA OutcomeRecorded ==
  ASSUME hints \in Seq(HintRecords), NEW i \in DOMAIN hints, NEW pnl \in Int
  PROVE  RecordOutcome(hints, i, pnl) \in Seq(HintRecords)
  <1>1. DOMAIN hints = 1 .. Len(hints) /\ hints \in [1 .. Len(hints) -> HintRecords]
    OBVIOUS
  <1>2. ASSUME NEW o \in Outcomes PROVE [hints EXCEPT ![i].outcome = o] \in Seq(HintRecords)
    <2>1. [hints[i] EXCEPT !.outcome = o] \in HintRecords
      BY <1>1 DEF HintRecords
    <2>2. [hints EXCEPT ![i].outcome = o] \in [1 .. Len(hints) -> HintRecords]
      BY <1>1, <2>1
    <2> QED BY <2>2
  <1> QED BY <1>2 DEF RecordOutcome, Outcomes

LEMMA HintsScored ==
  ASSUME hints \in Seq(HintRecords), NEW symbol, NEW pnl \in Int
  PROVE  Score(hints, symbol, "none", pnl) \in Seq(HintRecords)
  <1> DEFINE ds == ClosingDirections("none")
             found == [i \in DOMAIN ds |-> FindHint(hints, symbol, ds[i])]
             hits == {i \in DOMAIN ds : found[i] > 0}
  <1>1. DOMAIN ds = 1 .. 2
    BY DEF ClosingDirections
  <1>2. Score(hints, symbol, "none", pnl) = IF hits = {} THEN hints ELSE RecordOutcome(hints, found[Min(hits)], pnl)
    BY DEF Score
  <1> HIDE DEF ds
  <1>3. CASE hits # {}
    <2>1. Min(hits) \in hits
      <3>1. hits \in SUBSET Nat
        BY <1>1
      <3> HIDE DEF hits
      <3> QED BY <1>3, <3>1, LeastNumber
    <2>2. found[Min(hits)] = FindHint(hints, symbol, ds[Min(hits)]) /\ found[Min(hits)] > 0
      BY <2>1
    <2> HIDE DEF hits, found
    <2>3. found[Min(hits)] \in DOMAIN hints
      BY <2>2, HintFound
    <2> QED BY <1>2, <1>3, <2>3, OutcomeRecorded
  <1> HIDE DEF hits
  <1> QED BY <1>2, <1>3

LEMMA ShownStep == DeskInv /\ ShownOK /\ [Next]_deskVars => ShownOK'
  <1> SUFFICES ASSUME DeskInv, ShownOK, [Next]_deskVars PROVE ShownOK'
    OBVIOUS
  <1>0. queue \in Seq(BusEvents) /\ ledger \in Seq(Rows) /\ ProjectedOK /\ refresh \in Seq(Snapshots)
        /\ hints \in Seq(HintRecords) /\ SidesTold
    BY DEF DeskInv, ShownOK
  <1>1. ASSUME UNCHANGED <<projected, refresh, hints, ledger>> PROVE ShownOK'
    BY <1>0, <1>1 DEF ShownOK, ProjectedOK, SidesTold
  <1>2. ASSUME NEW o \in Orders, PlaceOrCancel(o) \/ PostbackArrives(o) \/ \E s \in Symbols : ClosePosition(o, s)
        PROVE  ShownOK'
    BY <1>1, <1>2 DEF PlaceOrCancel, PostbackArrives, ClosePosition
  <1>3. CASE DispatchTick \/ CloseLedger \/ UNCHANGED deskVars
             \/ \E s \in Symbols, price \in Prices : TickArrives(s, price)
    BY <1>1, <1>3 DEF DispatchTick, CloseLedger, TickArrives, deskVars
  <1>4. ASSUME NEW s \in Symbols, NEW d \in Directions, ProposeFromHint(s, d) PROVE ShownOK'
    <2>1. [symbol |-> s, direction |-> d, outcome |-> "none"] \in HintRecords
      BY DEF HintRecords, Outcomes
    <2>2. hints' \in Seq(HintRecords)
      BY <1>0, <1>4, <2>1, AppendProperties DEF ProposeFromHint, RecordHint
    <2> QED BY <1>0, <1>4, <2>2 DEF ProposeFromHint, ShownOK, ProjectedOK, SidesTold
  <1>5. CASE StopBus
    <2>1. refresh' \in Seq(Snapshots)
      BY <1>5 DEF StopBus
    <2> QED BY <1>0, <1>5, <2>1 DEF StopBus, ShownOK, ProjectedOK, SidesTold
  <1>6. CASE DispatchPosition
    <2> DEFINE e == Head(queue)
    <2>1. queue # <<>> /\ e.topic = "position" /\ Project(e.symbol, ProjectedNet(e))
          /\ UNCHANGED <<refresh, hints, ledger>>
      BY <1>6 DEF DispatchPosition, Take
    <2>2. e \in BusEvents
      BY <1>0, <2>1, HeadTailProperties
    <2>3. e.symbol \in Symbols /\ e.quantity \in Nat
      BY <2>1, <2>2 DEF BusEvents
    <2> HIDE DEF e
    <2>4. ProjectedNet(e) \in Int
      BY <2>3 DEF ProjectedNet
    <2> QED BY <1>0, <2>1, <2>3, <2>4, ProjectKeeps DEF ShownOK, SidesTold
  <1>7. ASSUME UNCHANGED <<projected, refresh, hints>>, NEW row \in Rows, row.side = "none" <=> row.source = "postback",
               ledger' = Append(ledger, row)
        PROVE  ShownOK'
    <2>1. SidesTold'
      <3>1. ASSUME NEW i \in DOMAIN ledger' PROVE ledger'[i] = row \/ (i \in DOMAIN ledger /\ ledger'[i] = ledger[i])
        BY <1>0, <1>7
      <3> QED BY <1>0, <1>7, <3>1 DEF SidesTold
    <2> QED BY <1>0, <1>7, <2>1 DEF ShownOK, ProjectedOK
  <1>8. CASE DispatchFilled
    <2> DEFINE e == Head(queue)
               row == Row(e.order, "paper", e.symbol, e.side, e.quantity, e.price)
    <2>1. queue # <<>> /\ e.topic = "filled" /\ UNCHANGED <<projected, refresh, hints>>
          /\ (ledger' = ledger \/ ledger' = Append(ledger, row))
      BY <1>8 DEF DispatchFilled, Take, OnOrderFilled, RecordFill
    <2>2. e \in BusEvents
      BY <1>0, <2>1, HeadTailProperties
    <2>3. row \in Rows /\ row.side \in Sides /\ row.source = "paper"
      BY <2>1, <2>2 DEF BusEvents, Row, Rows
    <2>4. row.side = "none" <=> row.source = "postback"
      BY <2>3 DEF Sides
    <2> HIDE DEF row
    <2> QED BY <1>1, <1>7, <2>1, <2>3, <2>4
  <1>9. CASE DispatchUpdated
    <2> DEFINE e == Head(queue)
               row == Row(e.order, "postback", SymbolForOrder(ledger, e.order), "none", e.quantity, e.price)
    <2>1. UNCHANGED <<projected, refresh, hints>> /\ (ledger' = ledger \/ ledger' = Append(ledger, row))
      BY <1>9 DEF DispatchUpdated, OnOrderUpdated, RecordFill
    <2>2. row.side = "none" /\ row.source = "postback"
      BY DEF Row
    <2>3. ledger' \in Seq(Rows)
      BY <1>9, UpdatedKeeps DEF DeskInv
    <2>4. ASSUME ledger' = Append(ledger, row) PROVE row \in Rows
      <3> HIDE DEF row
      <3>1. Len(ledger) + 1 \in DOMAIN ledger' /\ ledger'[Len(ledger) + 1] = row
        BY <1>0, <2>4
      <3> QED BY <2>3, <3>1
    <2> HIDE DEF row
    <2> QED BY <1>1, <1>7, <2>1, <2>2, <2>4
  <1>10. CASE StartRefresh
    <2> DEFINE S == {s \in Symbols : Traded(s)}
    <2>1. PICK order \in SetToSeqs(S) : refresh' = [i \in DOMAIN order |-> Snapshot(order[i])]
      BY <1>10 DEF StartRefresh
    <2>2. order \in [1 .. Cardinality(S) -> S] /\ Cardinality(S) \in Nat
      <3>1. IsFiniteSet(S)
        BY PaperAssumption, FS_Subset
      <3> HIDE DEF S
      <3> QED BY <3>1, FS_CardinalityType DEF SetToSeqs
    <2>3. \A s \in Symbols : Snapshot(s) \in Snapshots
      BY DEF DeskInv, AccountOK, Accounts, Positions, Snapshot, Snapshots
    <2>4. refresh' \in [1 .. Cardinality(S) -> Snapshots]
      BY <2>1, <2>2, <2>3
    <2>5. refresh' \in Seq(Snapshots)
      <3> HIDE DEF S
      <3> QED BY <2>2, <2>4
    <2>6. refresh'[1] \in Snapshots
      BY <1>10, <2>5 DEF StartRefresh
    <2>7. ProjectedOK'
      BY <1>0, <1>10, <2>6, ProjectKeeps DEF StartRefresh, Snapshots
    <2> QED BY <1>0, <1>10, <2>5, <2>7 DEF StartRefresh, ShownOK, SidesTold
  <1>11. CASE ContinueRefresh
    <2> DEFINE raw == Head(refresh)
    <2>1. refresh # <<>> /\ raw \in Snapshots /\ refresh' = Tail(refresh) /\ refresh' \in Seq(Snapshots)
      BY <1>0, <1>11, HeadTailProperties DEF ContinueRefresh
    <2>2. raw.pnl \in Int
      BY <2>1 DEF Snapshots
    <2>3. hints' \in Seq(HintRecords)
      <3>1. hints' = hints \/ hints' = Score(hints, raw.symbol, "none", raw.pnl)
        BY <1>11 DEF ContinueRefresh
      <3> HIDE DEF raw
      <3> QED BY <1>0, <2>2, <3>1, HintsScored
    <2>4. ProjectedOK'
      <3>1. CASE refresh' = <<>>
        BY <1>0, <1>11, <3>1 DEF ContinueRefresh, ProjectedOK
      <3>2. CASE refresh' # <<>>
        <4>1. Project(Head(refresh').symbol, Head(refresh').net)
          BY <1>11, <3>2 DEF ContinueRefresh
        <4>2. Head(refresh') \in Snapshots
          BY <2>1, <3>2
        <4>3. Head(refresh').symbol \in Symbols /\ Head(refresh').net \in Int
          BY <4>2 DEF Snapshots
        <4> QED BY <1>0, <4>1, <4>3, ProjectKeeps
      <3> QED BY <3>1, <3>2
    <2> QED BY <1>0, <1>11, <2>1, <2>3, <2>4 DEF ContinueRefresh, ShownOK, SidesTold
  <1> QED BY <1>2, <1>3, <1>4, <1>5, <1>6, <1>8, <1>9, <1>10, <1>11 DEF Next, Operator, Dispatch, Refresh

\* What the projection, the refresh loop, the ledger and the hint store hold at any time has its type;
\* in particular only symbols that the engine knows are shown and recorded, and a row of the ledger
\* lacks its side exactly if a postback left it (ledger_recorder.py).
THEOREM DeskWellFormed == Spec => []DeskTypeOK
  <1> DEFINE Inv == DeskInv /\ DeskFlags /\ ShownOK
  <1>1. Init => Inv
    <2>1. Init => DeskFlags
      BY DEF Init, BusInit, DeskFlags
    <2>2. Init => ShownOK
      BY EmptySeq DEF Init, ShownOK, ProjectedOK, SidesTold
    <2> QED BY <2>1, <2>2, DeskInit
  <1>2. Inv /\ [Next]_deskVars => Inv'
    BY DeskStep, DeskFlagsStep, ShownStep
  <1>3. Inv => DeskTypeOK
    <2> SUFFICES ASSUME Inv PROVE DeskTypeOK
      OBVIOUS
    <2>0. queue \in Seq(BusEvents) /\ ledger \in Seq(Rows) /\ refresh \in Seq(Snapshots) /\ hints \in Seq(HintRecords)
      BY DEF DeskInv, ShownOK
    <2>1. \A i \in DOMAIN ledger : ledger[i].symbol \in Symbols
      <3>1. \A i \in DOMAIN ledger : ledger[i] \in Rows
        BY <2>0
      <3> QED BY <3>1 DEF Rows
    <2>2. \A i \in DOMAIN refresh : refresh[i].symbol \in Symbols
      <3>1. \A i \in DOMAIN refresh : refresh[i] \in Snapshots
        BY <2>0
      <3> QED BY <3>1 DEF Snapshots
    <2>3. \A i \in DOMAIN hints : hints[i].symbol \in Symbols /\ hints[i].direction \in Directions /\ hints[i].outcome \in Outcomes
      <3>1. \A i \in DOMAIN hints : hints[i] \in HintRecords
        BY <2>0
      <3> QED BY <3>1 DEF HintRecords
    <2>4. Range(queue) \subseteq BusEvents
      BY <2>0 DEF Range
    <2> QED BY <2>1, <2>2, <2>3, <2>4 DEF DeskFlags, ShownOK, ProjectedOK, SidesTold, DeskTypeOK
  <1> QED BY <1>1, <1>2, <1>3, PTL DEF Spec
=============================================================================
