-------------------------------- MODULE Desk --------------------------------
(***************************************************************************)
(* The desk in PAPER mode: the paper engine publishes its fills on the     *)
(* event bus; the position projection (terminal/projections.py), the trade *)
(* ledger's recorder and the hint store hear of them; a refresh loop copies*)
(* the engine's positions into the projection every few seconds, and the   *)
(* operator closes positions (execution_orders_router.py).                 *)
(*                                                                         *)
(* The projection suspends while it broadcasts.  An update by the refresh  *)
(* loop is therefore two steps: one up to the broadcast and one that       *)
(* scores hints and applies the next position.  Events that are only       *)
(* forwarded to the browser (orders placed, rejected, cancelled) are left  *)
(* out.                                                                    *)
(***************************************************************************)
EXTENDS PaperTrading, Ledger, EventBus, HintScoring

CONSTANTS
  MaxQueue,  \* bound: ticks and postbacks arrive while the queue is shorter
  MaxHints   \* bound: hints that become proposals

ASSUME DeskAssumption == MaxQueue \in Nat /\ MaxHints \in Nat

VARIABLES
  projected,  \* _positions of the projection: net quantity by symbol
  refresh,    \* positions of the refresh loop's snapshot that are still to be applied
  ledger,     \* rows of the fills table, oldest first
  ledgerOpen, \* the ledger's connection; shutdown closes it when no request is served any more
  hints       \* rows of the hint store, oldest first

deskVars == <<paperVars, busVars, projected, refresh, ledger, ledgerOpen, hints>>

Init ==
  /\ PaperInit
  /\ BusInit
  /\ projected = <<>>
  /\ refresh = <<>>
  /\ ledger = <<>>
  /\ ledgerOpen = TRUE
  /\ hints = <<>>

-----------------------------------------------------------------------------
\* Events.

FilledEvent(o, ord, price) ==
  [topic |-> "filled", order |-> o, symbol |-> ord.symbol, side |-> ord.side,
   quantity |-> ord.quantity, price |-> price]

\* A fill changes a position: its event has side and quantity, no net.
PositionEvent(ord, n) ==
  [topic |-> "position", symbol |-> ord.symbol, side |-> ord.side, quantity |-> n]

\* What the fill of an order in a step publishes: the last one also reports the
\* order filled.
News(o) ==
  (IF book'[o].status = "FILLED"
   THEN <<FilledEvent(o, book'[o], FillPrice(book'[o], ltp'[book'[o].symbol]))>> ELSE <<>>)
  \o <<PositionEvent(book'[o], booked'[o] - booked[o])>>

\* What the engine publishes in a step, for the orders the step fills, one
\* after the other.
FillEvents ==
  LET hit == {o \in DOMAIN book' : booked'[o] # booked[o]}
  IN {FlattenSeq([i \in DOMAIN turns |-> News(turns[i])]) : turns \in SetToSeqs(hit)}

-----------------------------------------------------------------------------
\* The position projection.

\* A position as the engine reports it and as the refresh loop passes it on.
Snapshot(s) == [symbol |-> s, net |-> account.pos[s].net, pnl |-> account.pos[s].pnl]

Traded(s) == \E o \in DOMAIN book : book[o].symbol = s /\ booked[o] > 0

\* The net quantity after a fill event: its quantity, and only a first sale is
\* taken as negative.
ProjectedNet(e) ==
  IF e.side = "SELL" /\ e.symbol \notin DOMAIN projected THEN -e.quantity ELSE e.quantity

Project(s, net) == projected' = [x \in DOMAIN projected \cup {s} |-> IF x = s THEN net ELSE projected[x]]

-----------------------------------------------------------------------------
\* The operator and the market.

\* Order ids are random, so which one a new order gets makes no difference.
IsNextId(o) == o \notin DOMAIN book /\ o = CHOOSE x \in Orders \ DOMAIN book : TRUE

\* An operation of the paper engine outside the bus.  Refused orders fill
\* nothing and are left out.
PlaceOrCancel(o) ==
  /\ ledgerOpen
  /\ \/ IsNextId(o) /\ (PlaceMarket(o) \/ PlaceResting(o))
     \/ Cancel(o)
  /\ \E events \in FillEvents : Publish(events)
  /\ UNCHANGED hints
  /\ UNCHANGED <<running, projected, refresh, ledger, ledgerOpen>>

\* close_position in PAPER mode: a market order of the opposite side for the
\* engine's net quantity, from lookup to fill in one step.
ClosePosition(o, s) ==
  LET net == account.pos[s].net
      ord == [symbol |-> s, side |-> IF net > 0 THEN "SELL" ELSE "BUY", type |-> "MARKET",
              quantity |-> Abs(net), level |-> 0, status |-> "FILLED", filled |-> Abs(net)]
  IN /\ ledgerOpen /\ IsNextId(o)
     /\ net # 0
     /\ Enter(o, ord)
     /\ booked' = [booked EXCEPT ![o] = ord.quantity]
     /\ account' = Settle(account, ord, ord.quantity, FillPrice(ord, ltp[s]))
     /\ UNCHANGED <<realism, resting, ltp, running, projected, refresh, ledger, ledgerOpen>>
     /\ \E events \in FillEvents : Publish(events)
     /\ UNCHANGED hints

\* A proposal is made from a hint.
ProposeFromHint(s, d) ==
  /\ ledgerOpen
  /\ Len(hints) < MaxHints
  /\ hints' = RecordHint(hints, s, d)
  /\ UNCHANGED <<paperVars, busVars, projected, refresh, ledger, ledgerOpen>>

\* The data adapter publishes a tick.
TickArrives(s, price) ==
  /\ running /\ Len(queue) < MaxQueue
  /\ Publish(<<[topic |-> "tick", symbol |-> s, price |-> price]>>)
  /\ UNCHANGED <<paperVars, running, projected, refresh, ledger, ledgerOpen, hints>>

\* A postback that reports an order filled is published, first or repeated.
\* Others, those without a quantity and those of unknown orders the recorder
\* skips.
PostbackArrives(o) ==
  /\ o \in DOMAIN book
  /\ running /\ Len(queue) < MaxQueue
  /\ \E n \in Quantities, price \in Prices :
       Publish(<<[topic |-> "updated", order |-> o, quantity |-> n, price |-> price]>>)
  /\ UNCHANGED <<paperVars, running, projected, refresh, ledger, ledgerOpen, hints>>

-----------------------------------------------------------------------------
\* The bus dispatches.

\* The engine hears a tick and fills or cancels resting orders.
DispatchTick ==
  /\ queue # <<>> /\ Head(queue).topic = "tick"
  /\ Tick(Head(queue).symbol, Head(queue).price)
  /\ \E events \in FillEvents : Take("tick", events)
  /\ UNCHANGED hints
  /\ UNCHANGED <<projected, refresh, ledger, ledgerOpen>>

\* A fill event carries no net quantity and its quantity is positive, so it
\* never counts as a close: after its broadcast nothing happens.
DispatchPosition ==
  /\ Take("position", <<>>)
  /\ Project(Head(queue).symbol, ProjectedNet(Head(queue)))
  /\ UNCHANGED <<paperVars, refresh, ledger, ledgerOpen, hints>>

\* A closed connection raises, which the bus drops.
DispatchFilled ==
  /\ Take("filled", <<>>)
  /\ ledger' = IF ledgerOpen THEN OnOrderFilled(ledger, Head(queue)) ELSE ledger
  /\ UNCHANGED <<paperVars, projected, refresh, ledgerOpen, hints>>

DispatchUpdated ==
  /\ Take("updated", <<>>)
  /\ ledger' = IF ledgerOpen THEN OnOrderUpdated(ledger, Head(queue)) ELSE ledger
  /\ UNCHANGED <<paperVars, projected, refresh, ledgerOpen, hints>>

-----------------------------------------------------------------------------
\* The refresh loop.

\* It takes all positions of the engine and applies the first, up to its
\* broadcast.
StartRefresh ==
  /\ running /\ refresh = <<>>
  /\ \E order \in SetToSeqs({s \in Symbols : Traded(s)}) :
       refresh' = [i \in DOMAIN order |-> Snapshot(order[i])]
  /\ refresh' # <<>>
  /\ Project(refresh'[1].symbol, refresh'[1].net)
  /\ UNCHANGED <<paperVars, busVars, ledger, ledgerOpen, hints>>

\* Faulty variant: the next position is applied only if the projection does not
\* show its symbol yet.
ContinueRefreshKeeping ==
  /\ refresh # <<>>
  /\ LET raw == Head(refresh)
     IN hints' = IF raw.net = 0 THEN Score(hints, raw.symbol, "none", raw.pnl) ELSE hints
  /\ refresh' = Tail(refresh)
  /\ IF refresh' = <<>> \/ Head(refresh').symbol \in DOMAIN projected THEN UNCHANGED projected
     ELSE Project(Head(refresh').symbol, Head(refresh').net)
  /\ UNCHANGED <<paperVars, busVars, ledger, ledgerOpen>>

\* The broadcast is sent: a flat position scores a hint, and the next position
\* of the snapshot, which may be out of date by now, is applied.
ContinueRefresh ==
  /\ refresh # <<>>
  /\ LET raw == Head(refresh)
     IN hints' = IF raw.net = 0 THEN Score(hints, raw.symbol, "none", raw.pnl) ELSE hints
  /\ refresh' = Tail(refresh)
  /\ IF refresh' = <<>> THEN UNCHANGED projected
     ELSE Project(Head(refresh').symbol, Head(refresh').net)
  /\ UNCHANGED <<paperVars, busVars, ledger, ledgerOpen>>

-----------------------------------------------------------------------------
\* Shutdown closes the ledger, disconnects the adapters, cancels the refresh
\* loop and stops the bus, in this order.

CloseLedger ==
  /\ ledgerOpen
  /\ ledgerOpen' = FALSE
  /\ UNCHANGED <<paperVars, busVars, projected, refresh, ledger, hints>>

StopBus ==
  /\ ~ledgerOpen
  /\ refresh' = <<>>
  /\ Stop
  /\ UNCHANGED <<paperVars, projected, ledger, ledgerOpen, hints>>

Operator ==
  \/ \E o \in Orders : PlaceOrCancel(o) \/ PostbackArrives(o) \/ \E s \in Symbols : ClosePosition(o, s)
  \/ \E s \in Symbols, d \in Directions : ProposeFromHint(s, d)
  \/ \E s \in Symbols, price \in Prices : TickArrives(s, price)
  \/ CloseLedger
  \/ StopBus

Dispatch == DispatchTick \/ DispatchPosition \/ DispatchFilled \/ DispatchUpdated

Refresh == StartRefresh \/ ContinueRefresh

Next == Operator \/ Dispatch \/ Refresh

Spec == Init /\ [][Next]_deskVars

\* The event loop runs the bus task and the refresh loop; nothing is assumed of
\* the operator, the market and the broker.
FairSpec == Spec /\ WF_deskVars(Dispatch) /\ WF_deskVars(Refresh)
-----------------------------------------------------------------------------
\* Properties.

BusEvents ==
  [topic : {"tick"}, symbol : Symbols, price : Prices] \cup
  [topic : {"position"}, symbol : Symbols, side : Sides, quantity : Nat \ {0}] \cup
  [topic : {"updated"}, order : Orders, quantity : Quantities, price : Prices] \cup
  [topic : {"filled"}, order : Orders, symbol : Symbols, side : Sides, quantity : Nat \ {0},
   price : Int] \cup
  [topic : {"status"}]

\* Variables have their types; in particular only fills with a symbol are in
\* the ledger, and only one without a side comes from a postback.
DeskTypeOK ==
  /\ running \in BOOLEAN /\ ledgerOpen \in BOOLEAN
  /\ Range(queue) \subseteq BusEvents
  /\ DOMAIN projected \subseteq Symbols
  /\ \A s \in DOMAIN projected : projected[s] \in Int
  /\ \A i \in DOMAIN refresh : refresh[i].symbol \in Symbols
  /\ \A i \in DOMAIN ledger : /\ ledger[i].symbol \in Symbols
                              /\ ledger[i].side = "none" <=> ledger[i].source = "postback"
  /\ \A i \in DOMAIN hints : /\ hints[i].symbol \in Symbols
                             /\ hints[i].direction \in Directions
                             /\ hints[i].outcome \in Outcomes

\* How often the fill of an order is in the queue and in the ledger.
QueuedFills(o) == {i \in DOMAIN queue : queue[i].topic = "filled" /\ queue[i].order = o}
LedgerFills(o) == {i \in DOMAIN ledger : ledger[i].order = o /\ ledger[i].source = "paper"}

\* Until shutdown closes the ledger, each order that the engine reports filled
\* is exactly once on its way to the ledger or in it, and no other order is,
\* whatever other events surround it and however often postbacks repeat.
FillsReachLedger ==
  ledgerOpen =>
    \A o \in Orders :
      Cardinality(QueuedFills(o)) + Cardinality(LedgerFills(o)) =
        IF o \in DOMAIN book /\ book[o].status = "FILLED" THEN 1 ELSE 0

\* The ledger explains the engine's positions: without the fill model, what
\* the first-in-first-out pairing of its rows leaves open, and the fills still
\* on their way, are the net quantity of the position.  (With the fill model
\* parts of orders never reach the ledger, see NeverOverfilled and the README.)
LedgerExplainsPosition ==
  ~realism /\ ledgerOpen =>
    \A s \in Symbols :
      LET coming == [i \in DOMAIN queue |->
                       IF queue[i].topic = "filled" /\ queue[i].symbol = s
                       THEN Signed(queue[i].side, queue[i].quantity) ELSE 0]
      IN account.pos[s].net = OpenRemainder(ledger, s) + SumFunction(coming)

\* Events overwrite the projected quantity with the quantity of the last fill,
\* and a refresh may overwrite the second position of its snapshot with what it
\* was before a fill or a close that events have told of meanwhile.  Still, when
\* trading has ended, the projection shows the engine's positions in the end and
\* keeps showing them, unless the desk is shut down.
ProjectionConverges ==
  <>[]ledgerOpen =>
    <>[](\A s \in Symbols : Traded(s) => s \in DOMAIN projected /\ projected[s] = account.pos[s].net)

\* A position that stays flat has all its hints scored in the end.
HintsResolve ==
  \A s \in Symbols :
    <>[](ledgerOpen /\ Traded(s) /\ account.pos[s].net = 0) =>
      <>[](\A d \in Directions : Unresolved(hints, s, d) = {})
=============================================================================
